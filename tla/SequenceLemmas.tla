---------------------------- MODULE SequenceLemmas ----------------------------
(***************************************************************************)
(* What the proofs need of numbers, and of sequences that are put together  *)
(* of others: which elements they hold and in which order.  Induction is    *)
(* over sets of numbers, which a lemma can take as a parameter.             *)
(***************************************************************************)
EXTENDS Selection, SequencesExt, Integers, FiniteSetTheorems, SequenceTheorems, TLAPS

-------------------------------------------------------------------------------
(* Induction over the naturals. *)

\* A set of numbers has a least one: its initial segments are finite sets, and a strict
\* inclusion among finite sets is well founded.
LEMMA LeastNumber ==
    ASSUME NEW S \in SUBSET Nat, S # {}
    PROVE  \E x \in S : \A y \in S : x <= y
  <1> DEFINE Segments == {1..x : x \in S}
  <1>1. Segments \subseteq FiniteSubsetsOf(Nat) /\ Segments # {}
    <2>1. \A x \in S : 1..x \in SUBSET Nat /\ IsFiniteSet(1..x)
      BY FS_Interval
    <2> QED
      BY <2>1 DEF FiniteSubsetsOf
  <1>2. PICK I \in Segments : \A J \in Segments : <<J, I>> \notin StrictSubsetOrdering(Nat)
    <2> HIDE DEF Segments
    <2> QED
      BY <1>1, FS_StrictSubsetOrderingWellFounded, WFMin
  <1>3. PICK x \in S : I = 1..x
    BY <1>2
  <1>4. ASSUME NEW y \in S, y < x PROVE FALSE
    <2>1. 1..y \subseteq 1..x /\ x \in 1..x /\ x \notin 1..y
      BY <1>4
    <2>2. <<1..y, I>> \in StrictSubsetOrdering(Nat)
      BY <1>3, <2>1 DEF StrictSubsetOrdering
    <2> QED
      BY <1>2, <2>2
  <1> QED
    BY <1>4

\* A set that holds zero and every successor holds all numbers.
LEMMA AllNumbers ==
    ASSUME NEW S \in SUBSET Nat, 0 \in S, \A n \in S : n + 1 \in S
    PROVE  \A n \in Nat : n \in S
  <1> SUFFICES ASSUME Nat \ S # {} PROVE FALSE
    OBVIOUS
  <1>1. PICK x \in Nat \ S : \A y \in Nat \ S : x <= y
    BY LeastNumber
  <1>2. x - 1 \in S
    BY <1>1
  <1> QED
    BY <1>1, <1>2

-------------------------------------------------------------------------------
(* Division. *)

LEMMA Quotient ==
    ASSUME NEW a \in Nat, NEW b \in Nat \ {0}
    PROVE  a \div b \in Nat /\ b * (a \div b) <= a /\ a < b * (a \div b) + b
  OBVIOUS

LEMMA Divisible ==
    ASSUME NEW a \in Nat, NEW b \in Nat \ {0}
    PROVE  a % b = 0 <=> a = b * (a \div b)
  OBVIOUS

LEMMA QuotientOfMultiple ==
    ASSUME NEW b \in Nat \ {0}, NEW k \in Nat
    PROVE  b * k \in Nat /\ (b * k) % b = 0
  OBVIOUS

\* A multiple that is less than a number is no greater a multiple than its quotient.
LEMMA Multiples ==
    ASSUME NEW b \in Nat \ {0}, NEW m \in Nat, NEW q \in Nat, NEW c \in Nat,
           m * b < c, c < b * q + b
    PROVE  m <= q
<1>1. SUFFICES ASSUME m >= q + 1 PROVE FALSE
  OBVIOUS
<1>2. PICK d \in Nat : m = q + 1 + d
  <2> DEFINE rest == m - q - 1
  <2> rest \in Nat
    BY <1>1
  <2> QED
    OBVIOUS
<1>3. m * b = b * q + b + d * b
  BY <1>2
<1>4. d * b \in Nat /\ b * q \in Nat /\ m * b \in Nat
  OBVIOUS
<1> QED
  BY <1>3, <1>4

-------------------------------------------------------------------------------
(* Flattening. *)

Flattened(seqs, n, f) == f = [i \in 1..n |-> IF i = 1 THEN seqs[i] ELSE f[i - 1] \o seqs[i]]

\* The function that `FlattenSeq` chooses exists.
LEMMA FlattenExists ==
    ASSUME NEW seqs
    PROVE  \A n \in Nat : \E f : Flattened(seqs, n, f)
  <1> DEFINE S == {n \in Nat : \E f : Flattened(seqs, n, f)}
  <1>1. 0 \in S
    <2>1. Flattened(seqs, 0, <<>>)
      BY DEF Flattened
    <2> QED
      BY <2>1
  <1>2. ASSUME NEW n \in S PROVE n + 1 \in S
    <2>1. PICK f : Flattened(seqs, n, f)
      OBVIOUS
    <2> DEFINE g == [i \in 1..n + 1 |-> IF i <= n THEN f[i]
                                        ELSE IF i = 1 THEN seqs[i] ELSE f[i - 1] \o seqs[i]]
    <2>2. ASSUME NEW i \in 1..n + 1
          PROVE  g[i] = IF i = 1 THEN seqs[i] ELSE g[i - 1] \o seqs[i]
      <3>1. CASE i <= n
        <4>0. i \in 1..n
          BY <3>1
        <4>1. f[i] = IF i = 1 THEN seqs[i] ELSE f[i - 1] \o seqs[i]
          BY <2>1, <4>0, ZenonT(20) DEF Flattened
        <4>2. i # 1 => g[i - 1] = f[i - 1]
          BY <3>1
        <4> QED
          BY <3>1, <4>1, <4>2
      <3>2. CASE i = n + 1
        <4>1. i # 1 => g[i - 1] = f[i - 1]
          BY <3>2
        <4> QED
          BY <3>2, <4>1
      <3> QED
        BY <3>1, <3>2
    <2>3. g = [i \in 1..n + 1 |-> IF i = 1 THEN seqs[i] ELSE g[i - 1] \o seqs[i]]
      BY <2>2
    <2>4. Flattened(seqs, n + 1, g)
      BY <2>3 DEF Flattened
    <2> QED
      BY <2>4
  <1> HIDE DEF S
  <1>3. \A n \in Nat : n \in S
    BY <1>1, <1>2, AllNumbers DEF S
  <1> QED
    BY <1>3 DEF S

LEMMA FlattenSteps ==
    ASSUME NEW seqs, Len(seqs) \in Nat \ {0}
    PROVE  \E f : /\ FlattenSeq(seqs) = f[Len(seqs)]
                  /\ f[1] = seqs[1]
                  /\ \A i \in 2..Len(seqs) : f[i] = f[i - 1] \o seqs[i]
  <1> DEFINE n == Len(seqs)
             f == CHOOSE f : Flattened(seqs, n, f)
  <1>1. Flattened(seqs, n, f)
    <2>1. \E g : Flattened(seqs, n, g)
      BY FlattenExists
    <2> QED
      BY <2>1
  <1>2. FlattenSeq(seqs) = f[n]
    BY DEF FlattenSeq, Flattened
  <1> HIDE DEF f
  <1>3. ASSUME NEW i \in 1..n
        PROVE  f[i] = IF i = 1 THEN seqs[i] ELSE f[i - 1] \o seqs[i]
    BY <1>1, ZenonT(20) DEF Flattened
  <1>4. f[1] = seqs[1]
    <2>1. 1 \in 1..n
      OBVIOUS
    <2> QED
      BY <1>3, <2>1
  <1>5. \A i \in 2..n : f[i] = f[i - 1] \o seqs[i]
    <2>1. \A i \in 2..n : i \in 1..n /\ i # 1
      OBVIOUS
    <2> QED
      BY <1>3, <2>1
  <1> QED
    BY <1>2, <1>4, <1>5

\* A relation holds between each element of a sequence and every later one.
Ordered(s, R) == \A p, q \in DOMAIN s : p < q => <<s[p], s[q]>> \in R

\* It holds between the elements of one sequence and those of another.
Across(s, t, R) == \A p \in DOMAIN s, q \in DOMAIN t : <<s[p], t[q]>> \in R

LEMMA Concatenation ==
    ASSUME NEW X, NEW s \in Seq(X), NEW t \in Seq(X)
    PROVE  /\ s \o t \in Seq(X) /\ Len(s \o t) = Len(s) + Len(t)
           /\ ToSet(s \o t) = ToSet(s) \union ToSet(t)
           /\ \A i \in 1..Len(s) : (s \o t)[i] = s[i]
           /\ \A i \in 1..Len(t) : (s \o t)[Len(s) + i] = t[i]
           /\ \A i \in DOMAIN (s \o t) : i \in 1..Len(s) \/ \E j \in 1..Len(t) : i = Len(s) + j
  <1>1. /\ s \o t \in Seq(X) /\ Len(s) \in Nat /\ Len(t) \in Nat
        /\ Len(s \o t) = Len(s) + Len(t)
        /\ DOMAIN s = 1..Len(s) /\ DOMAIN t = 1..Len(t) /\ DOMAIN (s \o t) = 1..Len(s) + Len(t)
    OBVIOUS
  <1>2. \A i \in 1..Len(s) : i \in DOMAIN (s \o t) /\ (s \o t)[i] = s[i]
    BY <1>1
  <1>3. \A i \in 1..Len(t) : Len(s) + i \in DOMAIN (s \o t) /\ (s \o t)[Len(s) + i] = t[i]
    BY <1>1
  <1>4. \A i \in DOMAIN (s \o t) : \/ i \in 1..Len(s)
                                   \/ \E j \in 1..Len(t) : i = Len(s) + j
    <2>1. ASSUME NEW i \in DOMAIN (s \o t), i \notin 1..Len(s)
          PROVE  i - Len(s) \in 1..Len(t) /\ i = Len(s) + (i - Len(s))
      BY <1>1, <2>1
    <2> QED
      BY <2>1
  <1>5. ASSUME NEW x \in ToSet(s \o t) PROVE x \in ToSet(s) \union ToSet(t)
    <2>1. PICK i \in DOMAIN (s \o t) : x = (s \o t)[i]
      BY DEF ToSet
    <2>2. CASE i \in 1..Len(s)
      BY <1>1, <1>2, <2>1, <2>2 DEF ToSet
    <2>3. CASE \E j \in 1..Len(t) : i = Len(s) + j
      BY <1>1, <1>3, <2>1, <2>3 DEF ToSet
    <2> QED
      BY <1>4, <2>2, <2>3
  <1>6. ASSUME NEW x \in ToSet(s) PROVE x \in ToSet(s \o t)
    <2>1. PICK i \in 1..Len(s) : x = s[i]
      BY <1>1 DEF ToSet
    <2> QED
      BY <1>2, <2>1 DEF ToSet
  <1>7. ASSUME NEW x \in ToSet(t) PROVE x \in ToSet(s \o t)
    <2>1. PICK i \in 1..Len(t) : x = t[i]
      BY <1>1 DEF ToSet
    <2> QED
      BY <1>3, <2>1 DEF ToSet
  <1> QED
    BY <1>1, <1>2, <1>3, <1>4, <1>5, <1>6, <1>7

LEMMA OrderedTogether ==
    ASSUME NEW X, NEW s \in Seq(X), NEW t \in Seq(X), NEW R,
           Ordered(s, R), Ordered(t, R), Across(s, t, R)
    PROVE  Ordered(s \o t, R)
  <1>1. Len(s) \in Nat /\ Len(t) \in Nat /\ DOMAIN s = 1..Len(s) /\ DOMAIN t = 1..Len(t)
    OBVIOUS
  <1>2. ASSUME NEW p \in DOMAIN (s \o t), NEW q \in DOMAIN (s \o t), p < q
        PROVE  <<(s \o t)[p], (s \o t)[q]>> \in R
    <2>1. CASE p \in 1..Len(s) /\ q \in 1..Len(s)
      BY <1>1, <1>2, <2>1, Concatenation DEF Ordered
    <2>2. CASE p \in 1..Len(s) /\ \E j \in 1..Len(t) : q = Len(s) + j
      BY <1>1, <1>2, <2>2, Concatenation DEF Across
    <2>3. CASE \E k, j \in 1..Len(t) : p = Len(s) + k /\ q = Len(s) + j
      <3>1. PICK k, j \in 1..Len(t) : p = Len(s) + k /\ q = Len(s) + j
        BY <2>3
      <3>2. k < j
        BY <1>1, <1>2, <3>1
      <3>3. (s \o t)[p] = t[k] /\ (s \o t)[q] = t[j]
        BY <3>1, Concatenation
      <3> QED
        BY <1>1, <3>2, <3>3 DEF Ordered
    <2>4. ~(q \in 1..Len(s) /\ \E j \in 1..Len(t) : p = Len(s) + j)
      BY <1>1, <1>2
    <2>5. \A i \in DOMAIN (s \o t) : i \in 1..Len(s) \/ \E j \in 1..Len(t) : i = Len(s) + j
      BY Concatenation
    <2>6. /\ p \in 1..Len(s) \/ \E j \in 1..Len(t) : p = Len(s) + j
          /\ q \in 1..Len(s) \/ \E j \in 1..Len(t) : q = Len(s) + j
      BY <2>5
    <2> QED
      BY <2>1, <2>2, <2>3, <2>4, <2>6
  <1> QED
    BY <1>2 DEF Ordered

\* The sequences of a sequence, in their order, one after the other.
LEMMA Flattening ==
    ASSUME NEW X, NEW seqs \in Seq(Seq(X))
    PROVE  /\ FlattenSeq(seqs) \in Seq(X)
           /\ ToSet(FlattenSeq(seqs)) = UNION {ToSet(seqs[i]) : i \in DOMAIN seqs}
           /\ \A R : (/\ \A i \in DOMAIN seqs : Ordered(seqs[i], R)
                      /\ \A i, j \in DOMAIN seqs : i < j => Across(seqs[i], seqs[j], R))
                     => Ordered(FlattenSeq(seqs), R)
  <1>1. Len(seqs) \in Nat /\ DOMAIN seqs = 1..Len(seqs) /\ \A i \in 1..Len(seqs) : seqs[i] \in Seq(X)
    OBVIOUS
  <1>2. CASE seqs = <<>>
    <2>1. FlattenSeq(seqs) = <<>>
      BY <1>2 DEF FlattenSeq
    <2>2. UNION {ToSet(seqs[i]) : i \in DOMAIN seqs} = {} /\ ToSet(FlattenSeq(seqs)) = {}
      BY <1>2, <2>1 DEF ToSet
    <2>3. \A R : Ordered(FlattenSeq(seqs), R)
      BY <2>1 DEF Ordered
    <2> QED
      BY <2>1, <2>2, <2>3
  <1>3. CASE seqs # <<>>
    <2>1. Len(seqs) \in Nat \ {0}
      BY <1>1, <1>3
    <2>2. PICK f : /\ FlattenSeq(seqs) = f[Len(seqs)]
                   /\ f[1] = seqs[1]
                   /\ \A i \in 2..Len(seqs) : f[i] = f[i - 1] \o seqs[i]
      BY <2>1, FlattenSteps
    <2> DEFINE Good(n) ==
                 /\ f[n] \in Seq(X)
                 /\ ToSet(f[n]) = UNION {ToSet(seqs[i]) : i \in 1..n}
                 /\ \A R : (/\ \A i \in DOMAIN seqs : Ordered(seqs[i], R)
                            /\ \A i, j \in DOMAIN seqs : i < j => Across(seqs[i], seqs[j], R))
                           => Ordered(f[n], R)
               S == {n \in Nat : n + 1 \in 1..Len(seqs) => Good(n + 1)}
    <2>3. Good(1)
      <3>1. ToSet(f[1]) = UNION {ToSet(seqs[i]) : i \in 1..1}
        BY <2>2
      <3> QED
        BY <1>1, <2>1, <2>2, <3>1
    <2>4. ASSUME NEW n \in 1..Len(seqs), n + 1 \in 1..Len(seqs), Good(n)
          PROVE  Good(n + 1)
      <3>1. f[n + 1] = f[n] \o seqs[n + 1] /\ seqs[n + 1] \in Seq(X) /\ f[n] \in Seq(X)
        <4>1. n + 1 \in 2..Len(seqs) /\ (n + 1) - 1 = n
          BY <1>1, <2>4
        <4> QED
          BY <1>1, <2>2, <2>4, <4>1
      <3>2. f[n + 1] \in Seq(X) /\ ToSet(f[n + 1]) = ToSet(f[n]) \union ToSet(seqs[n + 1])
        BY <3>1, Concatenation
      <3>3. UNION {ToSet(seqs[i]) : i \in 1..n + 1} =
              (UNION {ToSet(seqs[i]) : i \in 1..n}) \union ToSet(seqs[n + 1])
        <4>1. 1..n + 1 = (1..n) \union {n + 1}
          BY <1>1
        <4> QED
          BY <4>1
      <3>4. ASSUME NEW R, \A i \in DOMAIN seqs : Ordered(seqs[i], R),
                   \A i, j \in DOMAIN seqs : i < j => Across(seqs[i], seqs[j], R)
            PROVE  Ordered(f[n + 1], R)
        <4>1. Ordered(f[n], R) /\ Ordered(seqs[n + 1], R)
          BY <1>1, <2>4, <3>4
        <4>2. ASSUME NEW p \in DOMAIN f[n], NEW q \in DOMAIN seqs[n + 1]
              PROVE  <<f[n][p], seqs[n + 1][q]>> \in R
          <5>1. PICK i \in 1..n : f[n][p] \in ToSet(seqs[i])
            BY <2>4 DEF ToSet
          <5>2. PICK k \in DOMAIN seqs[i] : f[n][p] = seqs[i][k]
            BY <5>1 DEF ToSet
          <5>3. i \in DOMAIN seqs /\ n + 1 \in DOMAIN seqs /\ i < n + 1
            BY <1>1, <2>4
          <5>4. Across(seqs[i], seqs[n + 1], R)
            BY <3>4, <5>3
          <5> QED
            BY <5>2, <5>4 DEF Across
        <4>3. Across(f[n], seqs[n + 1], R)
          BY <4>2 DEF Across
        <4> QED
          BY <3>1, <4>1, <4>3, OrderedTogether
      <3> QED
        BY <2>4, <3>2, <3>3, <3>4
    <2>5. 0 \in S
      BY <2>3
    <2>6. ASSUME NEW n \in S PROVE n + 1 \in S
      <3> HIDE DEF Good
      <3>1. (n + 1) + 1 \in 1..Len(seqs) => n + 1 \in 1..Len(seqs)
        BY <1>1
      <3>2. (n + 1) + 1 \in 1..Len(seqs) => Good((n + 1) + 1)
        BY <2>4, <3>1
      <3> QED
        BY <3>2
    <2>7. \A n \in Nat : n \in S
      <3> HIDE DEF S
      <3>1. S \in SUBSET Nat
        BY DEF S
      <3> QED
        BY <2>5, <2>6, <3>1, AllNumbers
    <2>8. Good(Len(seqs))
      <3> HIDE DEF Good
      <3>1. \A n \in Nat : n + 1 \in 1..Len(seqs) => Good(n + 1)
        BY <2>7
      <3>2. Len(seqs) - 1 \in Nat /\ (Len(seqs) - 1) + 1 = Len(seqs) /\ Len(seqs) \in 1..Len(seqs)
        BY <2>1
      <3> QED
        BY <3>1, <3>2
    <2> QED
      BY <1>1, <2>2, <2>8
  <1> QED
    BY <1>2, <1>3

\* The function that `Only` chooses.
Chosen(s, keep, n, f) ==
    f = [i \in 0..n |-> IF i = 0 THEN <<>>
                        ELSE IF s[i] \in keep THEN Append(f[i - 1], s[i]) ELSE f[i - 1]]

LEMMA ChosenExists ==
    ASSUME NEW s, NEW keep
    PROVE  \A n \in Nat : \E f : Chosen(s, keep, n, f)
  <1> DEFINE S == {n \in Nat : \E f : Chosen(s, keep, n, f)}
  <1>1. 0 \in S
    <2> DEFINE g == [i \in 0..0 |-> <<>>]
    <2>1. Chosen(s, keep, 0, g)
      BY DEF Chosen
    <2> QED
      BY <2>1
  <1>2. ASSUME NEW n \in S PROVE n + 1 \in S
    <2>1. PICK f : Chosen(s, keep, n, f)
      OBVIOUS
    <2> DEFINE Next(h, i) == IF i = 0 THEN <<>>
                             ELSE IF s[i] \in keep THEN Append(h[i - 1], s[i]) ELSE h[i - 1]
               g == [i \in 0..n + 1 |-> IF i <= n THEN f[i] ELSE Next(f, i)]
    <2>2. ASSUME NEW i \in 0..n + 1 PROVE g[i] = Next(g, i)
      <3>1. i # 0 => i - 1 \in 0..n /\ g[i - 1] = f[i - 1]
        OBVIOUS
      <3>2. CASE i <= n
        <4>0. i \in 0..n
          BY <3>2
        <4>1. f[i] = Next(f, i)
          BY <2>1, <4>0, ZenonT(20) DEF Chosen
        <4> QED
          BY <3>1, <3>2, <4>1
      <3>3. CASE i = n + 1
        <4>1. g[i] = Next(f, i)
          BY <3>3
        <4> QED
          BY <3>1, <4>1
      <3> QED
        BY <3>2, <3>3
    <2>3. g = [i \in 0..n + 1 |-> Next(g, i)]
      BY <2>2
    <2>4. Chosen(s, keep, n + 1, g)
      BY <2>3 DEF Chosen
    <2> QED
      BY <2>4
  <1> HIDE DEF S
  <1>3. \A n \in Nat : n \in S
    BY <1>1, <1>2, AllNumbers DEF S
  <1> QED
    BY <1>3 DEF S

LEMMA OnlySteps ==
    ASSUME NEW s, NEW keep, Len(s) \in Nat
    PROVE  \E f : /\ Only(s, keep) = f[Len(s)]
                  /\ f[0] = <<>>
                  /\ \A i \in 1..Len(s) :
                         f[i] = IF s[i] \in keep THEN Append(f[i - 1], s[i]) ELSE f[i - 1]
  <1> DEFINE f == CHOOSE f : Chosen(s, keep, Len(s), f)
  <1>1. Chosen(s, keep, Len(s), f)
    BY ChosenExists
  <1>2. Only(s, keep) = f[Len(s)]
    BY DEF Only, Chosen
  <1> HIDE DEF f
  <1>3. \A i \in 0..Len(s) :
            f[i] = IF i = 0 THEN <<>>
                   ELSE IF s[i] \in keep THEN Append(f[i - 1], s[i]) ELSE f[i - 1]
    BY <1>1, ZenonT(20) DEF Chosen
  <1>4. f[0] = <<>>
    BY <1>3
  <1>5. ASSUME NEW i \in 1..Len(s)
        PROVE  f[i] = IF s[i] \in keep THEN Append(f[i - 1], s[i]) ELSE f[i - 1]
    BY <1>3
  <1> QED
    BY <1>2, <1>4, <1>5

LEMMA AppendingOne ==
    ASSUME NEW X, NEW s \in Seq(X), NEW x \in X
    PROVE  /\ Append(s, x) \in Seq(X)
           /\ ToSet(Append(s, x)) = ToSet(s) \union {x}
           /\ \A R : Ordered(s, R) /\ (\A e \in ToSet(s) : <<e, x>> \in R)
                         => Ordered(Append(s, x), R)
  <1> DEFINE t == <<x>>
  <1>1. t \in Seq(X) /\ ToSet(t) = {x} /\ DOMAIN t = {1} /\ t[1] = x
    BY DEF ToSet
  <1>2. Append(s, x) = s \o t
    BY AppendIsConcat
  <1> HIDE DEF t
  <1>3. s \o t \in Seq(X) /\ ToSet(s \o t) = ToSet(s) \union ToSet(t)
    BY <1>1, Concatenation
  <1>4. ASSUME NEW R, Ordered(s, R), \A e \in ToSet(s) : <<e, x>> \in R
        PROVE  Ordered(s \o t, R)
    <2>1. Ordered(t, R)
      BY <1>1 DEF Ordered
    <2>2. \A p \in DOMAIN s : s[p] \in ToSet(s)
      BY DEF ToSet
    <2>3. Across(s, t, R)
      BY <1>1, <1>4, <2>2 DEF Across
    <2> QED
      BY <1>1, <1>4, <2>1, <2>3, OrderedTogether
  <1> QED
    BY <1>1, <1>2, <1>3, <1>4

\* What is selected of a sequence is what it has in the set, in the same order.
LEMMA Selecting ==
    ASSUME NEW X, NEW s \in Seq(X), NEW keep
    PROVE  /\ Only(s, keep) \in Seq(X)
           /\ ToSet(Only(s, keep)) = ToSet(s) \intersect keep
           /\ \A R : Ordered(s, R) => Ordered(Only(s, keep), R)
  <1>1. Len(s) \in Nat /\ DOMAIN s = 1..Len(s) /\ \A i \in DOMAIN s : s[i] \in X
    OBVIOUS
  <1>2. PICK f : /\ Only(s, keep) = f[Len(s)]
                 /\ f[0] = <<>>
                 /\ \A i \in 1..Len(s) :
                        f[i] = IF s[i] \in keep THEN Append(f[i - 1], s[i]) ELSE f[i - 1]
    BY <1>1, OnlySteps
  <1> DEFINE Taken(n) == {s[i] : i \in 1..n} \intersect keep
             Fits(n)  == /\ f[n] \in Seq(X)
                         /\ ToSet(f[n]) = Taken(n)
                         /\ \A R : Ordered(s, R) => Ordered(f[n], R)
             S == {n \in Nat : n <= Len(s) => Fits(n)}
  <1>3. Fits(0)
    <2>1. <<>> \in Seq(X) /\ ToSet(<<>>) = {} /\ \A R : Ordered(<<>>, R)
      BY DEF ToSet, Ordered
    <2>2. Taken(0) = {}
      <3>1. 1..0 = {}
        OBVIOUS
      <3> QED
        BY <3>1
    <2> HIDE DEF Taken
    <2> QED
      BY <1>2, <2>1, <2>2
  <1>4. ASSUME NEW n \in Nat, n + 1 <= Len(s), Fits(n) PROVE Fits(n + 1)
    <2> DEFINE x == s[n + 1]
               g == f[n]
    <2>1. n + 1 \in 1..Len(s) /\ (n + 1) - 1 = n /\ x \in X
      BY <1>1, <1>4
    <2>2. f[n + 1] = IF x \in keep THEN Append(g, x) ELSE g
      <3>1. f[n + 1] = IF x \in keep THEN Append(f[(n + 1) - 1], x) ELSE f[(n + 1) - 1]
        BY <1>2, <2>1
      <3> QED
        BY <2>1, <3>1
    <2>3. Taken(n + 1) = Taken(n) \union ({x} \intersect keep)
      <3>1. 1..n + 1 = 1..n \union {n + 1}
        BY <1>4
      <3> QED
        BY <3>1
    <2>4. g \in Seq(X) /\ ToSet(g) = Taken(n) /\ \A R : Ordered(s, R) => Ordered(g, R)
      BY <1>4
    <2>5. ASSUME NEW R, Ordered(s, R), NEW e \in Taken(n) PROVE <<e, x>> \in R
      <3>1. PICK i \in 1..n : e = s[i]
        OBVIOUS
      <3>2. i \in DOMAIN s /\ n + 1 \in DOMAIN s /\ i < n + 1
        BY <1>1, <1>4
      <3> QED
        BY <2>5, <3>1, <3>2 DEF Ordered
    <2> HIDE DEF g, x, Taken
    <2>6. /\ Append(g, x) \in Seq(X)
          /\ ToSet(Append(g, x)) = ToSet(g) \union {x}
          /\ \A R : Ordered(g, R) /\ (\A e \in ToSet(g) : <<e, x>> \in R)
                        => Ordered(Append(g, x), R)
      BY <2>1, <2>4, AppendingOne
    <2>7. CASE x \in keep
      BY <2>2, <2>3, <2>4, <2>5, <2>6, <2>7
    <2>8. CASE x \notin keep
      BY <2>2, <2>3, <2>4, <2>8
    <2> QED
      BY <2>7, <2>8
  <1> HIDE DEF Fits
  <1>5. 0 \in S
    BY <1>3
  <1>6. ASSUME NEW n \in S PROVE n + 1 \in S
    BY <1>1, <1>4
  <1>7. \A n \in Nat : n \in S
    <2>1. S \in SUBSET Nat
      OBVIOUS
    <2> HIDE DEF S
    <2> QED
      BY <1>5, <1>6, <2>1, AllNumbers
  <1>8. Fits(Len(s))
    BY <1>1, <1>7
  <1>9. Taken(Len(s)) = ToSet(s) \intersect keep
    BY <1>1 DEF ToSet
  <1> QED
    BY <1>2, <1>8, <1>9 DEF Fits

-------------------------------------------------------------------------------
(* Parts of a sequence. *)

LEMMA Slice ==
    ASSUME NEW X, NEW s \in Seq(X), NEW m \in Nat \ {0}, NEW n \in 0..Len(s)
    PROVE  /\ SubSeq(s, m, n) \in Seq(X)
           /\ Len(SubSeq(s, m, n)) = IF m <= n THEN n - m + 1 ELSE 0
           /\ \A i \in 1..n - m + 1 : SubSeq(s, m, n)[i] = s[m + i - 1]
           /\ ToSet(SubSeq(s, m, n)) = {s[i] : i \in m..n}
  <1> DEFINE t == SubSeq(s, m, n)
  <1>1. Len(s) \in Nat /\ \A i \in m..n : s[i] \in X
    OBVIOUS
  <1>2. /\ t \in Seq(X)
        /\ Len(t) = IF m <= n THEN n - m + 1 ELSE 0
        /\ \A i \in 1..n - m + 1 : t[i] = s[m + i - 1]
    BY <1>1, SubSeqProperties
  <1> HIDE DEF t
  <1>3. DOMAIN t = 1..n - m + 1
    BY <1>2
  <1>4. ASSUME NEW e \in ToSet(t) PROVE e \in {s[i] : i \in m..n}
    <2>1. PICK i \in 1..n - m + 1 : e = t[i]
      BY <1>3 DEF ToSet
    <2>2. m + i - 1 \in m..n /\ e = s[m + i - 1]
      BY <1>2, <2>1
    <2> QED
      BY <2>2
  <1>5. ASSUME NEW i \in m..n PROVE s[i] \in ToSet(t)
    <2>1. i - m + 1 \in 1..n - m + 1 /\ m + (i - m + 1) - 1 = i
      OBVIOUS
    <2>2. t[i - m + 1] = s[i]
      BY <1>2, <2>1
    <2> QED
      BY <1>3, <2>1, <2>2 DEF ToSet
  <1>6. ToSet(t) = {s[i] : i \in m..n}
    BY <1>4, <1>5
  <1> QED
    BY <1>2, <1>6 DEF t

\* Without one of its elements, a sequence holds what it held.
LEMMA Removing ==
    ASSUME NEW X, NEW s \in Seq(X), NEW i \in 1..Len(s)
    PROVE  /\ RemoveAt(s, i) \in Seq(X)
           /\ ToSet(RemoveAt(s, i)) \subseteq ToSet(s)
           /\ ToSet(s) \subseteq ToSet(RemoveAt(s, i)) \union {s[i]}
  <1> DEFINE front == SubSeq(s, 1, i - 1)
             rest  == SubSeq(s, i + 1, Len(s))
  <1>1. /\ i - 1 \in 0..Len(s) /\ i + 1 \in Nat \ {0} /\ Len(s) \in 0..Len(s)
        /\ DOMAIN s = 1..Len(s)
    OBVIOUS
  <1>2. front \in Seq(X) /\ ToSet(front) = {s[j] : j \in 1..i - 1}
    BY <1>1, Slice
  <1>3. rest \in Seq(X) /\ ToSet(rest) = {s[j] : j \in i + 1..Len(s)}
    BY <1>1, Slice
  <1>4. RemoveAt(s, i) = front \o rest
    BY DEF RemoveAt
  <1> HIDE DEF front, rest
  <1>5. front \o rest \in Seq(X) /\ ToSet(front \o rest) = ToSet(front) \union ToSet(rest)
    BY <1>2, <1>3, Concatenation
  <1>6. 1..Len(s) = (1..i - 1) \union {i} \union (i + 1..Len(s))
    BY <1>1
  <1>7. ToSet(s) = {s[j] : j \in 1..i - 1} \union {s[i]} \union {s[j] : j \in i + 1..Len(s)}
    BY <1>1, <1>6 DEF ToSet
  <1> QED
    BY <1>2, <1>3, <1>4, <1>5, <1>7

\* The first element of a sequence, and the others.
LEMMA Tailing ==
    ASSUME NEW X, NEW s \in Seq(X), s # <<>>
    PROVE  /\ Tail(s) \in Seq(X) /\ Head(s) \in ToSet(s)
           /\ ToSet(Tail(s)) \subseteq ToSet(s)
           /\ ToSet(s) \subseteq ToSet(Tail(s)) \union {Head(s)}
  <1>1. /\ Len(s) \in Nat \ {0} /\ DOMAIN s = 1..Len(s) /\ Head(s) = s[1]
        /\ Tail(s) \in Seq(X) /\ DOMAIN Tail(s) = 1..Len(s) - 1
        /\ \A i \in 1..Len(s) - 1 : Tail(s)[i] = s[i + 1]
    BY HeadTailProperties
  <1>2. Head(s) \in ToSet(s)
    BY <1>1 DEF ToSet
  <1>3. ASSUME NEW e \in ToSet(Tail(s)) PROVE e \in ToSet(s)
    <2>1. PICK i \in 1..Len(s) - 1 : e = Tail(s)[i]
      BY <1>1 DEF ToSet
    <2>2. i + 1 \in 1..Len(s) /\ e = s[i + 1]
      BY <1>1, <2>1
    <2> QED
      BY <1>1, <2>2 DEF ToSet
  <1>4. ASSUME NEW e \in ToSet(s), e # Head(s) PROVE e \in ToSet(Tail(s))
    <2>1. PICK i \in 1..Len(s) : e = s[i]
      BY <1>1 DEF ToSet
    <2>2. i # 1
      BY <1>1, <1>4, <2>1
    <2>3. i - 1 \in 1..Len(s) - 1 /\ (i - 1) + 1 = i
      BY <1>1, <2>2
    <2>4. e = Tail(s)[i - 1]
      BY <1>1, <2>1, <2>3
    <2> QED
      BY <1>1, <2>3, <2>4 DEF ToSet
  <1> QED
    BY <1>1, <1>2, <1>3, <1>4
===============================================================================
