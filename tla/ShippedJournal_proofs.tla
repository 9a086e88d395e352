-------------------------- MODULE ShippedJournal_proofs --------------------------
(***************************************************************************)
(* For any number of transactions and targets, kills, crashes of the host   *)
(* and failed writes: the checkpoint beside the journal is found whole, the *)
(* journal gives a target back what it promised it and nothing that only    *)
(* another target shipped, and it forgets for a durable checkpoint only.    *)
(*                                                                         *)
(* The invariant ties the promises to whole lines below their header, and   *)
(* every line below a header to a target that answers for it.               *)
(***************************************************************************)
EXTENDS ShippedJournal, SequenceLemmas

\* A crash of the host tears what was written and not synced.  No file is ever in that
\* state under one of the names it can be found by: neither the temporary one, which
\* the next save renames, nor one that the path named before the last sync.
Durable(f) == f.content \in {"synced", "short"}

NothingToTear == \A f \in {temporary, named} \union older : Durable(f)

LEMMA Base == Init => NothingToTear
  BY DEF Init, CheckpointInit, NoFile, Durable, NothingToTear

\* What a crash of the host makes of such a file is the file.
LEMMA CrashKeeps ==
    ASSUME NEW f, Durable(f), NEW left \in AfterHostCrash(f)
    PROVE  Durable(left)
<1>1. left = [f EXCEPT !.content = f.content]
  BY DEF AfterHostCrash, Durable
<1>2. CASE "content" \in DOMAIN f
  BY <1>1, <1>2 DEF Durable
<1>3. CASE "content" \notin DOMAIN f
  BY <1>1, <1>3 DEF Durable
<1> QED
  BY <1>2, <1>3

LEMMA Induction == NothingToTear /\ [Next]_vars => NothingToTear'
<1> SUFFICES ASSUME NothingToTear, [Next]_vars PROVE NothingToTear'
  OBVIOUS
<1>1. CASE UNCHANGED checkpoint
  BY <1>1 DEF checkpoint, NothingToTear
<1>2. CASE Discard
  BY <1>2 DEF Discard, checkpoint, NoFile, Durable, NothingToTear
<1>3. CASE LoadFails
  BY <1>3 DEF LoadFails, MoveAside, Rename, checkpoint, NoFile, Durable, NothingToTear
<1>4. CASE BeginSave
  BY <1>4 DEF BeginSave, WriteTemporary, AfterSync, Durable, NothingToTear
<1>5. CASE InstallSave
  BY <1>5 DEF InstallSave, InstallTemporary, Rename, NoFile, Durable, NothingToTear
<1>6. CASE SaveFails \/ Crash \/ \E t \in Transaction : CrashRecording(t)
  BY <1>6 DEF SaveFails, Crash, CrashRecording, Kept, NoFile, Durable, NothingToTear
<1>7. CASE CompactFails \/ \E slot \in {0} \union {SlotOf[t] : t \in Transaction} : Compact(slot)
  BY <1>7 DEF CompactFails, Compact, SyncDirectory, DirectorySynced, NothingToTear
<1>8. CASE HostCrash
  <2>1. PICK f \in older \union {named} : named' \in AfterHostCrash(f)
    BY <1>8 DEF HostCrash, LostUnlessSynced
  <2>2. Durable(named')
    BY <2>1, CrashKeeps DEF NothingToTear
  <2> QED
    BY <1>8, <2>2 DEF HostCrash, LostUnlessSynced, NoFile, Durable, NothingToTear
<1> QED
  BY <1>1, <1>2, <1>3, <1>4, <1>5, <1>6, <1>7, <1>8
  DEF Next, vars, Record, RecordFails, Restore, RestoreUnreadable

\* Wherever the process is killed and the host crashes, in a save or between two, the
\* checkpoint that is found is whole, or one whose write failed unreported
\* (checkpoint.rs, `write`; README.md:240, "an atomic checkpoint").
THEOREM FoundWhole == Spec => []CheckpointIsFoundWhole
<1>1. NothingToTear => CheckpointIsFoundWhole
  BY DEF NothingToTear, Durable, CheckpointIsFoundWhole
<1> QED
  BY <1>1, Base, Induction, PTL DEF Spec

-------------------------------------------------------------------------------
(* Lines. *)

LEMMA Kinds ==
    /\ \A g \in Target \union {Nobody} : Header(g) \in Line /\ Header(g).kind = "header" /\ Header(g).target = g
    /\ \A t \in Transaction, slot \in Nat :
         Entry(t, slot) \in Line /\ Entry(t, slot).kind = "entry" /\ Entry(t, slot).tx = t /\ Entry(t, slot).slot = slot
    /\ Junk \in Line /\ Junk.kind = "junk"
    /\ \A l \in Line : /\ l.kind \in {"header", "entry", "junk"}
                       /\ l.kind = "header" => l = Header(l.target) /\ l.target \in Target \union {Nobody}
                       /\ l.kind = "entry" => l = Entry(l.tx, l.slot) /\ l.tx \in Transaction /\ l.slot \in Nat
  BY DEF Line, Header, Entry, Junk

LEMMA Continuing ==
    ASSUME NEW line \in Line
    PROVE  /\ Continued(line) \in Line /\ Continued(line).kind # "entry"
           /\ HeaderOf(<<Continued(line)>>) = Nobody
  BY Kinds DEF Continued, HeaderOf

\* What a line, or a first part of one, makes of a file.
LEMMA Writing ==
    ASSUME NEW ls \in Seq(Line), NEW isCut \in BOOLEAN, isCut => ls # <<>>, NEW line \in Line
    PROVE  LET new == Write(ls, isCut, line)
           IN  /\ new \in Seq(Line) /\ new # <<>>
               /\ \A l \in EntriesIn(ls) : l \in EntriesIn(new) \/ (isCut /\ l = Last(ls))
               /\ \A l \in EntriesIn(new) : l \in EntriesIn(ls) \/ (l = line /\ line.kind = "entry")
               /\ ~isCut /\ line.kind = "entry" => line \in EntriesIn(new)
               /\ \/ HeaderOf(new) \in {HeaderOf(ls), Nobody}
                  \/ ls = <<>> /\ HeaderOf(new) = HeaderOf(<<line>>)
               /\ HeaderOf(ls) # Nobody /\ EntriesIn(ls) # {} => HeaderOf(new) = HeaderOf(ls)
  <1> DEFINE new == Write(ls, isCut, line)
             n == Len(ls)
  <1>0. n \in Nat /\ DOMAIN ls = 1..n /\ \A i \in 1..n : ls[i] \in Line
    OBVIOUS
  <1>1. CASE ~isCut
    <2>1. new = Append(ls, line)
      BY <1>1 DEF Write
    <2>2. /\ new \in Seq(Line) /\ Len(new) = n + 1 /\ DOMAIN new = 1..n + 1
          /\ \A i \in 1..n : new[i] = ls[i]
          /\ new[n + 1] = line
      BY <1>0, <2>1
    <2>3. ToSet(new) = ToSet(ls) \union {line}
      BY <1>0, <2>2 DEF ToSet
    <2>4. IF ls = <<>> THEN new[1] = line ELSE new[1] = ls[1]
      BY <1>0, <2>2
    <2>5. new # <<>> /\ (ls = <<>> => HeaderOf(new) = HeaderOf(<<line>>)) /\ (ls # <<>> => HeaderOf(new) = HeaderOf(ls))
      BY <1>0, <2>2, <2>4 DEF HeaderOf
    <2>6. ls = <<>> => EntriesIn(ls) = {}
      BY DEF EntriesIn, ToSet
    <2> HIDE DEF new
    <2>7. /\ \A l \in EntriesIn(ls) : l \in EntriesIn(new)
          /\ \A l \in EntriesIn(new) : l \in EntriesIn(ls) \/ (l = line /\ line.kind = "entry")
          /\ line.kind = "entry" => line \in EntriesIn(new)
      BY <2>3 DEF EntriesIn
    <2> QED
      BY <2>2, <2>5, <2>6, <2>7 DEF new
  <1>2. CASE isCut
    <2> DEFINE last == Continued(ls[n])
    <2>1. new = [ls EXCEPT ![n] = last]
      BY <1>2 DEF Write
    <2>2. n \in Nat \ {0} /\ n \in 1..n /\ 1 \in 1..n /\ ls # <<>> /\ ls[n] \in Line
      BY <1>0, <1>2
    <2>3. last \in Line /\ last.kind # "entry" /\ HeaderOf(<<last>>) = Nobody
      BY <2>2, Continuing
    <2> HIDE DEF new, last
    <2>4. /\ new \in Seq(Line) /\ Len(new) = n /\ DOMAIN new = 1..n
          /\ \A i \in 1..n : i # n => new[i] = ls[i]
          /\ new[n] = last
      <3>1. /\ new \in Seq(Line) /\ Len(new) = n
            /\ \A i \in 1..n : new[i] = IF i = n THEN last ELSE ls[i]
        BY <2>1, <2>2, <2>3, ExceptSeq
      <3>2. DOMAIN new = 1..n
        BY <3>1
      <3> QED
        BY <2>2, <3>1, <3>2
    <2>5. ASSUME NEW l \in ToSet(ls) PROVE l \in ToSet(new) \/ l = Last(ls)
      BY <1>0, <2>4 DEF ToSet, Last
    <2>6. ASSUME NEW l \in ToSet(new) PROVE l \in ToSet(ls) \/ l = last
      BY <1>0, <2>4 DEF ToSet
    <2>7. new # <<>>
      BY <1>0, <2>2, <2>4
    <2>8. /\ \A l \in EntriesIn(ls) : l \in EntriesIn(new) \/ l = Last(ls)
          /\ \A l \in EntriesIn(new) : l \in EntriesIn(ls)
      BY <2>3, <2>5, <2>6 DEF EntriesIn
    <2>9. /\ HeaderOf(new) \in {HeaderOf(ls), Nobody}
          /\ HeaderOf(ls) # Nobody /\ EntriesIn(ls) # {} => HeaderOf(new) = HeaderOf(ls)
      <3>1. n = 1 => HeaderOf(new) = Nobody /\ (HeaderOf(ls) # Nobody => EntriesIn(ls) = {})
        <4> SUFFICES ASSUME n = 1
                     PROVE  HeaderOf(new) = Nobody /\ (HeaderOf(ls) # Nobody => EntriesIn(ls) = {})
          OBVIOUS
        <4>1. HeaderOf(new) = HeaderOf(<<last>>)
          BY <2>4, <2>7 DEF HeaderOf
        <4>2. HeaderOf(ls) # Nobody => EntriesIn(ls) = {}
          BY <1>0 DEF HeaderOf, EntriesIn, ToSet
        <4> QED
          BY <2>3, <4>1, <4>2
      <3>2. n # 1 => HeaderOf(new) = HeaderOf(ls)
        <4>1. n # 1 => 1 \in 1..n /\ new[1] = ls[1]
          BY <1>0, <2>2, <2>4
        <4> QED
          BY <2>2, <2>7, <4>1 DEF HeaderOf
      <3> QED
        BY <3>1, <3>2
    <2> QED
      BY <1>2, <2>2, <2>4, <2>7, <2>8, <2>9 DEF new
  <1> QED
    BY <1>1, <1>2

-------------------------------------------------------------------------------
(* An append, whole or interrupted. *)

\* The file keeps its entries, but for one that was not ended, and takes none but the
\* transaction's; its header stays or is lost, or is the one it is stamped with.
Extends(f, t) ==
    /\ f.lines \in Seq(Line) /\ f.cut \in BOOLEAN /\ (f.cut => f.lines # <<>>)
    /\ \A l \in EntriesIn(lines) : l \in EntriesIn(f.lines) \/ l.tx \in Unended
    /\ \A l \in EntriesIn(f.lines) : l \in EntriesIn(lines) \/ l.tx = t
    /\ \/ HeaderOf(f.lines) \in {HeaderOf(lines), Nobody}
       \/ lines = <<>> /\ HeaderOf(f.lines) = identity
    /\ HeaderOf(lines) # Nobody /\ EntriesIn(lines) # {} => HeaderOf(f.lines) = HeaderOf(lines)

LEMMA FragmentKinds ==
    ASSUME NEW line \in Line, NEW fragment \in Fragments(line)
    PROVE  /\ fragment \in Line
           /\ line.kind = "header" => HeaderOf(<<fragment>>) \in {HeaderOf(<<line>>), Nobody}
           /\ line.kind # "entry" => fragment.kind # "entry"
           /\ line.kind = "entry" => /\ fragment.kind # "header"
                                     /\ fragment.kind = "entry" => fragment.tx = line.tx
  <1>1. CASE line.kind = "header"
    <2>1. fragment \in {Junk, Header(Nobody), line}
      BY <1>1 DEF Fragments
    <2> QED
      BY <1>1, <2>1, Kinds DEF HeaderOf
  <1>2. CASE line.kind = "entry"
    <2>1. fragment \in {Junk, Entry(line.tx, 0), line}
      BY <1>2 DEF Fragments
    <2> QED
      BY <1>2, <2>1, Kinds
  <1>3. CASE line.kind = "junk"
    <2>1. fragment = Junk
      BY <1>3 DEF Fragments
    <2> QED
      BY <1>3, <2>1, Kinds
  <1> QED
    BY <1>1, <1>2, <1>3, Kinds

LEMMA EmptyFile == EntriesIn(<<>>) = {} /\ HeaderOf(<<>>) = Nobody /\ <<>> \in Seq(Line)
  BY DEF EntriesIn, ToSet, HeaderOf

LEMMA FirstLine ==
    ASSUME NEW line \in Line, line.kind # "entry"
    PROVE  /\ Write(<<>>, FALSE, line) \in Seq(Line) /\ Write(<<>>, FALSE, line) # <<>>
           /\ EntriesIn(Write(<<>>, FALSE, line)) = {}
           /\ HeaderOf(Write(<<>>, FALSE, line)) = HeaderOf(<<line>>)
  <1>1. Write(<<>>, FALSE, line) = <<line>>
    BY DEF Write
  <1>2. <<line>> \in Seq(Line) /\ <<line>> # <<>>
    OBVIOUS
  <1>3. ToSet(<<line>>) = {line}
    BY DEF ToSet
  <1> QED
    BY <1>1, <1>2, <1>3 DEF EntriesIn

LEMMA NextLine ==
    ASSUME NEW ls \in Seq(Line), NEW line \in Line
    PROVE  LET new == Write(ls, FALSE, line)
           IN  /\ new \in Seq(Line) /\ new # <<>>
               /\ \A l \in EntriesIn(new) : l \in EntriesIn(ls) \/ (l = line /\ line.kind = "entry")
               /\ \/ HeaderOf(new) \in {HeaderOf(ls), Nobody}
                  \/ ls = <<>> /\ HeaderOf(new) = HeaderOf(<<line>>)
  BY Writing

LEMMA FirstPart ==
    ASSUME NEW f, NEW line, NEW left \in CutOff(f, line)
    PROVE  \E fragment \in Fragments(line) :
             left.lines = Write(f.lines, f.cut, fragment) /\ left.cut = TRUE
  <1>1. PICK fragment \in Fragments(line) :
          left = [lines |-> Write(f.lines, f.cut, fragment), cut |-> TRUE]
    BY DEF CutOff
  <1> QED
    BY <1>1

\* The header alone, or a first part of it.
LEMMA Stamping ==
    ASSUME TypeOK, Stamps
    PROVE  /\ lines = <<>> /\ cut = FALSE /\ identity \in Target
           /\ Stamped.lines \in Seq(Line) /\ Stamped.lines # <<>> /\ Stamped.cut = FALSE
           /\ EntriesIn(Stamped.lines) = {} /\ HeaderOf(Stamped.lines) = identity
           /\ \A f \in CutOff(Journal, Header(identity)) :
                /\ f.lines \in Seq(Line) /\ f.lines # <<>> /\ f.cut = TRUE
                /\ EntriesIn(f.lines) = {} /\ HeaderOf(f.lines) \in {identity, Nobody}
  <1>1. lines = <<>> /\ cut = FALSE /\ identity \in Target /\ Header(identity) \in Line
    BY Kinds DEF TypeOK, Stamps
  <1>2. \A line : Write(lines, cut, line) = Write(<<>>, FALSE, line)
    BY <1>1
  <1>3. HeaderOf(<<Header(identity)>>) = identity
    BY DEF HeaderOf, Header
  <1>4. Stamped.lines = Write(<<>>, FALSE, Header(identity)) /\ Stamped.cut = FALSE
    BY <1>2 DEF Stamped, Put, Journal
  <1>5. /\ Stamped.lines \in Seq(Line) /\ Stamped.lines # <<>>
        /\ EntriesIn(Stamped.lines) = {} /\ HeaderOf(Stamped.lines) = identity
    <2>1. Header(identity).kind # "entry"
      BY DEF Header
    <2> QED
      BY <1>1, <1>3, <1>4, <2>1, FirstLine
  <1>6. ASSUME NEW f \in CutOff(Journal, Header(identity))
        PROVE  /\ f.lines \in Seq(Line) /\ f.lines # <<>> /\ f.cut = TRUE
               /\ EntriesIn(f.lines) = {} /\ HeaderOf(f.lines) \in {identity, Nobody}
    <2>1. PICK fragment \in Fragments(Header(identity)) : f.lines = Write(<<>>, FALSE, fragment) /\ f.cut = TRUE
      <3>1. \A line : Write(Journal.lines, Journal.cut, line) = Write(<<>>, FALSE, line)
        BY <1>2 DEF Journal
      <3> QED
        BY <3>1, FirstPart
    <2>2. /\ fragment \in Line /\ fragment.kind # "entry"
          /\ HeaderOf(<<fragment>>) \in {identity, Nobody}
      BY <1>1, <1>3, Kinds, FragmentKinds
    <2> QED
      BY <1>1, <2>1, <2>2, FirstLine
  <1> QED
    BY <1>1, <1>4, <1>5, <1>6

\* Whatever an append leaves of the file when it succeeds, fails or is killed.
LEMMA Appending ==
    ASSUME TypeOK, NEW t \in Transaction, NEW f \in Interrupted(t) \union {Appended(t)}
    PROVE  Extends(f, t)
  <1> DEFINE entry == Entry(t, SlotOf[t])
  <1>1. entry \in Line /\ entry.kind = "entry" /\ entry.tx = t /\ SlotOf[t] \in Nat
    BY JournalAssumption, Kinds
  <1>2. lines \in Seq(Line) /\ cut \in BOOLEAN /\ (cut => lines # <<>>)
    BY DEF TypeOK
  <1>3. /\ f \in {Journal, Stamped, Appended(t)} \union CutOff(Stamped, entry)
           \/ (Stamps /\ f \in CutOff(Journal, Header(identity)))
    BY DEF Interrupted
  <1>4. f = Appended(t) => /\ f.lines = Write(Stamped.lines, Stamped.cut, entry) /\ f.cut = FALSE
    BY DEF Appended, Put
  <1>5. f \in CutOff(Stamped, entry) =>
          \E fragment \in Fragments(entry) :
            f.lines = Write(Stamped.lines, Stamped.cut, fragment) /\ f.cut = TRUE
    BY FirstPart
  <1> HIDE DEF entry
  <1>6. ASSUME f \in CutOff(Stamped, entry) \/ f = Appended(t)
        PROVE  \E line \in Line : /\ f.lines = Write(Stamped.lines, Stamped.cut, line) /\ f.cut \in BOOLEAN
                                  /\ line.kind = "entry" => line.tx = t
                                  /\ line.kind # "header"
    <2>1. CASE f = Appended(t)
      BY <1>1, <1>4, <2>1
    <2>2. CASE f \in CutOff(Stamped, entry)
      <3>1. PICK fragment \in Fragments(entry) :
              f.lines = Write(Stamped.lines, Stamped.cut, fragment) /\ f.cut = TRUE
        BY <1>5, <2>2
      <3>2. /\ fragment \in Line /\ fragment.kind # "header"
            /\ fragment.kind = "entry" => fragment.tx = t
        BY <1>1, FragmentKinds
      <3> QED
        BY <3>1, <3>2
    <2> QED
      BY <1>6, <2>1, <2>2
  <1>7. CASE Stamps
    <2>1. /\ lines = <<>> /\ cut = FALSE /\ identity \in Target
          /\ Stamped.lines \in Seq(Line) /\ Stamped.lines # <<>> /\ Stamped.cut = FALSE
          /\ EntriesIn(Stamped.lines) = {} /\ HeaderOf(Stamped.lines) = identity
          /\ EntriesIn(lines) = {} /\ HeaderOf(lines) = Nobody
      BY <1>7, Stamping, EmptyFile
    <2>2. CASE f \in {Journal, Stamped}
      <3>1. f = Journal => f.lines = lines /\ f.cut = cut
        BY DEF Journal
      <3> QED
        BY <1>2, <2>1, <2>2, <3>1 DEF Extends
    <2>3. CASE f \in CutOff(Journal, Header(identity))
      <3>1. /\ f.lines \in Seq(Line) /\ f.lines # <<>> /\ f.cut = TRUE
            /\ EntriesIn(f.lines) = {} /\ HeaderOf(f.lines) \in {identity, Nobody}
        BY <1>7, <2>3, Stamping
      <3> QED
        BY <2>1, <3>1 DEF Extends
    <2>4. CASE f \in CutOff(Stamped, entry) \/ f = Appended(t)
      <3>1. PICK line \in Line : /\ f.lines = Write(Stamped.lines, Stamped.cut, line) /\ f.cut \in BOOLEAN
                                 /\ line.kind = "entry" => line.tx = t
                                 /\ line.kind # "header"
        BY <1>6, <2>4
      <3>2. /\ f.lines \in Seq(Line) /\ f.lines # <<>>
            /\ \A l \in EntriesIn(f.lines) : l \in EntriesIn(Stamped.lines) \/ (l = line /\ line.kind = "entry")
            /\ HeaderOf(f.lines) \in {identity, Nobody}
        <4>1. f.lines = Write(Stamped.lines, FALSE, line)
          BY <2>1, <3>1
        <4>2. Stamped.lines \in Seq(Line) /\ Stamped.lines # <<>> /\ line \in Line
          BY <2>1, <3>1
        <4> DEFINE ls == Stamped.lines
                   new == Write(ls, FALSE, line)
        <4> HIDE DEF ls, new
        <4>3. /\ new \in Seq(Line) /\ new # <<>>
              /\ \A l \in EntriesIn(new) : l \in EntriesIn(ls) \/ (l = line /\ line.kind = "entry")
              /\ HeaderOf(new) \in {HeaderOf(ls), Nobody}
          BY <4>2, NextLine DEF ls, new
        <4>4. f.lines = new
          BY <4>1 DEF ls, new
        <4>5. HeaderOf(ls) = identity
          BY <2>1 DEF ls
        <4> QED
          BY <4>3, <4>4, <4>5 DEF ls
      <3> QED
        BY <2>1, <3>1, <3>2 DEF Extends
    <2> QED
      BY <1>3, <2>2, <2>3, <2>4
  <1>8. CASE ~Stamps
    <2>1. Stamped = Journal
      BY <1>8 DEF Stamped
    <2>2. Journal.lines = lines /\ Journal.cut = cut
      BY DEF Journal
    <2>3. CASE f = Journal
      BY <1>2, <2>2, <2>3 DEF Extends
    <2>4. CASE f \in CutOff(Stamped, entry) \/ f = Appended(t)
      <3>1. PICK line \in Line : /\ f.lines = Write(lines, cut, line) /\ f.cut \in BOOLEAN
                                 /\ line.kind = "entry" => line.tx = t
                                 /\ line.kind # "header"
        BY <1>6, <2>1, <2>2, <2>4
      <3>2. /\ f.lines \in Seq(Line) /\ f.lines # <<>>
            /\ \A l \in EntriesIn(lines) : l \in EntriesIn(f.lines) \/ (cut /\ l = Last(lines))
            /\ \A l \in EntriesIn(f.lines) : l \in EntriesIn(lines) \/ (l = line /\ line.kind = "entry")
            /\ \/ HeaderOf(f.lines) \in {HeaderOf(lines), Nobody}
               \/ lines = <<>> /\ HeaderOf(f.lines) = HeaderOf(<<line>>)
            /\ HeaderOf(lines) # Nobody /\ EntriesIn(lines) # {} => HeaderOf(f.lines) = HeaderOf(lines)
        BY <1>2, <3>1, Writing
      <3>3. HeaderOf(<<line>>) = Nobody
        BY <3>1 DEF HeaderOf
      <3>4. ASSUME NEW l \in EntriesIn(lines), cut, l = Last(lines) PROVE l.tx \in Unended
        BY <3>4 DEF Unended, TransactionsIn, EntriesIn, ToSet
      <3> QED
        BY <3>1, <3>2, <3>3, <3>4 DEF Extends
    <2> QED
      BY <1>3, <1>8, <2>1, <2>3, <2>4
  <1> QED
    BY <1>7, <1>8

LEMMA AppendedWhole ==
    ASSUME TypeOK, NEW t \in Transaction, cut = FALSE
    PROVE  Entry(t, SlotOf[t]) \in EntriesIn(Appended(t).lines)
  <1> DEFINE entry == Entry(t, SlotOf[t])
             ls == Stamped.lines
  <1>1. entry \in Line /\ entry.kind = "entry"
    BY JournalAssumption, Kinds
  <1>2. ls \in Seq(Line) /\ Stamped.cut = FALSE
    <2>1. CASE Stamps
      BY <2>1, Stamping
    <2>2. CASE ~Stamps
      BY <2>2 DEF Stamped, Journal, TypeOK
    <2> QED
      BY <2>1, <2>2
  <1>3. Appended(t).lines = Append(ls, entry)
    BY <1>2 DEF Appended, Put, Write
  <1> HIDE DEF entry, ls
  <1>4. /\ Len(ls) + 1 \in DOMAIN Append(ls, entry)
        /\ Append(ls, entry)[Len(ls) + 1] = entry
    BY <1>1, <1>2
  <1> QED
    BY <1>1, <1>3, <1>4 DEF EntriesIn, ToSet, entry

-------------------------------------------------------------------------------
(* What a crash of the host leaves of the file, and what a compaction makes of it. *)

LEMMA Surviving ==
    ASSUME TypeOK, NEW f \in Remains(Journal)
    PROVE  /\ f.lines \in Seq(Line) /\ f.cut \in BOOLEAN /\ (f.cut => f.lines # <<>>)
           /\ TransactionsIn(f.lines) \subseteq TransactionsIn(lines)
           /\ HeaderOf(f.lines) \in {HeaderOf(lines), Nobody}
  <1>1. lines \in Seq(Line) /\ cut \in BOOLEAN /\ (cut => lines # <<>>)
    BY DEF TypeOK
  <1>2. Journal.lines = lines /\ Journal.cut = cut
    BY DEF Journal
  <1>3. \/ f = Journal
        \/ \E n \in DOMAIN lines : f = [lines |-> SubSeq(lines, 1, n - 1), cut |-> FALSE]
        \/ \E n \in DOMAIN lines : \E fragment \in Fragments(lines[n]) :
             f = [lines |-> Append(SubSeq(lines, 1, n - 1), fragment), cut |-> TRUE]
    BY <1>2 DEF Remains
  <1>4. ASSUME NEW n \in DOMAIN lines
        PROVE  LET kept == SubSeq(lines, 1, n - 1)
               IN  /\ kept \in Seq(Line) /\ Len(kept) = n - 1
                   /\ \A i \in 1..n - 1 : kept[i] = lines[i]
                   /\ ToSet(kept) \subseteq ToSet(lines)
                   /\ HeaderOf(kept) \in {HeaderOf(lines), Nobody}
    <2> DEFINE kept == SubSeq(lines, 1, n - 1)
    <2>1. DOMAIN lines = 1..Len(lines) /\ Len(lines) \in Nat /\ n \in 1..Len(lines)
      BY <1>1
    <2>2. \A i \in 1..n - 1 : i \in DOMAIN lines /\ lines[i] \in Line
      BY <1>1, <2>1
    <2>3. /\ kept \in Seq(Line) /\ Len(kept) = IF 1 <= n - 1 THEN (n - 1) - 1 + 1 ELSE 0
          /\ \A i \in 1..(n - 1) - 1 + 1 : kept[i] = lines[1 + i - 1]
      BY <2>1, <2>2, SubSeqProperties
    <2>4. Len(kept) = n - 1 /\ DOMAIN kept = 1..n - 1 /\ \A i \in 1..n - 1 : kept[i] = lines[i]
      BY <2>1, <2>3
    <2> HIDE DEF kept
    <2>5. ToSet(kept) \subseteq ToSet(lines)
      BY <2>2, <2>4 DEF ToSet
    <2>6. HeaderOf(kept) \in {HeaderOf(lines), Nobody}
      <3>1. CASE kept = <<>>
        BY <3>1 DEF HeaderOf
      <3>2. CASE kept # <<>>
        <4>1. 1 \in 1..n - 1 /\ lines # <<>> /\ kept[1] = lines[1]
          BY <2>1, <2>3, <2>4, <3>2
        <4> QED
          BY <3>2, <4>1 DEF HeaderOf
      <3> QED
        BY <3>1, <3>2
    <2> QED
      BY <2>3, <2>4, <2>5, <2>6 DEF kept
  <1>5. CASE f = Journal
    BY <1>1, <1>2, <1>5
  <1>6. CASE \E n \in DOMAIN lines : f = [lines |-> SubSeq(lines, 1, n - 1), cut |-> FALSE]
    <2>1. PICK n \in DOMAIN lines : f = [lines |-> SubSeq(lines, 1, n - 1), cut |-> FALSE]
      BY <1>6
    <2>2. f.lines = SubSeq(lines, 1, n - 1) /\ f.cut = FALSE
      BY <2>1
    <2> QED
      BY <1>4, <2>2 DEF TransactionsIn, EntriesIn
  <1>7. CASE \E n \in DOMAIN lines : \E fragment \in Fragments(lines[n]) :
               f = [lines |-> Append(SubSeq(lines, 1, n - 1), fragment), cut |-> TRUE]
    <2>1. PICK n \in DOMAIN lines : \E fragment \in Fragments(lines[n]) :
               f = [lines |-> Append(SubSeq(lines, 1, n - 1), fragment), cut |-> TRUE]
      BY <1>7
    <2>2. PICK fragment \in Fragments(lines[n]) :
               f = [lines |-> Append(SubSeq(lines, 1, n - 1), fragment), cut |-> TRUE]
      BY <2>1
    <2> DEFINE kept == SubSeq(lines, 1, n - 1)
               line == lines[n]
    <2>3. f.lines = Append(kept, fragment) /\ f.cut = TRUE
      BY <2>2
    <2>4. kept \in Seq(Line) /\ ToSet(kept) \subseteq ToSet(lines) /\ Len(kept) = n - 1
      BY <1>4
    <2>5. HeaderOf(kept) \in {HeaderOf(lines), Nobody}
      BY <1>4
    <2>6. line \in Line /\ line \in ToSet(lines) /\ n \in 1..Len(lines) /\ lines # <<>>
      BY <1>1 DEF ToSet
    <2>7. (n = 1) => lines[1] = line
      OBVIOUS
    <2> HIDE DEF kept, line
    <2>8. /\ fragment \in Line
          /\ line.kind = "header" => HeaderOf(<<fragment>>) \in {HeaderOf(<<line>>), Nobody}
          /\ line.kind # "entry" => fragment.kind # "entry"
          /\ line.kind = "entry" => /\ fragment.kind # "header"
                                    /\ fragment.kind = "entry" => fragment.tx = line.tx
      BY <2>6, FragmentKinds DEF line
    <2>9. /\ f.lines \in Seq(Line) /\ f.lines # <<>>
          /\ \A l \in EntriesIn(f.lines) : l \in EntriesIn(kept) \/ (l = fragment /\ fragment.kind = "entry")
          /\ \/ HeaderOf(f.lines) \in {HeaderOf(kept), Nobody}
             \/ kept = <<>> /\ HeaderOf(f.lines) = HeaderOf(<<fragment>>)
      <3>1. f.lines = Write(kept, FALSE, fragment)
        BY <2>3 DEF Write
      <3> DEFINE new == Write(kept, FALSE, fragment)
      <3> HIDE DEF new
      <3>2. /\ new \in Seq(Line) /\ new # <<>>
            /\ \A l \in EntriesIn(new) : l \in EntriesIn(kept) \/ (l = fragment /\ fragment.kind = "entry")
            /\ \/ HeaderOf(new) \in {HeaderOf(kept), Nobody}
               \/ kept = <<>> /\ HeaderOf(new) = HeaderOf(<<fragment>>)
        BY <2>4, <2>8, NextLine DEF new
      <3>3. f.lines = new
        BY <3>1 DEF new
      <3> QED
        BY <3>2, <3>3
    <2>10. ASSUME NEW l \in EntriesIn(f.lines) PROVE l.tx \in TransactionsIn(lines)
      <3>1. CASE l \in EntriesIn(kept)
        BY <2>4, <3>1 DEF TransactionsIn, EntriesIn
      <3>2. CASE l = fragment /\ fragment.kind = "entry"
        <4>1. line \in EntriesIn(lines) /\ l.tx = line.tx
          BY <2>6, <2>8, <3>2 DEF EntriesIn
        <4> QED
          BY <4>1 DEF TransactionsIn
      <3> QED
        BY <2>9, <3>1, <3>2
    <2>11. kept = <<>> => HeaderOf(<<fragment>>) \in {HeaderOf(lines), Nobody}
      <3> SUFFICES ASSUME kept = <<>> PROVE HeaderOf(<<fragment>>) \in {HeaderOf(lines), Nobody}
        OBVIOUS
      <3>1. n = 1
        BY <2>4, <2>6
      <3>2. HeaderOf(lines) = HeaderOf(<<line>>)
        BY <2>6, <2>7, <3>1 DEF HeaderOf
      <3>3. CASE line.kind = "header"
        BY <2>8, <3>2, <3>3
      <3>4. CASE fragment.kind # "header"
        BY <3>4 DEF HeaderOf
      <3>5. CASE line.kind = "junk" /\ fragment.kind = "header"
        BY <2>2, <3>5, Kinds DEF Fragments, line
      <3> QED
        BY <2>6, <2>8, <3>3, <3>4, <3>5, Kinds
    <2> QED
      BY <2>3, <2>5, <2>9, <2>10, <2>11 DEF TransactionsIn
  <1> QED
    BY <1>3, <1>5, <1>6, <1>7

LEMMA Compacting ==
    ASSUME TypeOK, NEW slot
    PROVE  /\ Rewritten(slot) \in Seq(Line)
           /\ EntriesIn(Rewritten(slot)) = Above(slot)
           /\ HeaderOf(Rewritten(slot)) = HeaderOf(lines)
  <1> DEFINE kept == Retained(slot)
             first == IF HasHeader(lines) THEN <<lines[1]>> ELSE <<>>
  <1>1. lines \in Seq(Line)
    BY DEF TypeOK
  <1>2. kept \in Seq(Line) /\ ToSet(kept) = Above(slot)
    <2>1. ToSet(kept) = ToSet(lines) \intersect Above(slot)
      BY <1>1, Selecting DEF Retained
    <2>2. Above(slot) \subseteq ToSet(lines)
      BY DEF Above, EntriesIn
    <2>3. kept \in Seq(Line)
      BY <1>1, Selecting DEF Retained
    <2> QED
      BY <2>1, <2>2, <2>3
  <1>3. first \in Seq(Line) /\ \A l \in ToSet(first) : l.kind = "header"
    <2>1. CASE HasHeader(lines)
      <3>1. lines[1] \in Line /\ lines[1].kind = "header"
        BY <1>1, <2>1 DEF HasHeader
      <3>2. ToSet(<<lines[1]>>) = {lines[1]}
        BY DEF ToSet
      <3> QED
        BY <2>1, <3>1, <3>2
    <2>2. CASE ~HasHeader(lines)
      BY <2>2 DEF ToSet
    <2> QED
      BY <2>1, <2>2
  <1>4. Rewritten(slot) = first \o kept
    BY DEF Rewritten
  <1>5. /\ Rewritten(slot) \in Seq(Line)
        /\ ToSet(Rewritten(slot)) = ToSet(first) \union Above(slot)
        /\ \A i \in 1..Len(first) : Rewritten(slot)[i] = first[i]
        /\ first = <<>> => Rewritten(slot) = kept
        /\ Len(Rewritten(slot)) = Len(first) + Len(kept)
    <2> HIDE DEF first, kept
    <2> QED
      BY <1>2, <1>3, <1>4, Concatenation
  <1>6. EntriesIn(Rewritten(slot)) = Above(slot)
    BY <1>3, <1>5 DEF EntriesIn, Above
  <1>7. CASE HasHeader(lines)
    <2>1. first = <<lines[1]>> /\ Len(first) = 1
      BY <1>7
    <2>2. Rewritten(slot)[1] = lines[1] /\ Rewritten(slot) # <<>>
      BY <1>2, <1>5, <2>1
    <2> QED
      BY <1>5, <1>6, <1>7, <2>2 DEF HeaderOf, HasHeader
  <1>8. CASE ~HasHeader(lines)
    <2>1. Rewritten(slot) = kept
      BY <1>5, <1>8
    <2>2. kept # <<>> => kept[1] \in ToSet(kept)
      <3> HIDE DEF kept
      <3> QED
        BY <1>2 DEF ToSet
    <2>3. kept # <<>> => kept[1].kind = "entry"
      BY <1>2, <2>2 DEF Above, EntriesIn
    <2>4. HeaderOf(Rewritten(slot)) = Nobody
      BY <2>1, <2>3 DEF HeaderOf
    <2> QED
      BY <1>5, <1>6, <1>8, <2>4 DEF HeaderOf, HasHeader
  <1> QED
    BY <1>7, <1>8

-------------------------------------------------------------------------------
(* The invariant. *)

\* The transactions whose line stands whole, with their slot.
HeldWhole(ls) == {t \in Transaction : Entry(t, SlotOf[t]) \in EntriesIn(ls)}

\* What a target recorded whole below its own header, and no compaction dropped, still
\* stands whole below it, but for what an append without a line's end has garbled.
PromisedIsWhole ==
    \A g \in Target :
        promised[g] \ glued # {} =>
            HeaderOf(lines) = g /\ promised[g] \subseteq HeldWhole(lines) \union glued

\* Below a target's header stands what that target shipped, or what was recorded
\* without a header of its own.
EntriesAreOwned ==
    HeaderOf(lines) # Nobody =>
        TransactionsIn(lines) \subseteq shipped[HeaderOf(lines)] \union unclaimed

\* The document a save is about to install, or has installed, is this target's.
SaveIsOurs == /\ pc = "written" => temporary.target = target
              /\ pc = "renamed" => named.target = target

JournalInv ==
    /\ TypeOK
    /\ NothingToTear
    /\ WrittenIsInFile
    /\ PromisedIsWhole
    /\ EntriesAreOwned
    /\ ForeignOnlyIfUnclaimed
    /\ SaveIsOurs

LEMMA Promises == PromisedIsWhole => JournaledIsRestorable
  <1>1. HeldWhole(lines) \subseteq TransactionsIn(lines)
    BY Kinds, JournalAssumption DEF HeldWhole, TransactionsIn, Entry
  <1> QED
    BY <1>1 DEF PromisedIsWhole, JournaledIsRestorable

LEMMA Beginning == Init => JournalInv
  <1> SUFFICES ASSUME Init PROVE JournalInv
    OBVIOUS
  <1>1. lines = <<>> /\ HeaderOf(lines) = Nobody
    BY EmptyFile DEF Init
  <1>2. TypeOK
    BY <1>1, EmptyFile DEF Init, TypeOK, CheckpointInit, CheckpointTypeOK, NonePromised
  <1>3. WrittenIsInFile /\ ForeignOnlyIfUnclaimed /\ SaveIsOurs /\ EntriesAreOwned
    BY <1>1 DEF Init, WrittenIsInFile, ForeignOnlyIfUnclaimed, SaveIsOurs, EntriesAreOwned
  <1>4. PromisedIsWhole
    BY DEF Init, NonePromised, PromisedIsWhole
  <1> QED
    BY <1>2, <1>3, <1>4, Base DEF JournalInv

\* What an append leaves of the file, with what is known of the transaction.
LEMMA Appends ==
    ASSUME JournalInv, NEW t \in Transaction, Claim(t),
           NEW f \in Interrupted(t) \union {Appended(t)}, Becomes(f)
    PROVE  /\ lines' \in Seq(Line) /\ cut' \in BOOLEAN /\ (cut' => lines' # <<>>)
           /\ shipped' \in [Target -> SUBSET Transaction] /\ unclaimed' \subseteq Transaction
           /\ EntriesAreOwned'
           /\ TransactionsIn(lines) \subseteq TransactionsIn(lines') \union Unended
           /\ HeldWhole(lines) \subseteq HeldWhole(lines') \union Unended
           /\ HeaderOf(lines) # Nobody /\ EntriesIn(lines) # {} => HeaderOf(lines') = HeaderOf(lines)
           /\ \A g \in Target : shipped[g] \subseteq shipped'[g]
           /\ unclaimed \subseteq unclaimed'
  <1>1. Extends(f, t) /\ lines' = f.lines /\ cut' = f.cut
    BY Appending DEF JournalInv, Becomes
  <1>2. TypeOK /\ EntriesAreOwned
    BY DEF JournalInv
  <1>3. /\ shipped' \in [Target -> SUBSET Transaction] /\ unclaimed' \subseteq Transaction
        /\ shipped' = [shipped EXCEPT ![target] = @ \union {t}]
        /\ \A g \in Target : shipped[g] \subseteq shipped'[g]
        /\ t \in shipped'[target]
        /\ unclaimed \subseteq unclaimed'
        /\ HeaderOf(lines') # target => t \in unclaimed'
    BY <1>2 DEF Claim, TypeOK
  <1>4. TransactionsIn(lines') \subseteq TransactionsIn(lines) \union {t}
    BY <1>1 DEF Extends, TransactionsIn
  <1>5. EntriesAreOwned'
    <2> SUFFICES ASSUME HeaderOf(lines') # Nobody, NEW u \in TransactionsIn(lines')
                 PROVE  u \in shipped'[HeaderOf(lines')] \union unclaimed'
      BY DEF EntriesAreOwned
    <2>1. CASE u = t
      BY <1>3, <2>1
    <2>2. CASE u \in TransactionsIn(lines)
      <3>1. lines # <<>>
        BY <2>2, EmptyFile DEF TransactionsIn
      <3>2. HeaderOf(lines') = HeaderOf(lines)
        BY <1>1, <3>1 DEF Extends
      <3>3. HeaderOf(lines) \in Target
        BY <1>2, <3>2, Kinds DEF HeaderOf, TypeOK
      <3> QED
        BY <1>2, <1>3, <2>2, <3>2, <3>3 DEF EntriesAreOwned
    <2> QED
      BY <1>4, <2>1, <2>2
  <1>6. TransactionsIn(lines) \subseteq TransactionsIn(lines') \union Unended
    BY <1>1 DEF Extends, TransactionsIn
  <1>7. HeldWhole(lines) \subseteq HeldWhole(lines') \union Unended
    BY <1>1, JournalAssumption, Kinds DEF Extends, HeldWhole
  <1> QED
    BY <1>1, <1>3, <1>5, <1>6, <1>7 DEF Extends

\* A promise survives a change of the file that keeps the header above its entries, and
\* every whole line but those that are garbled.
LEMMA PromisesKept ==
    ASSUME PromisedIsWhole, promised' = promised, glued \subseteq glued',
           HeldWhole(lines) \subseteq HeldWhole(lines') \union glued',
           HeaderOf(lines) # Nobody /\ EntriesIn(lines) # {} => HeaderOf(lines') = HeaderOf(lines)
    PROVE  PromisedIsWhole'
  <1> SUFFICES ASSUME NEW g \in Target, NEW u \in promised[g], u \notin glued'
               PROVE  HeaderOf(lines') = g /\ promised[g] \subseteq HeldWhole(lines') \union glued'
    BY DEF PromisedIsWhole
  <1>1. HeaderOf(lines) = g /\ promised[g] \subseteq HeldWhole(lines) \union glued /\ u \in HeldWhole(lines)
    BY DEF PromisedIsWhole
  <1>2. HeaderOf(lines) # Nobody /\ EntriesIn(lines) # {}
    BY <1>1, NobodyAssumption DEF HeldWhole
  <1> QED
    BY <1>1, <1>2

LEMMA UnendedType == TypeOK => Unended \subseteq Transaction
  <1> SUFFICES ASSUME TypeOK PROVE Unended \subseteq Transaction
    OBVIOUS
  <1>1. cut => Last(lines) \in Line
    BY DEF TypeOK, Last
  <1>2. cut => \A l \in EntriesIn(<<Last(lines)>>) : l.tx \in Transaction
    BY <1>1, Kinds DEF EntriesIn, ToSet
  <1> QED
    BY <1>2 DEF Unended, TransactionsIn

LEMMA RecordStep ==
    ASSUME JournalInv, NEW t \in Transaction, Record(t), NothingToTear'
    PROVE  JournalInv'
  <1>1. /\ TypeOK /\ WrittenIsInFile /\ PromisedIsWhole /\ ForeignOnlyIfUnclaimed /\ SaveIsOurs
        /\ Claim(t) /\ Becomes(Appended(t))
    BY DEF JournalInv, Record
  <1>2. /\ lines' \in Seq(Line) /\ cut' \in BOOLEAN /\ (cut' => lines' # <<>>)
        /\ shipped' \in [Target -> SUBSET Transaction] /\ unclaimed' \subseteq Transaction
        /\ EntriesAreOwned'
        /\ TransactionsIn(lines) \subseteq TransactionsIn(lines') \union Unended
        /\ HeldWhole(lines) \subseteq HeldWhole(lines') \union Unended
        /\ HeaderOf(lines) # Nobody /\ EntriesIn(lines) # {} => HeaderOf(lines') = HeaderOf(lines)
        /\ \A g \in Target : shipped[g] \subseteq shipped'[g]
        /\ unclaimed \subseteq unclaimed'
    BY <1>1, Appends
  <1>3. Unended \subseteq glued' /\ glued \subseteq glued' /\ (cut => t \in glued') /\ glued' \subseteq Transaction
    <2>1. Unended \subseteq Transaction
      BY <1>1, UnendedType
    <2>2. ~cut => Unended = {}
      BY DEF Unended
    <2>3. glued' = IF cut THEN glued \union Unended \union {t} ELSE glued
      BY DEF Record
    <2> QED
      BY <1>1, <2>1, <2>2, <2>3 DEF TypeOK
  <1>4. t \in HeldWhole(lines') \union glued' /\ t \in TransactionsIn(lines') \union glued'
    <2>1. CASE cut
      BY <1>3, <2>1
    <2>2. CASE ~cut
      <3>1. cut = FALSE
        BY <1>1, <2>2 DEF TypeOK
      <3>2. Entry(t, SlotOf[t]) \in EntriesIn(lines')
        BY <1>1, <3>1, AppendedWhole DEF Becomes
      <3>3. Entry(t, SlotOf[t]).tx = t
        BY DEF Entry
      <3> QED
        BY <3>2, <3>3 DEF HeldWhole, TransactionsIn
    <2> QED
      BY <2>1, <2>2
  <1>5. TypeOK'
    BY <1>1, <1>2, <1>3 DEF Record, TypeOK, CheckpointTypeOK, checkpoint
  <1>6. WrittenIsInFile'
    BY <1>1, <1>2, <1>3, <1>4 DEF Record, WrittenIsInFile
  <1>7. PromisedIsWhole'
    <2> SUFFICES ASSUME NEW g \in Target, NEW u \in promised'[g], u \notin glued'
                 PROVE  HeaderOf(lines') = g /\ promised'[g] \subseteq HeldWhole(lines') \union glued'
      BY DEF PromisedIsWhole
    <2>1. /\ promised'[g] \subseteq promised[g] \union {t}
          /\ t \in promised'[g] => t \in promised[g] \/ (g = target /\ HeaderOf(lines') = target)
      BY <1>1 DEF Record, TypeOK
    <2>3. CASE promised[g] \subseteq glued'
      BY <1>4, <2>1, <2>3
    <2>4. promised[g] \subseteq glued' \/ \E v \in promised[g] : v \notin glued'
      OBVIOUS
    <2>5. CASE \E v \in promised[g] : v \notin glued'
      <3>1. PICK v \in promised[g] : v \notin glued'
        BY <2>5
      <3>2. HeaderOf(lines) = g /\ promised[g] \subseteq HeldWhole(lines) \union glued /\ v \in HeldWhole(lines)
        BY <1>1, <1>3, <3>1 DEF PromisedIsWhole
      <3>3. HeaderOf(lines) # Nobody /\ EntriesIn(lines) # {}
        BY <3>2, NobodyAssumption DEF HeldWhole
      <3> QED
        BY <1>2, <1>3, <1>4, <2>1, <3>2, <3>3
    <2> QED
      BY <2>3, <2>4, <2>5
  <1>8. ForeignOnlyIfUnclaimed' /\ SaveIsOurs'
    BY <1>1, <1>2 DEF Record, TypeOK, ForeignOnlyIfUnclaimed, SaveIsOurs, checkpoint
  <1> QED
    BY <1>2, <1>5, <1>6, <1>7, <1>8 DEF JournalInv

\* The append fails, or the process is killed within it.
LEMMA InterruptedStep ==
    ASSUME JournalInv, NEW t \in Transaction, RecordFails(t) \/ CrashRecording(t), NothingToTear'
    PROVE  JournalInv'
  <1>1. TypeOK /\ WrittenIsInFile /\ PromisedIsWhole /\ ForeignOnlyIfUnclaimed /\ SaveIsOurs
    BY DEF JournalInv
  <1>2. PICK f \in Interrupted(t) : Becomes(f)
    BY DEF RecordFails, CrashRecording, Kill
  <1>3. /\ Claim(t) /\ glued' = glued \union Unended /\ promised' = promised
        /\ faults' = faults + 1
    BY DEF RecordFails, CrashRecording, Kill
  <1>4. /\ lines' \in Seq(Line) /\ cut' \in BOOLEAN /\ (cut' => lines' # <<>>)
        /\ shipped' \in [Target -> SUBSET Transaction] /\ unclaimed' \subseteq Transaction
        /\ EntriesAreOwned'
        /\ TransactionsIn(lines) \subseteq TransactionsIn(lines') \union Unended
        /\ HeldWhole(lines) \subseteq HeldWhole(lines') \union Unended
        /\ HeaderOf(lines) # Nobody /\ EntriesIn(lines) # {} => HeaderOf(lines') = HeaderOf(lines)
        /\ \A g \in Target : shipped[g] \subseteq shipped'[g]
        /\ unclaimed \subseteq unclaimed'
    BY <1>2, <1>3, Appends
  <1>5. PromisedIsWhole'
    BY <1>1, <1>3, <1>4, PromisesKept
  <1>6. Unended \subseteq Transaction
    BY <1>1, UnendedType
  <1>7. CASE RecordFails(t)
    <2>1. opened' \in BOOLEAN
      BY <1>1, <1>7 DEF RecordFails, TypeOK, Stamps, HeaderWritten
    <2>2. /\ UNCHANGED <<temporary, named, older, target, pc, identity, restored>>
          /\ written' = written /\ glued' \subseteq Transaction /\ faults' \in Nat
      BY <1>1, <1>3, <1>6, <1>7 DEF RecordFails, WrittenAfterFailure, checkpoint, TypeOK
    <2>3. TypeOK'
      BY <1>1, <1>3, <1>4, <2>1, <2>2 DEF TypeOK, CheckpointTypeOK
    <2>4. WrittenIsInFile'
      BY <1>1, <1>3, <1>4, <2>2 DEF WrittenIsInFile
    <2>5. ForeignOnlyIfUnclaimed' /\ SaveIsOurs'
      BY <1>1, <1>4, <2>2 DEF TypeOK, ForeignOnlyIfUnclaimed, SaveIsOurs
    <2> QED
      BY <1>4, <1>5, <2>3, <2>4, <2>5 DEF JournalInv
  <1>8. CASE CrashRecording(t)
    <2>1. /\ target' \in Target /\ pc' = "starting" /\ identity' = Nobody
          /\ opened' = FALSE /\ written' = {} /\ restored' = {}
          /\ temporary' = NoFile /\ UNCHANGED <<named, older>>
      BY <1>8 DEF CrashRecording, Kill, Kept
    <2>2. TypeOK'
      <3>1. CheckpointTypeOK'
        BY <1>1, <2>1 DEF TypeOK, CheckpointTypeOK
      <3>2. glued' \subseteq Transaction /\ faults' \in Nat
        BY <1>1, <1>3, <1>6 DEF TypeOK
      <3>3. opened' \in BOOLEAN
        BY <2>1
      <3> QED
        BY <1>1, <1>3, <1>4, <2>1, <3>1, <3>2, <3>3 DEF TypeOK
    <2>3. WrittenIsInFile' /\ ForeignOnlyIfUnclaimed' /\ SaveIsOurs'
      BY <2>1 DEF WrittenIsInFile, ForeignOnlyIfUnclaimed, SaveIsOurs
    <2> QED
      BY <1>4, <1>5, <2>2, <2>3 DEF JournalInv
  <1> QED
    BY <1>7, <1>8

\* Neither the file nor what is known of its lines changes.
LEMMA FileStays ==
    ASSUME JournalInv, UNCHANGED <<file, history>>
    PROVE  PromisedIsWhole' /\ EntriesAreOwned'
  BY DEF JournalInv, file, history, PromisedIsWhole, HeldWhole, EntriesAreOwned

\* The steps of a save, but for the compaction.
LEMMA SaveSteps ==
    ASSUME JournalInv, BeginSave \/ InstallSave \/ SaveFails \/ CompactFails, NothingToTear'
    PROVE  JournalInv'
  <1>1. TypeOK /\ WrittenIsInFile /\ ForeignOnlyIfUnclaimed /\ SaveIsOurs
    BY DEF JournalInv
  <1>2. UNCHANGED <<lines, cut, opened, written, promised, target, identity, restored, shipped, unclaimed, glued>>
    BY DEF BeginSave, InstallSave, SaveFails, CompactFails, SaveStep, file
  <1>3. PromisedIsWhole' /\ EntriesAreOwned'
    BY <1>2, FileStays DEF file, history
  <1>4. WrittenIsInFile' /\ ForeignOnlyIfUnclaimed'
    BY <1>1, <1>2 DEF WrittenIsInFile, ForeignOnlyIfUnclaimed
  <1>5. faults' \in Nat /\ pc' \in {"running", "written", "renamed"}
    <2>1. faults' \in {faults, faults + 1}
      BY DEF BeginSave, InstallSave, SaveFails, CompactFails
    <2>2. pc' \in {"running", "written", "renamed"}
      BY DEF BeginSave, InstallSave, SaveFails, CompactFails, SaveStep
    <2> QED
      BY <1>1, <2>1, <2>2 DEF TypeOK
  <1>6. CheckpointTypeOK' /\ SaveIsOurs'
    <2>1. CASE BeginSave
      <3>1. temporary' \in CheckpointFile /\ temporary'.target = target /\ UNCHANGED <<named, older>> /\ pc' = "written"
        BY <1>1, <2>1 DEF BeginSave, WriteTemporary, SaveStep, CheckpointFile, AfterSync, TypeOK
      <3> QED
        BY <1>1, <1>2, <3>1 DEF TypeOK, CheckpointTypeOK, SaveIsOurs
    <2>2. CASE InstallSave
      BY <1>1, <1>2, <2>2 DEF InstallSave, InstallTemporary, Rename, SaveStep, TypeOK, CheckpointTypeOK, SaveIsOurs
    <2>3. CASE SaveFails \/ CompactFails
      <3>1. pc' = "running" /\ temporary' \in {temporary, NoFile} /\ named' = named /\ older' \subseteq older
        BY <2>3 DEF SaveFails, CompactFails, SaveStep, Kept, SyncDirectory, DirectorySynced
      <3> QED
        BY <1>1, <3>1 DEF TypeOK, CheckpointTypeOK, SaveIsOurs
    <2> QED
      BY <2>1, <2>2, <2>3
  <1>7. TypeOK'
    BY <1>1, <1>2, <1>5, <1>6 DEF TypeOK
  <1> QED
    BY <1>3, <1>4, <1>6, <1>7 DEF JournalInv

\* The process starts: what it is given back is what its own target shipped, or what
\* was recorded without its header.
LEMMA StartSteps ==
    ASSUME JournalInv, Restore \/ RestoreUnreadable \/ Discard \/ LoadFails, NothingToTear'
    PROVE  JournalInv'
  <1>1. TypeOK /\ WrittenIsInFile /\ ForeignOnlyIfUnclaimed /\ PromisedIsWhole /\ EntriesAreOwned
    BY DEF JournalInv
  <1>2. /\ UNCHANGED <<target, shipped, unclaimed, glued, faults>>
        /\ pc = "starting" /\ pc' \in {"starting", "running", "parked"}
        /\ identity' \in {identity, target}
    BY DEF Restore, RestoreUnreadable, Discard, LoadFails, history
  <1>3. SaveIsOurs'
    BY <1>2 DEF SaveIsOurs
  <1>4. CheckpointTypeOK'
    BY <1>1 DEF TypeOK, CheckpointTypeOK, Restore, RestoreUnreadable, Discard, LoadFails, MoveAside, Rename, checkpoint
  <1>5. \/ UNCHANGED <<lines, cut>>
        \/ lines' = <<>> /\ cut' = FALSE
    BY DEF Restore, RestoreUnreadable, Discard, LoadFails, Purge, file
  <1>6. /\ lines' \in Seq(Line) /\ cut' \in BOOLEAN /\ (cut' => lines' # <<>>)
        /\ EntriesAreOwned'
    <2>1. CASE UNCHANGED <<lines, cut>>
      BY <1>1, <1>2, <2>1 DEF TypeOK, EntriesAreOwned
    <2>2. CASE lines' = <<>> /\ cut' = FALSE
      BY <2>2, EmptyFile DEF EntriesAreOwned
    <2> QED
      BY <1>5, <2>1, <2>2
  <1>7. \/ promised' = promised /\ UNCHANGED <<lines, cut>>
        \/ promised' = NonePromised
    BY DEF Restore, RestoreUnreadable, Discard, LoadFails, file, history
  <1>8. PromisedIsWhole' /\ promised' \in [Target -> SUBSET Transaction]
    <2>1. CASE promised' = promised /\ UNCHANGED <<lines, cut>>
      BY <1>1, <1>2, <2>1 DEF PromisedIsWhole, HeldWhole, TypeOK
    <2>2. CASE promised' = NonePromised
      BY <2>2 DEF PromisedIsWhole, NonePromised
    <2> QED
      BY <1>7, <2>1, <2>2
  <1>9. opened' \in BOOLEAN
    BY <1>1 DEF Restore, RestoreUnreadable, Discard, LoadFails, Purge, TypeOK
  <1>10. \/ OwnHeader /\ written' = TransactionsIn(lines) /\ restored' = TransactionsIn(lines) /\ lines' = lines
         \/ written' = {} /\ restored' = {}
         \/ UNCHANGED <<lines, written, restored>>
    BY DEF Restore, RestoreUnreadable, Discard, LoadFails, file
  <1>11. /\ written' \subseteq Transaction /\ restored' \subseteq Transaction
         /\ WrittenIsInFile' /\ ForeignOnlyIfUnclaimed'
    <2>1. CASE OwnHeader /\ written' = TransactionsIn(lines) /\ restored' = TransactionsIn(lines) /\ lines' = lines
      <3>1. TransactionsIn(lines) \subseteq Transaction
        BY <1>1, Kinds DEF TransactionsIn, EntriesIn, ToSet, TypeOK
      <3>2. TransactionsIn(lines) \subseteq shipped[target] \union unclaimed
        BY <1>1, <2>1, NobodyAssumption DEF OwnHeader, EntriesAreOwned, TypeOK
      <3> QED
        BY <1>2, <2>1, <3>1, <3>2 DEF WrittenIsInFile, ForeignOnlyIfUnclaimed
    <2>2. CASE written' = {} /\ restored' = {}
      BY <2>2 DEF WrittenIsInFile, ForeignOnlyIfUnclaimed
    <2>3. CASE UNCHANGED <<lines, written, restored>>
      BY <1>1, <1>2, <2>3 DEF WrittenIsInFile, ForeignOnlyIfUnclaimed, TypeOK
    <2> QED
      BY <1>10, <2>1, <2>2, <2>3
  <1>12. TypeOK'
    BY <1>1, <1>2, <1>4, <1>6, <1>8, <1>9, <1>11 DEF TypeOK
  <1> QED
    BY <1>3, <1>6, <1>8, <1>11, <1>12 DEF JournalInv

\* What is dropped is not promised any more, and what remains stands below the header.
LEMMA CompactStep ==
    ASSUME JournalInv, NEW slot \in {0} \union {SlotOf[t] : t \in Transaction}, Compact(slot),
           NothingToTear'
    PROVE  JournalInv'
  <1>1. TypeOK /\ WrittenIsInFile /\ ForeignOnlyIfUnclaimed /\ PromisedIsWhole /\ EntriesAreOwned /\ SaveIsOurs
    BY DEF JournalInv
  <1>2. /\ UNCHANGED <<target, identity, restored, shipped, unclaimed, glued, faults, temporary, named>>
        /\ pc' = "running" /\ older' = {}
        /\ promised' = [g \in Target |-> {t \in promised[g] : SlotOf[t] > slot}]
    BY DEF Compact, SaveStep, SyncDirectory, DirectorySynced
  <1>3. \/ Above(slot) = EntriesIn(lines) /\ UNCHANGED <<lines, cut, opened, written>>
        \/ /\ lines' = Rewritten(slot) /\ cut' = FALSE /\ opened' = FALSE
           /\ written' = {l.tx : l \in Above(slot)}
    BY DEF Compact, file
  <1>4. /\ lines' \in Seq(Line) /\ cut' \in BOOLEAN /\ (cut' => lines' # <<>>)
        /\ EntriesIn(lines') = Above(slot) /\ HeaderOf(lines') = HeaderOf(lines)
        /\ opened' \in BOOLEAN
        /\ written' \subseteq TransactionsIn(lines') \union glued
    <2>1. CASE Above(slot) = EntriesIn(lines) /\ UNCHANGED <<lines, cut, opened, written>>
      BY <1>1, <2>1 DEF TypeOK, WrittenIsInFile
    <2>2. CASE /\ lines' = Rewritten(slot) /\ cut' = FALSE /\ opened' = FALSE
               /\ written' = {l.tx : l \in Above(slot)}
      <3>1. lines' \in Seq(Line) /\ EntriesIn(lines') = Above(slot) /\ HeaderOf(lines') = HeaderOf(lines)
        BY <1>1, <2>2, Compacting
      <3>2. written' = TransactionsIn(lines')
        BY <2>2, <3>1 DEF TransactionsIn
      <3>3. opened' \in BOOLEAN /\ cut' \in BOOLEAN /\ ~cut'
        BY <2>2
      <3> QED
        BY <3>1, <3>2, <3>3
    <2> QED
      BY <1>3, <2>1, <2>2
  <1>5. Above(slot) \subseteq EntriesIn(lines) /\ TransactionsIn(lines) \subseteq Transaction
    BY <1>1, Kinds DEF Above, TransactionsIn, EntriesIn, ToSet, TypeOK
  <1>6. TransactionsIn(lines') \subseteq TransactionsIn(lines)
    BY <1>4, <1>5 DEF TransactionsIn
  <1>7. EntriesAreOwned' /\ WrittenIsInFile' /\ ForeignOnlyIfUnclaimed' /\ SaveIsOurs'
    BY <1>1, <1>2, <1>4, <1>6 DEF EntriesAreOwned, WrittenIsInFile, ForeignOnlyIfUnclaimed, SaveIsOurs
  <1>8. \A t \in HeldWhole(lines) : SlotOf[t] > slot => t \in HeldWhole(lines')
    BY <1>4, JournalAssumption, Kinds DEF HeldWhole, Above
  <1>9. PromisedIsWhole' /\ promised' \in [Target -> SUBSET Transaction]
    <2>1. \A g \in Target : promised'[g] = {t \in promised[g] : SlotOf[t] > slot}
      BY <1>2
    <2>2. promised' \in [Target -> SUBSET Transaction]
      BY <1>1, <1>2 DEF TypeOK
    <2>3. ASSUME NEW g \in Target, promised'[g] \ glued' # {}
          PROVE  HeaderOf(lines') = g /\ promised'[g] \subseteq HeldWhole(lines') \union glued'
      <3>1. promised[g] \ glued # {}
        BY <1>2, <2>1, <2>3
      <3> QED
        BY <1>1, <1>2, <1>4, <1>8, <2>1, <3>1 DEF PromisedIsWhole
    <2> QED
      BY <2>2, <2>3 DEF PromisedIsWhole
  <1>10. written' \subseteq Transaction
    BY <1>1, <1>2, <1>4, <1>5, <1>6 DEF TypeOK
  <1>11. CheckpointTypeOK'
    BY <1>1, <1>2 DEF TypeOK, CheckpointTypeOK
  <1>12. TypeOK'
    BY <1>1, <1>2, <1>4, <1>9, <1>10, <1>11 DEF TypeOK
  <1> QED
    BY <1>7, <1>9, <1>12 DEF JournalInv

LEMMA CrashSteps ==
    ASSUME JournalInv, Crash \/ HostCrash, NothingToTear'
    PROVE  JournalInv'
  <1>1. TypeOK /\ PromisedIsWhole /\ EntriesAreOwned
    BY DEF JournalInv
  <1>2. /\ target' \in Target /\ pc' = "starting" /\ identity' = Nobody
        /\ opened' = FALSE /\ written' = {} /\ restored' = {} /\ faults' = faults + 1
        /\ UNCHANGED <<shipped, unclaimed, glued>>
    BY DEF Crash, HostCrash, Kill, history
  <1>3. WrittenIsInFile' /\ ForeignOnlyIfUnclaimed' /\ SaveIsOurs'
    BY <1>2 DEF WrittenIsInFile, ForeignOnlyIfUnclaimed, SaveIsOurs
  <1>4. /\ lines' \in Seq(Line) /\ cut' \in BOOLEAN /\ (cut' => lines' # <<>>)
        /\ PromisedIsWhole' /\ EntriesAreOwned'
        /\ promised' \in [Target -> SUBSET Transaction]
    <2>1. CASE Crash
      <3>1. lines' = lines /\ cut' = cut /\ promised' = promised
        BY <2>1 DEF Crash, Kill, Becomes, Journal, history
      <3> QED
        BY <1>1, <1>2, <3>1 DEF TypeOK, PromisedIsWhole, HeldWhole, EntriesAreOwned
    <2>2. CASE HostCrash
      <3>1. PICK f \in Remains(Journal) : lines' = f.lines /\ cut' = f.cut
        BY <2>2 DEF HostCrash, Kill, Becomes
      <3>2. /\ lines' \in Seq(Line) /\ cut' \in BOOLEAN /\ (cut' => lines' # <<>>)
            /\ TransactionsIn(lines') \subseteq TransactionsIn(lines)
            /\ HeaderOf(lines') \in {HeaderOf(lines), Nobody}
        BY <1>1, <3>1, Surviving
      <3>3. promised' = NonePromised
        BY <2>2 DEF HostCrash
      <3>4. PromisedIsWhole' /\ promised' \in [Target -> SUBSET Transaction]
        BY <3>3 DEF PromisedIsWhole, NonePromised
      <3>5. EntriesAreOwned'
        BY <1>1, <1>2, <3>2 DEF EntriesAreOwned
      <3> QED
        BY <3>2, <3>4, <3>5
    <2> QED
      BY <2>1, <2>2
  <1>5. CheckpointTypeOK'
    <2>1. CASE Crash
      BY <1>1, <2>1 DEF Crash, Kept, TypeOK, CheckpointTypeOK
    <2>2. CASE HostCrash
      <3>1. PICK f \in older \union {named} : named' \in AfterHostCrash(f)
        BY <2>2 DEF HostCrash, LostUnlessSynced
      <3>2. f \in CheckpointFile \union {NoFile} /\ Durable(f)
        BY <1>1, <3>1 DEF TypeOK, CheckpointTypeOK, JournalInv, NothingToTear
      <3>3. named' = f
        <4>1. named' = [f EXCEPT !.content = f.content]
          BY <3>1, <3>2 DEF AfterHostCrash, Durable
        <4> QED
          BY <3>2, <4>1 DEF CheckpointFile, NoFile
      <3> QED
        BY <2>2, <3>2, <3>3 DEF HostCrash, LostUnlessSynced, CheckpointTypeOK
    <2> QED
      BY <2>1, <2>2
  <1>6. opened' \in BOOLEAN
    BY <1>2
  <1>7. TypeOK'
    BY <1>1, <1>2, <1>4, <1>5, <1>6 DEF TypeOK
  <1> QED
    BY <1>3, <1>4, <1>7 DEF JournalInv

LEMMA Stutter == ASSUME JournalInv, UNCHANGED vars PROVE JournalInv'
  <1>1. UNCHANGED <<file, checkpoint, process, history, faults>>
    BY DEF vars
  <1>2. PromisedIsWhole' /\ EntriesAreOwned'
    BY <1>1, FileStays
  <1>3. TypeOK' /\ WrittenIsInFile' /\ ForeignOnlyIfUnclaimed' /\ SaveIsOurs' /\ NothingToTear'
    BY <1>1 DEF JournalInv, file, checkpoint, process, history, TypeOK, CheckpointTypeOK, WrittenIsInFile,
                ForeignOnlyIfUnclaimed, SaveIsOurs, NothingToTear
  <1> QED
    BY <1>2, <1>3 DEF JournalInv

LEMMA Step == JournalInv /\ [Next]_vars => JournalInv'
  <1> SUFFICES ASSUME JournalInv, [Next]_vars PROVE JournalInv'
    OBVIOUS
  <1>1. NothingToTear'
    BY Induction DEF JournalInv
  <1>2. CASE \E t \in Transaction : Record(t) \/ RecordFails(t) \/ CrashRecording(t)
    BY <1>1, <1>2, RecordStep, InterruptedStep
  <1>3. CASE Restore \/ RestoreUnreadable \/ Discard \/ LoadFails
    BY <1>1, <1>3, StartSteps
  <1>4. CASE BeginSave \/ InstallSave \/ SaveFails \/ CompactFails
    BY <1>1, <1>4, SaveSteps
  <1>5. CASE \E slot \in {0} \union {SlotOf[t] : t \in Transaction} : Compact(slot)
    BY <1>1, <1>5, CompactStep
  <1>6. CASE Crash \/ HostCrash
    BY <1>1, <1>6, CrashSteps
  <1>7. CASE UNCHANGED vars
    BY <1>7, Stutter
  <1> QED
    BY <1>2, <1>3, <1>4, <1>5, <1>6, <1>7 DEF Next

LEMMA Invariant == Spec => []JournalInv
<1> QED
  BY Beginning, Step, PTL DEF Spec

-------------------------------------------------------------------------------
(* The theorems. *)

\* The journal's state is well formed: the file is a sequence of lines, and only one that
\* has a line can lack the end of its last (shipped.rs, `Journal`, `JournalState`).
THEOREM TypeCorrect == Spec => []TypeOK
<1> QED
  BY Invariant, PTL DEF JournalInv

\* What a process will not journal again (`JournalState.written`) is in the file, through
\* failed appends, failed and successful compactions and purges, but for a line that
\* garbled or was garbled by another (shipped.rs, `record`, `rewrite`).
THEOREM WrittenHeld == Spec => []WrittenIsInFile
<1> QED
  BY Invariant, PTL DEF JournalInv

\* What a target recorded whole below its own header, a restart of it gets back, through
\* kills within an append, failed writes and compactions (shipped.rs, `restore`).
THEOREM Restorable == Spec => []JournaledIsRestorable
<1>1. JournalInv => JournaledIsRestorable
  BY Promises DEF JournalInv
<1> QED
  BY <1>1, Invariant, PTL

\* What a poller suppresses was shipped by its own target or recorded without its
\* header, whichever targets the process was restarted for (shipped.rs, `restore`).
THEOREM ForeignClaimed == Spec => []ForeignOnlyIfUnclaimed
<1> QED
  BY Invariant, PTL DEF JournalInv

LEMMA Forgetting ==
    ASSUME JournalInv, [Next]_vars
    PROVE  [pc # "starting" /\ pc' # "starting"
              /\ ~(TransactionsIn(lines) \ glued' \subseteq TransactionsIn(lines')) =>
            \A f \in older' \union {named'} : \A left \in AfterHostCrash(f) :
                left.target = target /\ (Whole(left) \/ left.content = "short")]_vars
  <1> SUFFICES ASSUME pc # "starting", pc' # "starting",
                      ~(TransactionsIn(lines) \ glued' \subseteq TransactionsIn(lines'))
               PROVE  \A f \in older' \union {named'} : \A left \in AfterHostCrash(f) :
                        left.target = target /\ (Whole(left) \/ left.content = "short")
    OBVIOUS
  <1>1. TypeOK /\ NothingToTear /\ SaveIsOurs
    BY DEF JournalInv
  <1>2. lines' # lines
    BY DEF TransactionsIn
  <1>3. ~\E t \in Transaction : Record(t) \/ RecordFails(t) \/ CrashRecording(t)
    <2> SUFFICES ASSUME NEW t \in Transaction, Record(t) \/ RecordFails(t) PROVE FALSE
      BY DEF CrashRecording, Kill
    <2>1. TransactionsIn(lines) \subseteq TransactionsIn(lines') \union Unended
      <3>1. Claim(t) /\ \E f \in Interrupted(t) \union {Appended(t)} : Becomes(f)
        BY DEF Record, RecordFails
      <3> QED
        BY <3>1, Appends
    <2>2. Unended \subseteq glued'
      BY DEF Record, RecordFails, Unended
    <2> QED
      BY <2>1, <2>2
  <1>4. \E slot \in {0} \union {SlotOf[t] : t \in Transaction} : Compact(slot)
    BY <1>2, <1>3 DEF Next, vars, file, Restore, RestoreUnreadable, Discard, LoadFails, BeginSave, InstallSave,
                      SaveFails, CompactFails, Crash, HostCrash, Kill
  <1>5. pc = "renamed" /\ older' = {} /\ named' = named
    BY <1>4 DEF Compact, SaveStep, SyncDirectory, DirectorySynced
  <1>6. named.target = target /\ Durable(named)
    BY <1>1, <1>5 DEF SaveIsOurs, NothingToTear
  <1>7. named \in CheckpointFile
    BY <1>1, <1>6, NobodyAssumption DEF TypeOK, CheckpointTypeOK, NoFile
  <1>8. \A left \in AfterHostCrash(named) : left = named
    <2> SUFFICES ASSUME NEW left \in AfterHostCrash(named) PROVE left = named
      OBVIOUS
    <2>1. left = [named EXCEPT !.content = named.content]
      BY <1>6 DEF AfterHostCrash, Durable
    <2> QED
      BY <1>7, <2>1 DEF CheckpointFile
  <1> QED
    BY <1>5, <1>6, <1>8 DEF Durable, Whole

\* The journal forgets an entry only once the checkpoint that covers it is there to
\* stay: renamed, its directory synced, and of this target (checkpoint.rs,
\* `save_if_due`; runtime.rs, `compact` after a save).
THEOREM Forgotten == Spec => ForgottenForDurable
<1> QED
  BY Invariant, Forgetting, PTL DEF Spec, ForgottenForDurable
===============================================================================
