---------------------------- MODULE Backfill_proofs -----------------------------
(***************************************************************************)
(* For any ledger, any settings and any number of faults: what a backfill   *)
(* pushes is whole, holds every occurrence once, is in the order and of the *)
(* age that Loki takes, and is stored as the promise of a backfill allows.  *)
(***************************************************************************)
EXTENDS Backfill, SequenceLemmas

-------------------------------------------------------------------------------
(* The records of a transaction. *)

Kind   == {"program_instruction", "event_decode_failure", "program_event", "multisig_activity"}
Source == {"none", "log", "cpi"}
Name   == STRING \union UNION {ToSet(ActionsOfKind[k]) : k \in DOMAIN ActionsOfKind}

OfTransaction(t) == [signature : {t}, path : Seq(Nat), kind : Kind, name : Name, source : Source]

\* What records tell of a transaction's occurrences.
Told(records) ==
    {<<r.path, r.name>> : r \in {e \in ToSet(records) : e.kind # "event_decode_failure"}}

At(path, names) == {<<path, e>> : e \in names}

LEMMA InstructionFields ==
    ASSUME NEW ix \in Instruction
    PROVE  /\ ix.path \in Seq(Nat) /\ ix.path # <<>> /\ ix.kind \in STRING
           /\ ix.applied \in Seq(STRING) /\ ix.logs \in Seq(STRING) /\ ix.payload \in STRING
           /\ ix.program \in Version => ix.kind \in DOMAIN ActionsOfKind
           /\ ix.program \in {"monitored", "other"} \union Version
  BY DEF Instruction

LEMMA ToldTogether ==
    ASSUME NEW X, NEW r \in Seq(X), NEW s \in Seq(X)
    PROVE  Told(r \o s) = Told(r) \union Told(s)
  <1>1. ToSet(r \o s) = ToSet(r) \union ToSet(s)
    BY Concatenation
  <1> QED
    BY <1>1 DEF Told

LEMMA Recorded ==
    ASSUME NEW t, NEW ix \in Instruction, NEW kind \in Kind, NEW name \in Name, NEW source \in Source
    PROVE  /\ Record(t, ix, kind, name, source) \in OfTransaction(t)
           /\ Record(t, ix, kind, name, source).kind = kind
           /\ Record(t, ix, kind, name, source).name = name
           /\ Record(t, ix, kind, name, source).path = ix.path
  BY InstructionFields DEF Record, OfTransaction, OccurrencePath

\* Records of one kind, one for each of some names.
RecordsOfNames(t, ix, kind, names, source) ==
    [i \in 1..Len(names) |-> Record(t, ix, kind, names[i], source)]

LEMMA Named ==
    ASSUME NEW t, NEW ix \in Instruction, NEW kind \in Kind, NEW source \in Source,
           NEW names \in Seq(Name)
    PROVE  /\ RecordsOfNames(t, ix, kind, names, source) \in Seq(OfTransaction(t))
           /\ kind # "event_decode_failure" =>
                  Told(RecordsOfNames(t, ix, kind, names, source)) = At(ix.path, ToSet(names))
  <1> DEFINE record(i) == Record(t, ix, kind, names[i], source)
             records == RecordsOfNames(t, ix, kind, names, source)
  <1>1. Len(names) \in Nat /\ ToSet(names) = {names[i] : i \in 1..Len(names)}
    BY DEF ToSet
  <1>2. ASSUME NEW i \in 1..Len(names)
        PROVE  /\ record(i) \in OfTransaction(t) /\ record(i).kind = kind
               /\ record(i).name = names[i] /\ record(i).path = ix.path
    BY Recorded
  <1> HIDE DEF record
  <1>3. records = [i \in 1..Len(names) |-> record(i)]
    BY DEF RecordsOfNames, record
  <1> HIDE DEF records
  <1>4. records \in Seq(OfTransaction(t))
    BY <1>1, <1>2, <1>3
  <1>5. ToSet(records) = {record(i) : i \in 1..Len(names)}
    BY <1>1, <1>3 DEF ToSet
  <1>6. ASSUME kind # "event_decode_failure"
        PROVE  Told(records) = At(ix.path, ToSet(names))
    <2>1. {r \in ToSet(records) : r.kind # "event_decode_failure"} = {record(i) : i \in 1..Len(names)}
      BY <1>2, <1>5, <1>6
    <2>2. Told(records) = {<<r.path, r.name>> : r \in {record(i) : i \in 1..Len(names)}}
      BY <2>1 DEF Told
    <2>3. @ = {<<record(i).path, record(i).name>> : i \in 1..Len(names)}
      BY Zenon
    <2>4. @ = {<<ix.path, names[i]>> : i \in 1..Len(names)}
      BY <1>2, Zenon
    <2> QED
      BY <1>1, <2>2, <2>3, <2>4 DEF At
  <1> QED
    BY <1>4, <1>6 DEF records

\* A child is below its parent and one level deeper.
LEMMA ChildPath ==
    ASSUME NEW p \in Seq(Nat), NEW c \in Seq(Nat), c # <<>>
    PROVE  Len(c) = Len(p) + 1 /\ IsPrefix(p, c) <=> Front(c) = p
  <1>1. Len(c) \in Nat \ {0} /\ Len(p) \in Nat /\ SubSeq(p, 1, Len(p)) = p
    BY SubSeqFull
  <1>2. Len(Front(c)) = Len(c) - 1
    <2>1. 1 \in Nat \ {0} /\ Len(c) - 1 \in 0..Len(c)
      BY <1>1
    <2>2. Len(SubSeq(c, 1, Len(c) - 1)) = IF 1 <= Len(c) - 1 THEN Len(c) - 1 - 1 + 1 ELSE 0
      BY <2>1, Slice
    <2>3. Front(c) = SubSeq(c, 1, Len(c) - 1)
      BY DEF Front
    <2> DEFINE front == SubSeq(c, 1, Len(c) - 1)
               n == Len(c)
    <2>4. n \in Nat \ {0} /\ Len(front) = IF 1 <= n - 1 THEN n - 1 - 1 + 1 ELSE 0
      BY <1>1, <2>2
    <2> HIDE DEF front, n
    <2>5. Len(front) = n - 1
      BY <2>4
    <2> QED
      BY <2>3, <2>5 DEF front, n
  <1>3. ASSUME Len(c) = Len(p) + 1, IsPrefix(p, c) PROVE Front(c) = p
    BY <1>1, <1>3 DEF Front, IsPrefix
  <1>4. ASSUME Front(c) = p PROVE Len(c) = Len(p) + 1 /\ IsPrefix(p, c)
    <2>1. Len(c) = Len(p) + 1 /\ Len(p) = Len(c) - 1 /\ Len(p) <= Len(c)
      BY <1>1, <1>2, <1>4
    <2> QED
      BY <1>1, <1>4, <2>1 DEF Front, IsPrefix
  <1> QED
    BY <1>3, <1>4

\* The calls of its own program that an instruction emitted events with.
Emitting(calls, ix) ==
    {c \in ToSet(calls) : c.program = ix.program /\ c.kind = "cpi_event" /\ Front(c.path) = ix.path}

LEMMA Payloads ==
    ASSUME NEW calls \in Seq(Instruction), NEW ix \in Instruction
    PROVE  /\ ChildPayloads(calls, ix) \in Seq(STRING)
           /\ ToSet(ChildPayloads(calls, ix)) = {c.payload : c \in Emitting(calls, ix)}
           /\ LogPayloads(ix) \in Seq(STRING)
  <1> DEFINE kids   == Children(calls, ix)
             events == Only(kids, {c \in ToSet(calls) : c.program = ix.program /\ c.kind = "cpi_event"})
  <1>1. \A c \in ToSet(calls) : c \in Instruction
    BY DEF ToSet
  <1>2. \A c \in ToSet(calls) :
            Len(c.path) = Len(ix.path) + 1 /\ IsPrefix(ix.path, c.path) <=> Front(c.path) = ix.path
    BY <1>1, InstructionFields, ChildPath
  <1>3. kids \in Seq(Instruction) /\ ToSet(kids) = {c \in ToSet(calls) : Front(c.path) = ix.path}
    <2> DEFINE keep == {c \in ToSet(calls) : Len(c.path) = Len(ix.path) + 1 /\ IsPrefix(ix.path, c.path)}
    <2>1. Only(calls, keep) \in Seq(Instruction) /\ ToSet(Only(calls, keep)) = ToSet(calls) \intersect keep
      BY Selecting
    <2>2. keep = {c \in ToSet(calls) : Front(c.path) = ix.path}
      BY <1>2
    <2>3. kids = Only(calls, keep)
      BY DEF Children
    <2> QED
      BY <2>1, <2>2, <2>3
  <1> HIDE DEF kids
  <1>4. events \in Seq(Instruction) /\ ToSet(events) = Emitting(calls, ix)
    BY <1>3, Selecting DEF Emitting
  <1>5. ChildPayloads(calls, ix) = [i \in 1..Len(events) |-> events[i].payload]
    BY DEF ChildPayloads, kids
  <1> HIDE DEF events
  <1>6. \A i \in 1..Len(events) : events[i] \in Instruction /\ events[i].payload \in STRING
    BY <1>4, InstructionFields
  <1>7. ToSet(events) = {events[i] : i \in 1..Len(events)}
    BY <1>4 DEF ToSet
  <1>8. Len(events) \in Nat
    BY <1>4
  <1> DEFINE payloads == [i \in 1..Len(events) |-> events[i].payload]
  <1>9. payloads \in Seq(STRING) /\ ToSet(payloads) = {events[i].payload : i \in 1..Len(events)}
    BY <1>6, <1>8 DEF ToSet
  <1>10. {events[i].payload : i \in 1..Len(events)} = {c.payload : c \in Emitting(calls, ix)}
    BY <1>4, <1>7
  <1>11. LogPayloads(ix) \in Seq(STRING)
    BY InstructionFields DEF LogPayloads
  <1> QED
    BY <1>5, <1>9, <1>10, <1>11

LEMMA Decoding ==
    ASSUME NEW payloads \in Seq(STRING)
    PROVE  Decoded(payloads) \in Seq(Name) /\ ToSet(Decoded(payloads)) = ToSet(payloads) \ {"garbage"}
  <1>1. payloads \in Seq(Name)
    BY DEF Name
  <1> QED
    BY <1>1, Selecting DEF Decoded

\* The events that an instruction emitted, in the words of a reader.
Emitted(calls, ix) ==
    (ToSet(ix.logs) \union {c.payload : c \in Emitting(calls, ix)}) \ {"garbage"}

LEMMA EventsTold ==
    ASSUME NEW t, NEW calls \in Seq(Instruction), NEW ix \in Instruction
    PROVE  /\ EventRecords(t, calls, ix) \in Seq(OfTransaction(t))
           /\ Told(EventRecords(t, calls, ix)) =
                  IF ix.kind = "cpi_event" THEN {} ELSE At(ix.path, Emitted(calls, ix))
  <1> DEFINE sources == [log |-> LogPayloads(ix), cpi |-> ChildPayloads(calls, ix)]
             Failure(source) ==
                 IF Rejected(sources[source]) = <<>> THEN <<>>
                 ELSE <<[Record(t, ix, "event_decode_failure", ix.kind, source) EXCEPT !.path = <<>>]>>
             Events(source) ==
                 LET decoded == Decoded(sources[source])
                 IN [i \in 1..Len(decoded) |-> Record(t, ix, "program_event", decoded[i], source)]
  <1>1. ASSUME NEW source \in {"log", "cpi"}
        PROVE  sources[source] \in Seq(STRING) /\ source \in Source
    <2>1. LogPayloads(ix) \in Seq(STRING) /\ ChildPayloads(calls, ix) \in Seq(STRING)
      BY Payloads
    <2>2. sources["log"] = LogPayloads(ix) /\ sources["cpi"] = ChildPayloads(calls, ix)
      OBVIOUS
    <2> HIDE DEF sources
    <2> QED
      BY <2>1, <2>2 DEF Source
  <1>2. ASSUME NEW source \in {"log", "cpi"}
        PROVE  Failure(source) \in Seq(OfTransaction(t)) /\ Told(Failure(source)) = {}
    <2> DEFINE r == [Record(t, ix, "event_decode_failure", ix.kind, source) EXCEPT !.path = <<>>]
    <2>1. r \in OfTransaction(t) /\ r.kind = "event_decode_failure"
      <3>1. <<>> \in Seq(Nat) /\ ix.kind \in Name /\ source \in Source
        BY <1>1, InstructionFields DEF Name
      <3>2. r = [signature |-> t, path |-> <<>>, kind |-> "event_decode_failure", name |-> ix.kind,
                 source |-> source]
        BY DEF Record
      <3> QED
        BY <3>1, <3>2 DEF OfTransaction, Kind
    <2> HIDE DEF r
    <2>0. <<>> \in Seq(OfTransaction(t)) /\ <<r>> \in Seq(OfTransaction(t))
      BY <2>1
    <2>2. Failure(source) \in {<<>>, <<r>>}
      BY DEF r
    <2>3. ToSet(<<>>) = {} /\ ToSet(<<r>>) = {r}
      BY DEF ToSet
    <2>4. Told(<<>>) = {} /\ Told(<<r>>) = {}
      BY <2>1, <2>3 DEF Told
    <2> HIDE DEF Failure
    <2> QED
      BY <2>0, <2>2, <2>4
  <1>3. ASSUME NEW source \in {"log", "cpi"}
        PROVE  /\ Events(source) \in Seq(OfTransaction(t))
               /\ Told(Events(source)) = At(ix.path, ToSet(sources[source]) \ {"garbage"})
    <2> DEFINE decoded == Decoded(sources[source])
               kind == "program_event"
               from == source
    <2>1. decoded \in Seq(Name) /\ ToSet(decoded) = ToSet(sources[source]) \ {"garbage"}
      BY <1>1, Decoding
    <2>2. Events(source) = RecordsOfNames(t, ix, kind, decoded, from)
      BY DEF RecordsOfNames
    <2>3. from \in Source /\ kind \in Kind /\ kind # "event_decode_failure"
      BY DEF Source, Kind
    <2> HIDE DEF decoded, Events, sources, kind, from
    <2>4. /\ RecordsOfNames(t, ix, kind, decoded, from) \in Seq(OfTransaction(t))
          /\ Told(RecordsOfNames(t, ix, kind, decoded, from)) = At(ix.path, ToSet(decoded))
      <3>1. decoded \in Seq(Name) /\ from \in Source /\ kind \in Kind
        BY <2>1, <2>3
      <3>2. /\ RecordsOfNames(t, ix, kind, decoded, from) \in Seq(OfTransaction(t))
            /\ kind # "event_decode_failure" =>
                   Told(RecordsOfNames(t, ix, kind, decoded, from)) = At(ix.path, ToSet(decoded))
        BY <3>1, Named
      <3> QED
        BY <2>3, <3>2
    <2> QED
      BY <2>1, <2>2, <2>4
  <1>4. sources["log"] = ix.logs /\ ToSet(sources["cpi"]) = {c.payload : c \in Emitting(calls, ix)}
    BY Payloads DEF LogPayloads
  <1>5. EventRecords(t, calls, ix) =
            IF ix.kind = "cpi_event" THEN <<>>
            ELSE Failure("log") \o Failure("cpi") \o Events("log") \o Events("cpi")
    BY DEF EventRecords
  <1>6. <<>> \in Seq(OfTransaction(t)) /\ Told(<<>>) = {}
    BY DEF Told, ToSet
  <1> DEFINE a == Failure("log")
             b == Failure("cpi")
             c == Events("log")
             d == Events("cpi")
  <1>7. /\ a \in Seq(OfTransaction(t)) /\ b \in Seq(OfTransaction(t))
        /\ c \in Seq(OfTransaction(t)) /\ d \in Seq(OfTransaction(t))
        /\ Told(a) = {} /\ Told(b) = {}
        /\ Told(c) \union Told(d) = At(ix.path, Emitted(calls, ix))
    <2>1. /\ Told(c) = At(ix.path, ToSet(sources["log"]) \ {"garbage"})
          /\ Told(d) = At(ix.path, ToSet(sources["cpi"]) \ {"garbage"})
      BY <1>3
    <2> QED
      BY <1>2, <1>3, <1>4, <2>1 DEF Emitted, At
  <1>8. EventRecords(t, calls, ix) = IF ix.kind = "cpi_event" THEN <<>> ELSE a \o b \o c \o d
    BY <1>5
  <1> HIDE DEF a, b, c, d
  <1>9. a \o b \in Seq(OfTransaction(t)) /\ a \o b \o c \in Seq(OfTransaction(t))
    BY <1>7
  <1>10. a \o b \o c \o d \in Seq(OfTransaction(t))
    BY <1>7, <1>9
  <1>11. Told(a \o b \o c \o d) = Told(a) \union Told(b) \union Told(c) \union Told(d)
    <2> DEFINE e == a \o b
               f == e \o c
    <2>0. e \in Seq(OfTransaction(t)) /\ f \in Seq(OfTransaction(t))
      BY <1>9
    <2>3. Told(e) = Told(a) \union Told(b)
      BY <1>7, ToldTogether
    <2> HIDE DEF e
    <2>2. Told(f) = Told(e) \union Told(c)
      BY <1>7, <2>0, ToldTogether
    <2> HIDE DEF f
    <2>1. Told(f \o d) = Told(f) \union Told(d)
      BY <1>7, <2>0, ToldTogether
    <2> USE DEF e, f
    <2> QED
      BY <2>1, <2>2, <2>3
  <1> QED
    BY <1>6, <1>7, <1>8, <1>10, <1>11

LEMMA OneOrTwo ==
    /\ \A a : <<a>> \in Seq(ToSet(<<a>>))
    /\ \A a, b : <<a, b>> \in Seq(ToSet(<<a, b>>))
  <1>1. ASSUME NEW a PROVE <<a>> \in Seq(ToSet(<<a>>))
    <2>1. a \in ToSet(<<a>>)
      BY DEF ToSet
    <2> QED
      BY <2>1
  <1>2. ASSUME NEW a, NEW b PROVE <<a, b>> \in Seq(ToSet(<<a, b>>))
    <2>1. <<a, b>>[1] \in ToSet(<<a, b>>) /\ <<a, b>>[2] \in ToSet(<<a, b>>)
      BY DEF ToSet
    <2>2. a \in ToSet(<<a, b>>) /\ b \in ToSet(<<a, b>>)
      BY <2>1
    <2> QED
      BY <2>2
  <1> QED
    BY <1>1, <1>2

LEMMA ActionsTyped ==
    ASSUME NEW version \in Version, NEW ix \in Instruction, ix.program = version
    PROVE  Actions(version, ix) \in Seq(Name)
  <1>1. ix.kind \in DOMAIN ActionsOfKind /\ ix.applied \in Seq(STRING)
    BY InstructionFields
  <1>2. ASSUME NEW k \in DOMAIN ActionsOfKind
        PROVE  (\E a : ActionsOfKind[k] = <<a>>) \/ (\E a, b : ActionsOfKind[k] = <<a, b>>)
    BY DEF ActionsOfKind
  <1>3. ActionsOfKind[ix.kind] \in Seq(ToSet(ActionsOfKind[ix.kind]))
    <2> DEFINE names == ActionsOfKind[ix.kind]
    <2>1. (\E a : names = <<a>>) \/ (\E a, b : names = <<a, b>>)
      BY <1>1, <1>2
    <2> HIDE DEF names
    <2>2. names \in Seq(ToSet(names))
      <3>1. CASE \E a : names = <<a>>
        <4>1. PICK a : names = <<a>>
          BY <3>1
        <4>2. <<a>> \in Seq(ToSet(<<a>>))
          BY OneOrTwo
        <4> QED
          BY <4>1, <4>2
      <3>2. CASE \E a, b : names = <<a, b>>
        <4>1. PICK a, b : names = <<a, b>>
          BY <3>2
        <4>2. <<a, b>> \in Seq(ToSet(<<a, b>>))
          BY OneOrTwo
        <4> QED
          BY <4>1, <4>2
      <3> QED
        BY <2>1, <3>1, <3>2
    <2> QED
      BY <2>2 DEF names
  <1>4. ToSet(ActionsOfKind[ix.kind]) \subseteq Name
    BY <1>1 DEF Name
  <1> DEFINE names == ActionsOfKind[ix.kind]
             applied == AppliedSettingsActions(version, ix)
  <1>5. names \in Seq(Name)
    BY <1>3, <1>4
  <1>6. applied \in Seq(Name)
    <2>1. ix.applied \in Seq(Name) /\ <<>> \in Seq(Name)
      BY <1>1 DEF Name
    <2> QED
      BY <2>1 DEF AppliedSettingsActions
  <1>7. Actions(version, ix) = names \o applied
    BY DEF Actions
  <1> HIDE DEF names, applied
  <1> QED
    BY <1>5, <1>6, <1>7

LEMMA MultisigTold ==
    ASSUME NEW t, NEW m, NEW ix \in Instruction, m.version \in Version, ix.program = m.version
    PROVE  /\ MultisigRecords(t, m, ix) \in Seq(OfTransaction(t))
           /\ Told(MultisigRecords(t, m, ix)) =
                  IF MatchesState(m, ix) THEN At(ix.path, ToSet(Actions(m.version, ix))) ELSE {}
  <1> DEFINE actions == Actions(m.version, ix)
             kind    == "multisig_activity"
             source  == "none"
  <1>1. actions \in Seq(Name)
    BY ActionsTyped
  <1>2. kind \in Kind /\ source \in Source /\ kind # "event_decode_failure"
    BY DEF Kind, Source
  <1>3. <<>> \in Seq(OfTransaction(t)) /\ Told(<<>>) = {}
    BY DEF Told, ToSet
  <1>4. MultisigRecords(t, m, ix) =
            IF MatchesState(m, ix) THEN RecordsOfNames(t, ix, kind, actions, source) ELSE <<>>
    BY DEF MultisigRecords, RecordsOfNames
  <1> HIDE DEF actions, kind, source
  <1>5. kind \in Kind /\ source \in Source
    BY <1>2
  <1>6. /\ RecordsOfNames(t, ix, kind, actions, source) \in Seq(OfTransaction(t))
        /\ kind # "event_decode_failure" =>
               Told(RecordsOfNames(t, ix, kind, actions, source)) = At(ix.path, ToSet(actions))
    BY <1>1, <1>5, Named
  <1> QED
    BY <1>2, <1>3, <1>4, <1>6 DEF actions

LEMMA ProgramTold ==
    ASSUME NEW t, NEW calls \in Seq(Instruction), NEW ix \in Instruction
    PROVE  /\ ProgramRecords(t, calls, ix) \in Seq(OfTransaction(t))
           /\ Told(ProgramRecords(t, calls, ix)) =
                  {<<ix.path, ix.kind>>} \union
                  (IF ix.kind = "cpi_event" THEN {} ELSE At(ix.path, Emitted(calls, ix)))
  <1> DEFINE kind   == "program_instruction"
             source == "none"
             r      == Record(t, ix, kind, ix.kind, source)
             first  == <<r>>
             events == EventRecords(t, calls, ix)
  <1>1. kind \in Kind /\ source \in Source /\ kind # "event_decode_failure"
    BY DEF Kind, Source
  <1>2. ix.kind \in Name
    BY InstructionFields DEF Name
  <1>3. ProgramRecords(t, calls, ix) = first \o events
    BY DEF ProgramRecords
  <1> HIDE DEF kind, source
  <1>4. kind \in Kind /\ source \in Source
    BY <1>1
  <1>5. r \in OfTransaction(t) /\ r.kind = kind /\ r.name = ix.kind /\ r.path = ix.path
    BY <1>2, <1>4, Recorded
  <1> HIDE DEF r
  <1>6. first \in Seq(OfTransaction(t)) /\ Told(first) = {<<ix.path, ix.kind>>}
    <2>1. ToSet(first) = {r}
      BY DEF ToSet
    <2>2. {e \in ToSet(first) : e.kind # "event_decode_failure"} = {r}
      BY <1>1, <1>5, <2>1
    <2>3. Told(first) = {<<e.path, e.name>> : e \in {r}}
      BY <2>2 DEF Told
    <2>4. @ = {<<r.path, r.name>>}
      OBVIOUS
    <2> QED
      BY <1>5, <2>3, <2>4
  <1>7. /\ events \in Seq(OfTransaction(t))
        /\ Told(events) = IF ix.kind = "cpi_event" THEN {} ELSE At(ix.path, Emitted(calls, ix))
    BY EventsTold
  <1> HIDE DEF first, events
  <1>8. first \o events \in Seq(OfTransaction(t)) /\ Told(first \o events) = Told(first) \union Told(events)
    BY <1>6, <1>7, ToldTogether
  <1> QED
    BY <1>3, <1>6, <1>7, <1>8

\* What is told of one instruction.
ToldOf(calls, m, ix) ==
    IF ix.program = "monitored" /\ Decodes(ix)
    THEN {<<ix.path, ix.kind>>} \union
         (IF ix.kind = "cpi_event" THEN {} ELSE At(ix.path, Emitted(calls, ix)))
    ELSE IF ix.program = m.version /\ MatchesState(m, ix)
    THEN At(ix.path, ToSet(Actions(m.version, ix)))
    ELSE {}

LEMMA InstructionTold ==
    ASSUME NEW t, NEW calls \in Seq(Instruction), NEW m, m.version \in Version, NEW ix \in Instruction
    PROVE  /\ InstructionRecords(t, calls, m, ix) \in Seq(OfTransaction(t))
           /\ Told(InstructionRecords(t, calls, m, ix)) = ToldOf(calls, m, ix)
  <1>1. m.version # "monitored"
    BY DEF Version, ProgramWide
  <1>2. CASE ix.program = "monitored" /\ Decodes(ix)
    <2>1. InstructionRecords(t, calls, m, ix) = ProgramRecords(t, calls, ix)
      BY <1>1, <1>2 DEF InstructionRecords
    <2> QED
      BY <1>2, <2>1, ProgramTold DEF ToldOf
  <1>3. CASE ix.program = m.version
    <2>1. InstructionRecords(t, calls, m, ix) = MultisigRecords(t, m, ix)
      BY <1>1, <1>3 DEF InstructionRecords
    <2> QED
      BY <1>1, <1>3, <2>1, MultisigTold DEF ToldOf
  <1>4. CASE ~(ix.program = "monitored" /\ Decodes(ix)) /\ ix.program # m.version
    <2>1. InstructionRecords(t, calls, m, ix) = <<>>
      BY <1>4 DEF InstructionRecords
    <2>2. <<>> \in Seq(OfTransaction(t)) /\ Told(<<>>) = {}
      BY DEF Told, ToSet
    <2> QED
      BY <1>4, <2>1, <2>2 DEF ToldOf
  <1> QED
    BY <1>2, <1>3, <1>4

ToldOfAll(calls, m) == UNION {ToldOf(calls, m, ix) : ix \in ToSet(calls)}

\* What a transaction's records tell is what is told of its instructions.
LEMMA TransactionTold ==
    ASSUME NEW t, NEW calls \in Seq(Instruction), NEW m, m.version \in Version
    PROVE  /\ TransactionRecords(t, calls, m) \in Seq(OfTransaction(t))
           /\ Told(TransactionRecords(t, calls, m)) = ToldOfAll(calls, m)
  <1> DEFINE of(i)  == InstructionRecords(t, calls, m, calls[i])
             parts  == [i \in 1..Len(calls) |-> of(i)]
             all    == TransactionRecords(t, calls, m)
  <1>1. Len(calls) \in Nat /\ DOMAIN calls = 1..Len(calls) /\ \A i \in 1..Len(calls) : calls[i] \in Instruction
    OBVIOUS
  <1>2. \A i \in 1..Len(calls) : /\ of(i) \in Seq(OfTransaction(t))
                                 /\ Told(of(i)) = ToldOf(calls, m, calls[i])
    BY <1>1, InstructionTold
  <1> HIDE DEF of
  <1>3. parts \in Seq(Seq(OfTransaction(t))) /\ DOMAIN parts = 1..Len(calls)
    BY <1>1, <1>2
  <1>4. all = FlattenSeq(parts)
    BY DEF TransactionRecords, of
  <1>5. all \in Seq(OfTransaction(t)) /\ ToSet(all) = UNION {ToSet(parts[i]) : i \in 1..Len(calls)}
    <2> HIDE DEF parts, all
    <2> QED
      BY <1>3, <1>4, Flattening
  <1>6. ToSet(all) = UNION {ToSet(of(i)) : i \in 1..Len(calls)}
    BY <1>5
  <1> HIDE DEF all, parts
  <1>7. Told(all) = UNION {Told(of(i)) : i \in 1..Len(calls)}
    BY <1>6 DEF Told
  <1>8. @ = UNION {ToldOf(calls, m, calls[i]) : i \in 1..Len(calls)}
    BY <1>2
  <1>9. @ = UNION {ToldOf(calls, m, ix) : ix \in ToSet(calls)}
    BY <1>1 DEF ToSet
  <1> QED
    BY <1>5, <1>7, <1>8, <1>9 DEF all, ToldOfAll

-------------------------------------------------------------------------------
(* The ledger, and what is made of its transactions. *)

LEMMA LedgerFields ==
    ASSUME NEW t \in Transaction
    PROVE  /\ Ledger[t].calls \in Seq(Instruction) /\ Ledger[t].touches \subseteq Address
           /\ Ledger[t].time \in Nat /\ Ledger[t].listed \in {Ledger[t].time, Nothing}
           /\ t \in Nat /\ t # Nothing /\ t \in 1..Len(Ledger) /\ Len(Ledger) \in Nat
  <1>1. /\ Ledger \in Seq([calls : Seq(Instruction), touches : SUBSET Address, time : Nat,
                          listed : Nat \union {Nothing}])
        /\ t \in 1..Len(Ledger)
    BY LedgerAssumption DEF Transaction
  <1>2. Len(Ledger) \in Nat
    BY <1>1
  <1> DEFINE entry == [calls : Seq(Instruction), touches : SUBSET Address, time : Nat,
                       listed : Nat \union {Nothing}]
  <1>3. Ledger[t] \in entry
    <2>1. Ledger \in Seq(entry)
      BY <1>1
    <2> HIDE DEF entry
    <2>2. Ledger[t] \in entry
      BY <1>1, <2>1
    <2> QED
      BY <2>2
  <1>4. t \in Nat /\ t # Nothing
    BY <1>1, <1>2 DEF Nothing
  <1> QED
    BY <1>1, <1>2, <1>3, <1>4, LedgerAssumption

LEMMA RecordsTyped ==
    ASSUME NEW s \in Settings, NEW t \in Transaction
    PROVE  /\ RecordsOf[s.multisig][t] = TransactionRecords(t, Ledger[t].calls, s.multisig)
           /\ RecordsOf[s.multisig][t] \in Seq(OfTransaction(t))
           /\ ToSet(RecordsOf[s.multisig][t]) \subseteq Recordable
           /\ Told(RecordsOf[s.multisig][t]) = ToldOfAll(Ledger[t].calls, s.multisig)
  <1>1. RecordsOf[s.multisig][t] = TransactionRecords(t, Ledger[t].calls, s.multisig)
    BY DEF RecordsOf
  <1>2. Ledger[t].calls \in Seq(Instruction) /\ s.multisig.version \in Version
    BY LedgerFields, SettingsAssumption
  <1>3. ToSet(RecordsOf[s.multisig][t]) \subseteq Recordable
    BY DEF Recordable
  <1> QED
    BY <1>1, <1>2, <1>3, TransactionTold

\* The records of a transaction are what a reader of the ledger expects.
LEMMA AsExpected ==
    ASSUME settings \in Settings, NEW t \in Transaction
    PROVE  Told(RecordsOf[multisig][t]) = Expected(t)
  <1> DEFINE calls == Ledger[t].calls
             cs    == ToSet(calls)
             known == {ix \in cs : Decodes(ix)}
             Monitored == {ix \in known : ix.program = "monitored"}
             Ours      == {ix \in known : ix.program = multisig.version}
  <1>1. multisig.version # "monitored" /\ multisig = settings.multisig
    BY SettingsAssumption DEF multisig, Version, ProgramWide
  <1>2. Told(RecordsOf[multisig][t]) = UNION {ToldOf(calls, multisig, ix) : ix \in cs}
    <2>1. Told(RecordsOf[multisig][t]) = ToldOfAll(calls, multisig)
      BY <1>1, RecordsTyped
    <2> QED
      BY <2>1 DEF ToldOfAll
  <1> DEFINE One == {<<ix.path, ix.kind>> : ix \in Monitored}
             Two == UNION {{<<ix.path, e>> : e \in Emitted(calls, ix)} :
                              ix \in {i \in Monitored : i.kind # "cpi_event"}}
             Three == UNION {{<<ix.path, action>> : action \in ToSet(Actions(multisig.version, ix))} :
                              ix \in {i \in Ours : MatchesState(multisig, i)}}
  <1>3. Expected(t) = One \union Two \union Three
    <2> DEFINE emitted(ix) ==
                   ToSet(ix.logs) \union {child.payload : child \in
                       {c \in {i \in known : i.program = ix.program} :
                            c.kind = "cpi_event" /\ Front(c.path) = ix.path}}
               two == UNION {{<<ix.path, e>> : e \in emitted(ix) \ {"garbage"}} :
                                ix \in {i \in Monitored : i.kind # "cpi_event"}}
    <2>1. \A ix : Emitted(calls, ix) = emitted(ix) \ {"garbage"}
      BY DEF Emitted, Emitting, Decodes
    <2>2. Expected(t) = One \union two \union Three
      BY DEF Expected
    <2>3. Two = two
      <3> HIDE DEF emitted, Monitored
      <3> QED
        BY <2>1
    <2> QED
      BY <2>2, <2>3
  <1>4. ASSUME NEW ix \in cs
        PROVE  ToldOf(calls, multisig, ix) \subseteq One \union Two \union Three
    <2>1. CASE ix.program = "monitored" /\ Decodes(ix)
      <3>1. <<ix.path, ix.kind>> \in One
        BY <2>1
      <3>2. ix.kind # "cpi_event" => At(ix.path, Emitted(calls, ix)) \subseteq Two
        BY <2>1 DEF At
      <3> HIDE DEF One, Two, Three
      <3> QED
        BY <2>1, <3>1, <3>2 DEF ToldOf
    <2>2. CASE ix.program = multisig.version /\ MatchesState(multisig, ix)
      <3>1. ix \in Instruction /\ multisig.version \in Version
        BY <1>1, LedgerFields, SettingsAssumption DEF ToSet
      <3>2. Decodes(ix) /\ ix.program # "monitored"
        BY <1>1, <2>2, <3>1 DEF Instruction, ActionsOfKind, Decodes
      <3>3. At(ix.path, ToSet(Actions(multisig.version, ix))) \subseteq Three
        BY <2>2, <3>2 DEF At
      <3> HIDE DEF One, Two, Three
      <3> QED
        BY <2>2, <3>2, <3>3 DEF ToldOf
    <2>3. CASE /\ ~(ix.program = "monitored" /\ Decodes(ix))
               /\ ~(ix.program = multisig.version /\ MatchesState(multisig, ix))
      BY <2>3 DEF ToldOf
    <2> QED
      BY <2>1, <2>2, <2>3
  <1>5. ASSUME NEW p \in One \union Two \union Three
        PROVE  \E ix \in cs : p \in ToldOf(calls, multisig, ix)
    <2>1. CASE p \in One
      BY <2>1 DEF ToldOf
    <2>2. CASE p \in Two
      BY <2>2 DEF ToldOf, At
    <2>3. CASE p \in Three
      BY <1>1, <2>3 DEF ToldOf, At
    <2> QED
      BY <2>1, <2>2, <2>3
  <1> QED
    <2> HIDE DEF One, Two, Three, cs
    <2> QED
      BY <1>2, <1>3, <1>4, <1>5

-------------------------------------------------------------------------------
(* What is on its way. *)

\* The transactions that lie within the window as listed.
Within == {t \in Transaction : ~BeyondCutoff(t)}

\* An update is of one of them; a fetch may answer without its block time.
Sent == {u \in [tx : Within, time : Nat \union {Nothing}] : u.time \in {Ledger[u.tx].time, Nothing}}

\* What the pusher receives of an update is at most all its records.
Logged(m) == {k \in [update : Sent, count : Nat] : k.count <= Len(RecordsOf[m][k.update.tx])}

\* A line is a record under the block time of its transaction.
LinesOf(m, t) == {[time |-> Ledger[t].time, record |-> r] : r \in ToSet(RecordsOf[m][t])}
Line(m) == UNION {LinesOf(m, t) : t \in Within}

LEMMA LineFields ==
    ASSUME NEW s \in Settings, NEW e \in Line(s.multisig)
    PROVE  /\ e.record.signature \in Within
           /\ e.time = Ledger[e.record.signature].time
           /\ e.record \in ToSet(RecordsOf[s.multisig][e.record.signature])
           /\ e.time \in Nat /\ e \in [time : Nat, record : Recordable]
  <1>1. PICK t \in Within : e \in LinesOf(s.multisig, t)
    BY DEF Line
  <1>2. PICK r \in ToSet(RecordsOf[s.multisig][t]) : e = [time |-> Ledger[t].time, record |-> r]
    BY <1>1 DEF LinesOf
  <1>3. t \in Transaction
    BY DEF Within
  <1>4. RecordsOf[s.multisig][t] \in Seq(OfTransaction(t)) /\ r \in Recordable
    BY <1>2, <1>3, RecordsTyped
  <1>5. r \in OfTransaction(t)
    BY <1>2, <1>4 DEF ToSet
  <1>6. r.signature = t
    BY <1>5 DEF OfTransaction
  <1> QED
    BY <1>2, <1>3, <1>4, <1>6, LedgerFields

-------------------------------------------------------------------------------
(* Pages. *)

\* The signatures of an address come newest first, all that are no newer than the limit.
LEMMA Confirming ==
    ASSUME NEW a \in Address, NEW limit \in 0..Len(Ledger)
    PROVE  /\ Confirmed(a, limit) \in Seq(Transaction)
           /\ ToSet(Confirmed(a, limit)) = {t \in Transaction : t <= limit /\ a \in Ledger[t].touches}
           /\ \A p, q \in DOMAIN Confirmed(a, limit) : p < q => Confirmed(a, limit)[p] > Confirmed(a, limit)[q]
  <1> DEFINE down  == [i \in 1..limit |-> limit + 1 - i]
             keep  == {t \in Transaction : a \in Ledger[t].touches}
             Newer == {r \in Nat \X Nat : r[1] > r[2]}
  <1>1. Len(Ledger) \in Nat /\ limit \in Nat
    BY LedgerAssumption
  <1>2. down \in Seq(Transaction) /\ DOMAIN down = 1..limit
    BY <1>1 DEF Transaction
  <1>3. ToSet(down) = 1..limit
    <2>1. \A x \in 1..limit : limit + 1 - x \in 1..limit /\ down[limit + 1 - x] = x
      BY <1>1
    <2> QED
      BY <1>1, <2>1 DEF ToSet
  <1>4. Ordered(down, Newer)
    BY <1>1 DEF Ordered
  <1>5. Confirmed(a, limit) = Only(down, keep)
    BY DEF Confirmed
  <1> DEFINE listed == Only(down, keep)
  <1> HIDE DEF down, keep, Newer
  <1>6. listed \in Seq(Transaction) /\ ToSet(listed) = ToSet(down) \intersect keep /\ Ordered(listed, Newer)
    BY <1>2, <1>4, Selecting
  <1> HIDE DEF listed
  <1>7. ToSet(listed) = {t \in Transaction : t <= limit /\ a \in Ledger[t].touches}
    BY <1>1, <1>3, <1>6 DEF keep, Transaction
  <1>8. \A p, q \in DOMAIN listed : p < q => listed[p] > listed[q]
    BY <1>6 DEF Ordered, Newer
  <1> QED
    BY <1>5, <1>6, <1>7, <1>8 DEF listed

\* A page is cut at the first signature that lies beyond the cutoff.
LEMMA Cutting ==
    ASSUME NEW page \in Seq(Transaction)
    PROVE  \E k \in 0..Len(page) :
               /\ SelectSignatures(page).signatures = SubSeq(page, 1, k)
               /\ SelectSignatures(page).reachedCutoff = (k < Len(page))
               /\ \A i \in 1..k : ~BeyondCutoff(page[i])
               /\ k < Len(page) => BeyondCutoff(page[k + 1])
  <1> DEFINE beyond == {i \in 1..Len(page) : BeyondCutoff(page[i])}
             earliest == CHOOSE i \in beyond : \A j \in beyond : i <= j
             first  == IF beyond = {} THEN Len(page) + 1 ELSE earliest
             k      == first - 1
  <1>1. Len(page) \in Nat
    OBVIOUS
  <1>2. beyond # {} => earliest \in beyond /\ \A j \in beyond : earliest <= j
    <2>1. beyond \in SUBSET Nat
      OBVIOUS
    <2> HIDE DEF beyond
    <2>2. beyond # {} => \E i \in beyond : \A j \in beyond : i <= j
      BY <2>1, LeastNumber
    <2> QED
      BY <2>2
  <1>3. SelectSignatures(page) = [signatures |-> SubSeq(page, 1, k), reachedCutoff |-> beyond # {}]
    BY DEF SelectSignatures
  <1> HIDE DEF earliest
  <1>4. CASE beyond = {}
    <2>1. k = Len(page) /\ k \in 0..Len(page)
      BY <1>1, <1>4
    <2>2. \A i \in 1..Len(page) : ~BeyondCutoff(page[i])
      BY <1>4
    <2> HIDE DEF k, beyond
    <2> QED
      BY <1>1, <1>3, <1>4, <2>1, <2>2
  <1>5. CASE beyond # {}
    <2>1. first = earliest /\ earliest \in 1..Len(page) /\ BeyondCutoff(page[earliest])
      BY <1>2, <1>5
    <2>2. k \in 0..Len(page) /\ k < Len(page) /\ k + 1 = earliest
      BY <1>1, <2>1
    <2>3. ASSUME NEW i \in 1..k PROVE ~BeyondCutoff(page[i])
      <3>1. i \in 1..Len(page) /\ ~(earliest <= i)
        BY <1>1, <2>1, <2>2
      <3> QED
        BY <1>2, <1>5, <3>1
    <2> HIDE DEF k, beyond
    <2> QED
      BY <1>3, <1>5, <2>1, <2>2, <2>3
  <1> QED
    BY <1>4, <1>5

\* Where a page begins.
Limit(before) == IF before = Nothing THEN head ELSE before - 1

\* A page yields whatever of the window is left of the address, or leaves it behind its
\* cursor for the next one.
LEMMA PageCovers ==
    ASSUME head \in Nat, head <= Len(Ledger), ConfirmedAtStart <= head,
           NEW a \in Address, NEW before \in Transaction \union {Nothing}
    PROVE  LET page     == Page(a, before)
               selected == SelectSignatures(page)
           IN  /\ selected.signatures \in Seq(Within)
               /\ selected.signatures # <<>> => CursorAfter(selected) \in Transaction
               /\ IsLastPage(page, selected) \in BOOLEAN
               /\ \A t \in Transaction : InWindow(t) /\ a \in Ledger[t].touches /\ (before = Nothing \/ t < before) =>
                      /\ selected.signatures # <<>>
                      /\ \/ t \in ToSet(selected.signatures)
                         \/ ~IsLastPage(page, selected) /\ t < CursorAfter(selected)
  <1> DEFINE page     == Page(a, before)
             selected == SelectSignatures(page)
             limit    == Limit(before)
             listed   == Confirmed(a, limit)
             m        == IF Len(listed) < PageLimit THEN Len(listed) ELSE PageLimit
  <1>1. limit \in 0..Len(Ledger) /\ Len(Ledger) \in Nat /\ PageLimit \in Nat \ {0} /\ ConfirmedAtStart \in Nat
    BY BackfillAssumption, LedgerAssumption DEF Limit, Transaction, Nothing
  <1>2. /\ listed \in Seq(Transaction)
        /\ ToSet(listed) = {t \in Transaction : t <= limit /\ a \in Ledger[t].touches}
        /\ \A p, q \in DOMAIN listed : p < q => listed[p] > listed[q]
    BY <1>1, Confirming
  <1>3. page = SubSeq(listed, 1, m)
    BY DEF Page, Limit
  <1> HIDE DEF listed, limit
  <1>4. Len(listed) \in Nat /\ m \in 0..Len(listed) /\ DOMAIN listed = 1..Len(listed)
    BY <1>1, <1>2
  <1>15. m < Len(listed) => m = PageLimit
    <2> DEFINE n == Len(listed)
    <2>1. n \in Nat /\ PageLimit \in Nat /\ m = (IF n < PageLimit THEN n ELSE PageLimit)
      BY <1>1, <1>4
    <2> HIDE DEF n, m
    <2>2. m < n => m = PageLimit
      BY <2>1
    <2> QED
      BY <2>2 DEF n
  <1>5. page \in Seq(Transaction) /\ Len(page) = m /\ \A i \in 1..m : page[i] = listed[i]
    <2> HIDE DEF m, page
    <2>1. /\ SubSeq(listed, 1, m) \in Seq(Transaction)
          /\ Len(SubSeq(listed, 1, m)) = IF 1 <= m THEN m - 1 + 1 ELSE 0
          /\ \A i \in 1..m - 1 + 1 : SubSeq(listed, 1, m)[i] = listed[1 + i - 1]
      BY <1>2, <1>4, Slice
    <2>2. m \in Nat /\ m - 1 + 1 = m /\ \A i \in 1..m : 1 + i - 1 = i
      BY <1>4
    <2>3. (IF 1 <= m THEN m - 1 + 1 ELSE 0) = m
      BY <2>2
    <2> QED
      BY <1>3, <2>1, <2>2, <2>3
  <1> HIDE DEF page
  <1>6. PICK k \in 0..Len(page) : /\ selected.signatures = SubSeq(page, 1, k)
                                  /\ selected.reachedCutoff = (k < Len(page))
                                  /\ \A i \in 1..k : ~BeyondCutoff(page[i])
                                  /\ k < Len(page) => BeyondCutoff(page[k + 1])
    BY <1>5, Cutting
  <1> DEFINE signatures == SubSeq(page, 1, k)
  <1>7. /\ k \in Nat /\ k <= m
        /\ signatures \in Seq(Transaction) /\ Len(signatures) = k
        /\ \A i \in 1..k : signatures[i] = listed[i]
    <2>1. k \in 0..Len(page) /\ k \in Nat /\ k <= m
      BY <1>4, <1>5, <1>6
    <2>2. /\ signatures \in Seq(Transaction)
          /\ Len(signatures) = IF 1 <= k THEN k - 1 + 1 ELSE 0
          /\ \A i \in 1..k - 1 + 1 : signatures[i] = page[1 + i - 1]
      BY <1>5, <2>1, Slice
    <2>3. k - 1 + 1 = k /\ (IF 1 <= k THEN k - 1 + 1 ELSE 0) = k /\ \A i \in 1..k : 1 + i - 1 = i /\ i \in 1..m
      BY <1>4, <2>1
    <2> HIDE DEF signatures
    <2> QED
      BY <1>5, <2>1, <2>2, <2>3
  <1> HIDE DEF signatures, m
  <1>8. signatures \in Seq(Within)
    <2>1. \A i \in 1..k : signatures[i] \in Transaction /\ ~BeyondCutoff(signatures[i])
      <3>1. \A i \in 1..k : i \in 1..m
        BY <1>4, <1>7
      <3> QED
        BY <1>5, <1>6, <1>7, <3>1
    <2> QED
      BY <1>7, <2>1 DEF Within
  <1>9. k # 0 => CursorAfter(selected) = listed[k] /\ listed[k] \in Transaction
    <2>1. Last(signatures) = signatures[k]
      BY <1>7 DEF Last
    <2>2. k # 0 => k \in 1..k
      BY <1>7
    <2> QED
      BY <1>6, <1>7, <2>1, <2>2 DEF CursorAfter, signatures
  <1>10. signatures = <<>> <=> k = 0
    BY <1>7
  <1>11. IsLastPage(page, selected) = (k < m \/ m < PageLimit)
    BY <1>5, <1>6 DEF IsLastPage
  <1>12. ASSUME NEW t \in Transaction, InWindow(t), a \in Ledger[t].touches, before = Nothing \/ t < before
         PROVE  k # 0 /\ (t \in ToSet(signatures) \/ (~IsLastPage(page, selected) /\ t < listed[k]))
    <2>1. t <= limit
      BY <1>1, <1>12, LedgerFields DEF Limit, limit, InWindow, Transaction
    <2>2. PICK i \in 1..Len(listed) : t = listed[i]
      BY <1>2, <1>4, <1>12, <2>1 DEF ToSet
    <2>3. CASE i <= k
      <3>1. i \in 1..k /\ signatures[i] = t
        BY <1>7, <2>2, <2>3
      <3> QED
        BY <1>7, <3>1 DEF ToSet
    <2>4. CASE i > k /\ k < m
      <3>1. k + 1 \in 1..m /\ k + 1 \in DOMAIN listed /\ page[k + 1] = listed[k + 1] /\ BeyondCutoff(listed[k + 1])
        BY <1>4, <1>5, <1>6, <1>7, <2>4
      <3> DEFINE last == listed[k + 1]
      <3>2. last \in Transaction /\ t <= last
        <4>1. last \in Transaction
          BY <1>2, <3>1
        <4>2. i = k + 1 \/ k + 1 < i
          BY <1>7, <2>4
        <4> HIDE DEF last
        <4>3. k + 1 < i => last > t
          BY <1>2, <1>4, <2>2, <3>1 DEF last
        <4>4. i = k + 1 => last = t
          BY <2>2 DEF last
        <4> QED
          BY <4>1, <4>2, <4>3, <4>4, LedgerFields
      <3>3. Ledger[t].time <= Ledger[last].time
        BY <3>2, LedgerAssumption
      <3>4. Ledger[last].listed # Nothing /\ Ledger[last].listed < CutoffTime
        BY <3>1 DEF BeyondCutoff
      <3>5. Ledger[t].time >= CutoffTime /\ Now \in Nat /\ Since \in Nat
        BY <1>12, BackfillAssumption DEF InWindow
      <3> HIDE DEF last
      <3>6. Ledger[last].listed = Ledger[last].time /\ Ledger[last].time \in Nat /\ Ledger[t].time \in Nat
        BY <3>2, <3>4, LedgerFields
      <3> QED
        BY <3>3, <3>4, <3>5, <3>6 DEF CutoffTime
    <2>5. CASE i > k /\ k = m
      <3>1. m < Len(listed) /\ m = PageLimit /\ k # 0
        <4>1. m \in Nat /\ m < i /\ i <= Len(listed)
          BY <1>4, <2>5
        <4> QED
          BY <1>1, <1>4, <1>15, <2>5, <4>1
      <3>2. k \in DOMAIN listed /\ k < i
        BY <1>4, <1>7, <2>5, <3>1
      <3>3. t < listed[k]
        BY <1>2, <1>4, <2>2, <3>2
      <3> QED
        <4>1. ~(k < m) /\ ~(m < PageLimit)
          BY <1>1, <1>4, <2>5, <3>1
        <4> QED
          BY <1>11, <3>1, <3>3, <4>1
    <2> QED
      <3>1. i <= k \/ (i > k /\ k < m) \/ (i > k /\ k = m)
        BY <1>4, <1>7
      <3> QED
        BY <2>3, <2>4, <2>5, <3>1
  <1>13. IsLastPage(page, selected) \in BOOLEAN
    BY <1>11
  <1>14. selected.signatures = signatures
    BY <1>6 DEF signatures
  <1> HIDE DEF selected
  <1> QED
    BY <1>8, <1>9, <1>10, <1>12, <1>13, <1>14 DEF page, selected

-------------------------------------------------------------------------------
(* Batches. *)

LEMMA MultiplesGrow ==
    ASSUME NEW b \in Nat, NEW m \in Nat, NEW n \in Nat, m <= n
    PROVE  b * m \in Nat /\ b * n \in Nat /\ b * m <= b * n
  <1>1. PICK d \in Nat : n = m + d
    <2>1. n - m \in Nat /\ n = m + (n - m)
      OBVIOUS
    <2> QED
      BY <2>1
  <1>2. b * n = b * m + b * d
    BY <1>1
  <1>3. b * m \in Nat /\ b * d \in Nat
    OBVIOUS
  <1> QED
    BY <1>2, <1>3

\* The batches are the lines, cut into parts that follow one another.
LEMMA Batching ==
    ASSUME NEW X, NEW lines \in Seq(X)
    PROVE  /\ Chunks(lines) \in Seq(Seq(X))
           /\ UNION {ToSet(Chunks(lines)[i]) : i \in DOMAIN Chunks(lines)} = ToSet(lines)
           /\ \A R : Ordered(lines, R) =>
                  /\ \A i \in DOMAIN Chunks(lines) : Ordered(Chunks(lines)[i], R)
                  /\ \A i, j \in DOMAIN Chunks(lines) : i < j => Across(Chunks(lines)[i], Chunks(lines)[j], R)
  <1> DEFINE n == Len(lines)
             b == BatchLimit
             c == (n + b - 1) \div b
             start(i) == b * (i - 1)
             end(i) == IF b * i < n THEN b * i ELSE n
             chunk(i) == SubSeq(lines, start(i) + 1, end(i))
             chunks == Chunks(lines)
  <1>1. n \in Nat /\ b \in Nat \ {0} /\ n + b - 1 \in Nat /\ DOMAIN lines = 1..n
    BY BackfillAssumption
  <1>2. c \in Nat /\ b * c <= n + b - 1 /\ n + b - 1 < b * c + b
    BY <1>1, Quotient
  <1>3. chunks = [i \in 1..c |-> chunk(i)]
    <2>1. \A i \in Nat : i * b = b * i /\ (i - 1) * b = b * (i - 1)
      BY <1>1
    <2> DEFINE part(i) == SubSeq(lines, (i - 1) * b + 1, IF i * b < n THEN i * b ELSE n)
    <2>2. chunks = [i \in 1..c |-> part(i)]
      BY DEF Chunks
    <2>3. ASSUME NEW i \in 1..c PROVE part(i) = chunk(i)
      <3>1. i * b = b * i /\ (i - 1) * b = b * (i - 1)
        <4>1. i \in Nat
          BY <1>2
        <4> QED
          BY <2>1, <4>1
      <3> QED
        BY <3>1
    <2> HIDE DEF part, chunk, c, chunks
    <2> QED
      BY <2>2, <2>3
  <1> HIDE DEF n, b, c, chunks
  <1>4. ASSUME NEW i \in 1..c
        PROVE  /\ start(i) \in Nat /\ b * i \in Nat /\ b * i = start(i) + b
               /\ start(i) < n /\ end(i) \in 0..n
    <2>1. i \in Nat /\ i <= c /\ i - 1 \in Nat
      BY <1>2
    <2>2. b * i \in Nat /\ b * (i - 1) \in Nat /\ b * i = b * (i - 1) + b
      BY <1>1, <2>1
    <2>3. b * i <= b * c /\ b * c \in Nat
      BY <1>1, <1>2, <2>1, MultiplesGrow
    <2> DEFINE x == b * (i - 1)
               y == b * i
               z == b * c
    <2>4. x \in Nat /\ y \in Nat /\ z \in Nat /\ y = x + b /\ y <= z /\ z <= n + b - 1
      BY <1>2, <2>2, <2>3
    <2> HIDE DEF x, y, z
    <2>5. x < n
      BY <1>1, <2>4
    <2> QED
      BY <1>1, <2>4, <2>5 DEF x, y
  <1>5. ASSUME NEW i \in 1..c, NEW j \in 1..c, i < j PROVE b * i <= start(j)
    <2>1. i \in Nat /\ j - 1 \in Nat /\ i <= j - 1
      BY <1>2, <1>5
    <2> QED
      BY <1>1, <2>1, MultiplesGrow
  <1>6. ASSUME NEW p \in 1..n PROVE \E i \in 1..c : p \in start(i) + 1..end(i)
    <2> DEFINE q == (p - 1) \div b
               i == q + 1
    <2>1. p - 1 \in Nat
      OBVIOUS
    <2>2. q \in Nat /\ b * q <= p - 1 /\ p - 1 < b * q + b
      BY <1>1, <2>1, Quotient
    <2>3. i - 1 = q /\ i \in Nat /\ b * i = b * q + b /\ b * q \in Nat
      <3> HIDE DEF q
      <3> QED
        BY <1>1, <2>2
    <2>4. i <= c
      <3> SUFFICES ASSUME c + 1 <= i PROVE FALSE
        <4> HIDE DEF i
        <4> QED
          BY <1>2, <2>3
      <3>1. b * (c + 1) <= b * i
        <4> HIDE DEF i
        <4> QED
          BY <1>1, <1>2, <2>3, MultiplesGrow
      <3>2. b * (c + 1) = b * c + b /\ b * c \in Nat
        BY <1>1, <1>2
      <3> HIDE DEF i, q
      <3> QED
        BY <1>1, <1>2, <2>2, <2>3, <3>1, <3>2
    <2> HIDE DEF q
    <2>5. i \in 1..c
      BY <2>2, <2>4
    <2>6. start(i) = b * q /\ b * i = b * q + b
      BY <2>3
    <2> HIDE DEF i
    <2>7. p \in start(i) + 1..end(i)
      BY <1>1, <2>2, <2>3, <2>6
    <2> QED
      BY <2>5, <2>7
  <1>7. ASSUME NEW i \in 1..c
        PROVE  /\ chunk(i) \in Seq(X)
               /\ ToSet(chunk(i)) = {lines[p] : p \in start(i) + 1..end(i)}
               /\ DOMAIN chunk(i) = 1..end(i) - start(i)
               /\ \A p \in 1..end(i) - start(i) : chunk(i)[p] = lines[start(i) + p] /\ start(i) + p \in 1..n
    <2> DEFINE from == start(i)
               to   == end(i)
               part == chunk(i)
    <2>1. from \in Nat /\ to \in 0..n /\ from + 1 \in Nat \ {0} /\ from < n /\ part = SubSeq(lines, from + 1, to)
          /\ from <= to
      BY <1>1, <1>4
    <2> HIDE DEF from, to, part
    <2>2. /\ part \in Seq(X)
          /\ Len(part) = IF from + 1 <= to THEN to - (from + 1) + 1 ELSE 0
          /\ \A p \in 1..to - (from + 1) + 1 : part[p] = lines[from + 1 + p - 1]
          /\ ToSet(part) = {lines[p] : p \in from + 1..to}
      BY <2>1, Slice DEF n
    <2>3. Len(part) = to - from /\ to - (from + 1) + 1 = to - from /\ \A p \in Nat : from + 1 + p - 1 = from + p
      BY <1>1, <2>1, <2>2
    <2>4. DOMAIN part = 1..to - from
      BY <2>2, <2>3
    <2>5. \A p \in 1..to - from : part[p] = lines[from + p] /\ from + p \in 1..n
      BY <1>1, <2>1, <2>2, <2>3
    <2> QED
      BY <2>2, <2>4, <2>5 DEF from, to, part
  <1>8. chunks \in Seq(Seq(X)) /\ DOMAIN chunks = 1..c
    <2> HIDE DEF chunk
    <2> QED
      BY <1>2, <1>3, <1>7
  <1>9. UNION {ToSet(chunks[i]) : i \in DOMAIN chunks} = ToSet(lines)
    <2>1. \A i \in 1..c : ToSet(chunks[i]) = {lines[p] : p \in start(i) + 1..end(i)}
      BY <1>3, <1>7
    <2>2. ToSet(lines) = {lines[p] : p \in 1..n}
      BY <1>1 DEF ToSet
    <2>3. \A i \in 1..c : \A p \in start(i) + 1..end(i) : p \in 1..n
      BY <1>1, <1>4
    <2> HIDE DEF start, end
    <2> QED
      BY <1>6, <1>8, <2>1, <2>2, <2>3
  <1>10. ASSUME NEW R, Ordered(lines, R)
         PROVE  /\ \A i \in 1..c : Ordered(chunks[i], R)
                /\ \A i, j \in 1..c : i < j => Across(chunks[i], chunks[j], R)
    <2>1. ASSUME NEW i \in 1..c PROVE Ordered(chunks[i], R)
      <3>1. chunks[i] = chunk(i)
        BY <1>3
      <3>2. start(i) \in Nat /\ end(i) \in Nat
        BY <1>1, <1>4
      <3> HIDE DEF start, end, chunk
      <3> QED
        BY <1>1, <1>7, <1>10, <3>1, <3>2 DEF Ordered
    <2>2. ASSUME NEW i \in 1..c, NEW j \in 1..c, i < j PROVE Across(chunks[i], chunks[j], R)
      <3>1. chunks[i] = chunk(i) /\ chunks[j] = chunk(j)
        BY <1>3
      <3>2. start(i) \in Nat /\ start(j) \in Nat /\ end(i) \in Nat /\ end(j) \in Nat /\ end(i) <= start(j)
        <4>1. b * i \in Nat /\ b * i <= start(j) /\ end(i) \in 0..n /\ end(j) \in 0..n
              /\ start(i) \in Nat /\ start(j) \in Nat
          BY <1>4, <1>5, <2>2
        <4>2. end(i) <= b * i
          BY <1>1, <4>1
        <4> HIDE DEF start, end
        <4> QED
          BY <1>1, <1>2, <4>1, <4>2
      <3> SUFFICES ASSUME NEW p \in DOMAIN chunks[i], NEW q \in DOMAIN chunks[j]
                   PROVE  <<chunks[i][p], chunks[j][q]>> \in R
        BY DEF Across
      <3> HIDE DEF start, end, chunk
      <3>3. /\ p \in 1..end(i) - start(i) /\ chunk(i)[p] = lines[start(i) + p] /\ start(i) + p \in 1..n
            /\ q \in 1..end(j) - start(j) /\ chunk(j)[q] = lines[start(j) + q] /\ start(j) + q \in 1..n
        BY <1>7, <3>1
      <3>4. start(i) + p < start(j) + q
        BY <3>2, <3>3
      <3> QED
        BY <1>1, <1>10, <3>1, <3>3, <3>4 DEF Ordered
    <2> QED
      BY <2>1, <2>2
  <1> QED
    BY <1>8, <1>9, <1>10 DEF chunks

-------------------------------------------------------------------------------
(* The order in which the records are pushed. *)

Earlier(m) == {r \in Logged(m) \X Logged(m) : r[1].update.time <= r[2].update.time}
Older(m)   == {r \in Line(m) \X Line(m) : r[1].time <= r[2].time}

LEMMA LoggedFields ==
    ASSUME NEW m, NEW k \in Logged(m)
    PROVE  /\ k.update \in Sent /\ k.update.tx \in Within /\ k.update.tx \in Transaction
           /\ k.count \in Nat /\ k.count <= Len(RecordsOf[m][k.update.tx])
           /\ k.update.time # Nothing =>
                  k.update.time = Ledger[k.update.tx].time /\ k.update.time \in 0..Latest
  <1>1. /\ k.update \in Sent /\ k.update.tx \in Within /\ k.update.tx \in Transaction
        /\ k.count \in Nat /\ k.count <= Len(RecordsOf[m][k.update.tx])
        /\ k.update.time # Nothing => k.update.time = Ledger[k.update.tx].time
    BY DEF Logged, Sent, Within
  <1> DEFINE t == k.update.tx
  <1>2. Ledger[t].time \in 0..Latest
    <2>1. Len(Ledger) \in Nat \ {0} /\ t \in 1..Len(Ledger) /\ t <= Len(Ledger) /\ Len(Ledger) \in Transaction
      BY <1>1, LedgerFields DEF Transaction
    <2>2. Ledger[t].time <= Ledger[Len(Ledger)].time
      BY <1>1, <2>1, LedgerAssumption
    <2>3. Latest = Ledger[Len(Ledger)].time
      BY <2>1 DEF Latest, Last
    <2>4. Ledger[t].time \in Nat /\ Ledger[Len(Ledger)].time \in Nat
      BY <1>1, <2>1, LedgerFields
    <2> QED
      BY <2>2, <2>3, <2>4
  <1> QED
    BY <1>1, <1>2

LEMMA LatestTyped == Latest \in Nat
  <1>1. CASE Ledger = <<>>
    BY <1>1 DEF Latest
  <1>2. CASE Ledger # <<>>
    <2>1. Len(Ledger) \in Transaction
      BY <1>2, LedgerAssumption DEF Transaction
    <2> QED
      BY <1>2, <2>1, LedgerFields DEF Latest, Last
  <1> QED
    BY <1>1, <1>2

\* Sorting by time keeps the updates, and puts them in order.
LEMMA Sorting ==
    ASSUME NEW m, NEW updates \in Seq(Logged(m)),
           \A i \in DOMAIN updates : updates[i].update.time # Nothing
    PROVE  /\ ByBlockTime(updates) \in Seq(Logged(m))
           /\ ToSet(ByBlockTime(updates)) = ToSet(updates)
           /\ Ordered(ByBlockTime(updates), Earlier(m))
  <1> DEFINE at(time) == {kept \in ToSet(updates) : kept.update.time = time}
             of(time) == Only(updates, at(time))
             parts    == [i \in 1..Latest + 1 |-> of(i - 1)]
             sorted   == FlattenSeq(parts)
  <1>1. Latest \in Nat
    BY LatestTyped
  <1>2. ByBlockTime(updates) = sorted
    BY DEF ByBlockTime
  <1>3. ASSUME NEW time PROVE of(time) \in Seq(Logged(m)) /\ ToSet(of(time)) = at(time)
    <2>1. ToSet(updates) \intersect at(time) = at(time)
      OBVIOUS
    <2> HIDE DEF at
    <2> QED
      BY <2>1, Selecting
  <1>4. ToSet(updates) \subseteq Logged(m)
    BY DEF ToSet
  <1>5. \A k \in ToSet(updates) : k.update.time \in 0..Latest
    <2>1. ASSUME NEW k \in ToSet(updates) PROVE k.update.time \in 0..Latest
      <3>1. k.update.time # Nothing
        BY DEF ToSet
      <3>2. k \in Logged(m)
        BY <1>4
      <3> QED
        BY <3>1, <3>2, LoggedFields
    <2> QED
      BY <2>1
  <1> HIDE DEF of
  <1>6. parts \in Seq(Seq(Logged(m))) /\ DOMAIN parts = 1..Latest + 1
        /\ \A i \in 1..Latest + 1 : parts[i] = of(i - 1)
    BY <1>1, <1>3
  <1> HIDE DEF parts
  <1>7. /\ sorted \in Seq(Logged(m))
        /\ ToSet(sorted) = UNION {ToSet(parts[i]) : i \in DOMAIN parts}
        /\ \A R : (/\ \A i \in DOMAIN parts : Ordered(parts[i], R)
                   /\ \A i, j \in DOMAIN parts : i < j => Across(parts[i], parts[j], R))
                      => Ordered(sorted, R)
    BY <1>6, Flattening
  <1> HIDE DEF sorted
  <1>8. ToSet(sorted) = ToSet(updates)
    <2>1. \A i \in 1..Latest + 1 : ToSet(parts[i]) = at(i - 1)
      BY <1>3, <1>6
    <2>2. ASSUME NEW k \in ToSet(updates) PROVE \E i \in 1..Latest + 1 : k \in at(i - 1)
      <3> DEFINE time == k.update.time
      <3>1. time + 1 \in 1..Latest + 1 /\ (time + 1) - 1 = time
        BY <1>1, <1>5
      <3>2. k \in at((time + 1) - 1)
        BY <3>1
      <3> QED
        BY <3>1, <3>2
    <2>3. \A i \in 1..Latest + 1 : at(i - 1) \subseteq ToSet(updates)
      OBVIOUS
    <2> HIDE DEF at
    <2> QED
      BY <1>6, <1>7, <2>1, <2>2, <2>3
  <1>9. ASSUME NEW i \in 1..Latest + 1, NEW p \in DOMAIN parts[i]
        PROVE  parts[i][p] \in Logged(m) /\ parts[i][p].update.time = i - 1
    <2>1. parts[i][p] \in ToSet(parts[i])
      BY DEF ToSet
    <2>2. parts[i][p] \in at(i - 1)
      BY <1>3, <1>6, <2>1
    <2> QED
      BY <1>4, <2>2
  <1>10. \A i \in DOMAIN parts : Ordered(parts[i], Earlier(m))
    BY <1>1, <1>6, <1>9 DEF Ordered, Earlier
  <1>11. \A i, j \in DOMAIN parts : i < j => Across(parts[i], parts[j], Earlier(m))
    <2> SUFFICES ASSUME NEW i \in DOMAIN parts, NEW j \in DOMAIN parts, i < j,
                        NEW p \in DOMAIN parts[i], NEW q \in DOMAIN parts[j]
                 PROVE  <<parts[i][p], parts[j][q]>> \in Earlier(m)
      BY DEF Across
    <2>1. /\ parts[i][p] \in Logged(m) /\ parts[i][p].update.time = i - 1
          /\ parts[j][q] \in Logged(m) /\ parts[j][q].update.time = j - 1
      BY <1>6, <1>9
    <2>2. i - 1 <= j - 1
      BY <1>1, <1>6
    <2> QED
      BY <2>1, <2>2 DEF Earlier
  <1>12. Ordered(sorted, Earlier(m))
    BY <1>7, <1>10, <1>11
  <1> QED
    BY <1>2, <1>7, <1>8, <1>12

\* The lines of an update are the first of its transaction's.
LEMMA Lining ==
    ASSUME settings \in Settings, NEW k \in Logged(multisig), k.update.time # Nothing
    PROVE  /\ Lines(k.update, k.count) \in Seq(Line(multisig))
           /\ \A i \in DOMAIN Lines(k.update, k.count) : Lines(k.update, k.count)[i].time = k.update.time
           /\ k.count = Len(RecordsOf[multisig][k.update.tx]) =>
                  ToSet(Lines(k.update, k.count)) = LinesOf(multisig, k.update.tx)
  <1> DEFINE t == k.update.tx
             records == RecordsOf[multisig][t]
             line(i) == [time |-> k.update.time, record |-> records[i]]
             lines == Lines(k.update, k.count)
  <1>1. /\ t \in Within /\ t \in Transaction /\ k.update.time = Ledger[t].time
        /\ k.count \in Nat /\ k.count <= Len(records)
    BY LoggedFields
  <1>2. records \in Seq(OfTransaction(t))
    BY <1>1, RecordsTyped DEF multisig
  <1>3. lines = [i \in 1..k.count |-> line(i)]
    BY DEF Lines
  <1> HIDE DEF records, lines
  <1>4. ASSUME NEW i \in 1..k.count PROVE line(i) \in LinesOf(multisig, t) /\ line(i).time = k.update.time
    <2>1. records[i] \in ToSet(records)
      BY <1>1, <1>2 DEF ToSet
    <2> QED
      BY <1>1, <2>1 DEF LinesOf, records
  <1>5. \A i \in 1..k.count : line(i) \in Line(multisig)
    BY <1>1, <1>4 DEF Line
  <1>6. k.count = Len(records) => ToSet(lines) = LinesOf(multisig, t)
    <2> SUFFICES ASSUME k.count = Len(records) PROVE ToSet(lines) = LinesOf(multisig, t)
      OBVIOUS
    <2>1. ToSet(records) = {records[i] : i \in 1..k.count}
      BY <1>2 DEF ToSet
    <2>2. LinesOf(multisig, t) = {[time |-> k.update.time, record |-> r] : r \in {records[i] : i \in 1..k.count}}
      BY <1>1, <2>1 DEF LinesOf, records
    <2>3. @ = {line(i) : i \in 1..k.count}
      OBVIOUS
    <2>4. ToSet(lines) = {line(i) : i \in 1..k.count}
      BY <1>3 DEF ToSet
    <2> QED
      BY <2>2, <2>3, <2>4
  <1> HIDE DEF line
  <1> QED
    BY <1>1, <1>3, <1>4, <1>5, <1>6 DEF lines, records

\* The lines of updates in order are in order.
LEMMA LiningAll ==
    ASSUME settings \in Settings, NEW updates \in Seq(Logged(multisig)),
           \A i \in DOMAIN updates : updates[i].update.time # Nothing,
           Ordered(updates, Earlier(multisig))
    PROVE  /\ AllLines(updates) \in Seq(Line(multisig))
           /\ \A k \in ToSet(updates) : k.count = Len(RecordsOf[multisig][k.update.tx]) =>
                  LinesOf(multisig, k.update.tx) \subseteq ToSet(AllLines(updates))
           /\ Ordered(AllLines(updates), Older(multisig))
  <1> DEFINE of(i) == Lines(updates[i].update, updates[i].count)
             parts == [i \in DOMAIN updates |-> of(i)]
             all   == FlattenSeq(parts)
  <1>1. Len(updates) \in Nat /\ DOMAIN updates = 1..Len(updates)
        /\ \A i \in DOMAIN updates : updates[i] \in Logged(multisig)
    OBVIOUS
  <1>2. AllLines(updates) = all
    BY DEF AllLines
  <1>3. ASSUME NEW i \in DOMAIN updates
        PROVE  /\ of(i) \in Seq(Line(multisig))
               /\ \A p \in DOMAIN of(i) : of(i)[p].time = updates[i].update.time
               /\ updates[i].count = Len(RecordsOf[multisig][updates[i].update.tx]) =>
                      ToSet(of(i)) = LinesOf(multisig, updates[i].update.tx)
    <2> DEFINE k == updates[i]
    <2>1. k \in Logged(multisig) /\ k.update.time # Nothing
      BY <1>1
    <2> HIDE DEF k
    <2>2. /\ Lines(k.update, k.count) \in Seq(Line(multisig))
          /\ \A p \in DOMAIN Lines(k.update, k.count) : Lines(k.update, k.count)[p].time = k.update.time
          /\ k.count = Len(RecordsOf[multisig][k.update.tx]) =>
                 ToSet(Lines(k.update, k.count)) = LinesOf(multisig, k.update.tx)
      BY <2>1, Lining
    <2> QED
      BY <2>2 DEF k
  <1> HIDE DEF of
  <1>4. parts \in Seq(Seq(Line(multisig))) /\ DOMAIN parts = 1..Len(updates)
        /\ \A i \in DOMAIN updates : parts[i] = of(i)
    BY <1>1, <1>3
  <1> HIDE DEF parts
  <1>5. /\ all \in Seq(Line(multisig))
        /\ ToSet(all) = UNION {ToSet(parts[i]) : i \in DOMAIN parts}
        /\ \A R : (/\ \A i \in DOMAIN parts : Ordered(parts[i], R)
                   /\ \A i, j \in DOMAIN parts : i < j => Across(parts[i], parts[j], R))
                      => Ordered(all, R)
    BY <1>4, Flattening
  <1> HIDE DEF all
  <1>6. ASSUME NEW k \in ToSet(updates), k.count = Len(RecordsOf[multisig][k.update.tx])
        PROVE  LinesOf(multisig, k.update.tx) \subseteq ToSet(all)
    <2>1. PICK i \in DOMAIN updates : k = updates[i]
      BY DEF ToSet
    <2>2. ToSet(parts[i]) = LinesOf(multisig, k.update.tx)
      BY <1>3, <1>4, <1>6, <2>1
    <2> QED
      BY <1>1, <1>4, <1>5, <2>2
  <1>7. ASSUME NEW i \in DOMAIN updates, NEW p \in DOMAIN parts[i]
        PROVE  parts[i][p] \in Line(multisig) /\ parts[i][p].time = updates[i].update.time
    BY <1>3, <1>4
  <1>8. ASSUME NEW i \in DOMAIN updates PROVE updates[i].update.time \in Nat
    <2>1. updates[i] \in Logged(multisig) /\ updates[i].update.time # Nothing
      BY <1>1
    <2>2. updates[i].update.time \in 0..Latest
      BY <2>1, LoggedFields
    <2> QED
      BY <2>2, LatestTyped
  <1>9. ASSUME NEW i \in DOMAIN parts PROVE Ordered(parts[i], Older(multisig))
    <2> SUFFICES ASSUME NEW p \in DOMAIN parts[i], NEW q \in DOMAIN parts[i], p < q
                 PROVE  <<parts[i][p], parts[i][q]>> \in Older(multisig)
      BY DEF Ordered
    <2>1. i \in DOMAIN updates
      BY <1>1, <1>4
    <2>2. /\ parts[i][p] \in Line(multisig) /\ parts[i][q] \in Line(multisig)
          /\ parts[i][p].time = parts[i][q].time /\ parts[i][p].time \in Nat
      BY <1>7, <1>8, <2>1
    <2> QED
      BY <2>2 DEF Older
  <1>10. \A i, j \in DOMAIN parts : i < j => Across(parts[i], parts[j], Older(multisig))
    <2> SUFFICES ASSUME NEW i \in DOMAIN updates, NEW j \in DOMAIN updates, i < j,
                        NEW p \in DOMAIN parts[i], NEW q \in DOMAIN parts[j]
                 PROVE  <<parts[i][p], parts[j][q]>> \in Older(multisig)
      BY <1>1, <1>4 DEF Across
    <2>1. updates[i].update.time <= updates[j].update.time
      BY DEF Ordered, Earlier
    <2> QED
      BY <1>7, <2>1 DEF Older
  <1>11. Ordered(all, Older(multisig))
    BY <1>5, <1>9, <1>10
  <1> QED
    BY <1>2, <1>5, <1>6, <1>11

\* What the pusher has received is kept, and put in order.
LEMMA OrderedLines ==
    ASSUME settings \in Settings, NEW updates \in Seq(Logged(multisig)),
           \A i \in DOMAIN updates : updates[i].update.time # Nothing
    PROVE  /\ AllLines(ByBlockTime(updates)) \in Seq(Line(multisig))
           /\ \A k \in ToSet(updates) : k.count = Len(RecordsOf[multisig][k.update.tx]) =>
                  LinesOf(multisig, k.update.tx) \subseteq ToSet(AllLines(ByBlockTime(updates)))
           /\ Ordered(AllLines(ByBlockTime(updates)), Older(multisig))
  <1> DEFINE sorted == ByBlockTime(updates)
  <1>1. /\ sorted \in Seq(Logged(multisig)) /\ ToSet(sorted) = ToSet(updates)
        /\ Ordered(sorted, Earlier(multisig))
    BY Sorting
  <1>2. ASSUME NEW i \in DOMAIN sorted PROVE sorted[i].update.time # Nothing
    <2> HIDE DEF sorted
    <2>1. sorted[i] \in ToSet(sorted)
      BY DEF ToSet
    <2>2. sorted[i] \in ToSet(updates)
      BY <1>1, <2>1
    <2> QED
      BY <2>2 DEF ToSet
  <1> HIDE DEF sorted
  <1>3. /\ AllLines(sorted) \in Seq(Line(multisig))
        /\ \A k \in ToSet(sorted) : k.count = Len(RecordsOf[multisig][k.update.tx]) =>
               LinesOf(multisig, k.update.tx) \subseteq ToSet(AllLines(sorted))
        /\ Ordered(AllLines(sorted), Older(multisig))
    BY <1>1, <1>2, LiningAll
  <1> QED
    BY <1>1, <1>3 DEF sorted

-------------------------------------------------------------------------------
(* Types. *)

Pushes == {"pushing", "interrupted", "complete"}

TypedCommand ==
    /\ settings \in Settings
    /\ phase \in {"starting", "crawling", "ordering", "pushing", "complete", "refused", "aborted",
                  "interrupted"}
    /\ head \in ConfirmedAtStart..Len(Ledger)
    /\ failures \in [crawl : Nat, update : Nat]
    /\ cancelled \in BOOLEAN
    /\ seen \subseteq Transaction
    /\ attempt \in 1..PushAttempts
    /\ faults \in 0..FaultLimit

\* What a crawl has still to fetch is of a page, and lies within the window.
TypedCrawl ==
    /\ crawl \in [Address -> Crawl]
    /\ \A a \in Address : /\ crawl[a].todo \in Seq(Within)
                          /\ crawl[a].pc # "fetching" => crawl[a].todo = <<>>

TypedChannel == channel \in Seq(Sent) /\ Len(channel) <= ChannelCapacity

TypedRecords ==
    /\ buffered \in Seq(Logged(multisig))
    /\ batches \in Seq(Seq(Line(multisig)))
    /\ pushed \in 0..Len(batches)
    /\ phase \notin Pushes => batches = <<>> /\ pushed = 0 /\ loki = {}

Typed == TypedCommand /\ TypedCrawl /\ TypedChannel /\ TypedRecords

LEMMA Bounds ==
    /\ Len(Ledger) \in Nat /\ ConfirmedAtStart \in Nat /\ ConfirmedAtStart <= Len(Ledger)
    /\ PushAttempts \in Nat \ {0} /\ ChannelCapacity \in Nat \ {0} /\ FaultLimit \in Nat
    /\ Now \in Nat /\ Since \in Nat
  <1>1. Len(Ledger) \in Nat
    BY LedgerAssumption
  <1> QED
    BY <1>1, BackfillAssumption

LEMMA TypedStart == Init => Typed
  <1> SUFFICES ASSUME Init PROVE Typed
    OBVIOUS
  <1>1. TypedCommand
    <2>1. [crawl |-> 0, update |-> 0] \in [crawl : Nat, update : Nat]
      OBVIOUS
    <2>2. 1 \in 1..PushAttempts /\ 0 \in 0..FaultLimit /\ ConfirmedAtStart \in ConfirmedAtStart..Len(Ledger)
      BY Bounds
    <2> QED
      BY <2>1, <2>2 DEF Init, TypedCommand
  <1>2. \A X : <<>> \in Seq(X)
    OBVIOUS
  <1>3. NewCrawl \in Crawl /\ NewCrawl.todo = <<>>
    BY <1>2 DEF NewCrawl, Crawl, Nothing
  <1>4. TypedCrawl
    BY <1>2, <1>3 DEF Init, TypedCrawl
  <1>5. TypedChannel
    BY <1>2, BackfillAssumption DEF Init, TypedChannel
  <1>6. Len(<<>>) = 0 /\ 0 \in 0..0
    OBVIOUS
  <1>7. TypedRecords
    BY <1>2, <1>6 DEF Init, TypedRecords, Pushes
  <1> QED
    BY <1>1, <1>4, <1>5, <1>7 DEF Typed

LEMMA TypedMeansTypeOK == Typed => TypeOK
  <1> SUFFICES ASSUME Typed PROVE TypeOK
    OBVIOUS
  <1>1. Sent \subseteq [tx : Transaction, time : Nat \union {Nothing}]
    BY DEF Sent, Within
  <1>2. channel \in Seq([tx : Transaction, time : Nat \union {Nothing}])
    <2> DEFINE X == [tx : Transaction, time : Nat \union {Nothing}]
    <2>1. Sent \subseteq X /\ channel \in Seq(Sent)
      BY <1>1 DEF Typed, TypedChannel
    <2> HIDE DEF X
    <2>2. channel \in Seq(X)
      BY <2>1
    <2> QED
      BY <2>2 DEF X
  <1> QED
    BY <1>2 DEF Typed, TypedCommand, TypedCrawl, TypedChannel, TypedRecords, TypeOK

LEMMA TypedCommandKept == Typed /\ [Next]_vars => TypedCommand'
  <1> SUFFICES ASSUME Typed, [Next]_vars PROVE TypedCommand'
    OBVIOUS
  <1> USE DEF Typed, TypedCommand
  <1>1. CASE UNCHANGED <<settings, phase, head, failures, cancelled, seen, attempt, faults>>
    BY <1>1
  <1>2. CASE Start \/ Decide \/ OrderRecords \/ Done \/ PushBatch \/ PushFails
    <2>1. 1 \in 1..PushAttempts
      BY Bounds
    <2>2. CASE Start
      BY <2>2 DEF Start, crawling, pushing
    <2>3. CASE OrderRecords
      <3>1. phase' \in {"aborted", "pushing"}
        BY <2>3 DEF OrderRecords
      <3> QED
        BY <2>3, <3>1 DEF OrderRecords, crawling
    <2>4. CASE Decide \/ Done \/ PushFails
      BY <2>4 DEF Decide, Done, PushFails, crawling, pushing
    <2>5. CASE PushBatch
      BY <2>1, <2>5 DEF PushBatch, crawling
    <2> QED
      BY <1>2, <2>2, <2>3, <2>4, <2>5
  <1>3. CASE PushLimited
    <2>1. attempt # PushAttempts => attempt + 1 \in 1..PushAttempts
      BY Bounds
    <2> QED
      BY <1>3, <2>1 DEF PushLimited, GiveUp, crawling
  <1>10. Fault => faults' \in 0..FaultLimit
    BY Bounds DEF Fault
  <1>4. CASE Kill \/ Cancel \/ Expire
    BY <1>4, <1>10 DEF Kill, Cancel, Expire, crawling, pushing
  <1>11. CASE NewTransaction
    <2>1. head < Len(Ledger) => head + 1 \in ConfirmedAtStart..Len(Ledger)
      BY Bounds
    <2> QED
      BY <1>11, <2>1 DEF NewTransaction, crawling, pushing
  <1>5. CASE \E a \in Address : PageFails(a) \/ FetchFails(a)
    <2>1. [failures EXCEPT !.crawl = @ + 1] \in [crawl : Nat, update : Nat]
      OBVIOUS
    <2> QED
      BY <1>5, <1>10, <2>1 DEF PageFails, FetchFails, CountFailure, pushing
  <1>6. CASE \E a \in Address : FetchPage(a) \/ StopCrawl(a) \/ TurnPage(a)
    BY <1>6 DEF FetchPage, StopCrawl, TurnPage, pushing
  <1>7. CASE \E a \in Address : FetchTransaction(a)
    <2>1. faults' = faults \/ Fault
      BY <1>7 DEF FetchTransaction
    <2> QED
      BY <1>7, <1>10, <2>1 DEF FetchTransaction, pushing
  <1>8. CASE ProcessUpdate
    <2>1. Head(channel) \in Sent
      BY <1>8 DEF ProcessUpdate, TypedChannel
    <2>2. Head(channel).tx \in Transaction
      BY <2>1 DEF Sent, Within
    <2>3. [failures EXCEPT !.update = @ + 1] \in [crawl : Nat, update : Nat]
      OBVIOUS
    <2>4. /\ failures' \in {failures, [failures EXCEPT !.update = @ + 1]}
          /\ faults' = faults \/ Fault
          /\ seen' = seen \union {Head(channel).tx}
      BY <1>8 DEF ProcessUpdate
    <2> QED
      BY <1>8, <1>10, <2>2, <2>3, <2>4 DEF ProcessUpdate, pushing
  <1> QED
    BY <1>1, <1>2, <1>3, <1>4, <1>5, <1>6, <1>7, <1>8, <1>11
    DEF Next, Progress, Command, Step, vars, crawling, pushing

\* Whatever a crawl does, the other one's state is left alone.
LEMMA TypedCrawlKept == Typed /\ [Next]_vars => TypedCrawl'
  <1> SUFFICES ASSUME Typed, [Next]_vars PROVE TypedCrawl'
    OBVIOUS
  <1>0. crawl \in [Address -> Crawl]
    BY DEF Typed, TypedCrawl
  <1>1. CASE UNCHANGED crawl
    BY <1>1 DEF Typed, TypedCrawl
  <1>2. ASSUME NEW a \in Address, NEW c \in Crawl, crawl' = [crawl EXCEPT ![a] = c],
               c.todo \in Seq(Within), c.pc # "fetching" => c.todo = <<>>
        PROVE  TypedCrawl'
    BY <1>2 DEF Typed, TypedCrawl
  <1>3. ASSUME NEW a \in Address, Finish(a) PROVE TypedCrawl'
    <2> DEFINE c == [NewCrawl EXCEPT !.pc = "done"]
    <2>0. <<>> \in Seq(Within) /\ <<>> \in Seq(Transaction)
      OBVIOUS
    <2>1. c \in Crawl /\ c.todo = <<>> /\ c.todo \in Seq(Within)
      BY <2>0 DEF NewCrawl, Crawl
    <2>2. crawl' = [crawl EXCEPT ![a] = c]
      BY <1>3 DEF Finish
    <2> HIDE DEF c
    <2> QED
      BY <1>2, <2>1, <2>2
  <1>4. ASSUME NEW a \in Address, FetchPage(a) PROVE TypedCrawl'
    <2> DEFINE page     == Page(a, crawl[a].before)
               selected == SelectSignatures(page)
               c == [crawl[a] EXCEPT !.pc = "fetching", !.before = CursorAfter(selected),
                         !.todo = selected.signatures, !.last = IsLastPage(page, selected)]
    <2>1. CASE selected.signatures = <<>>
      BY <1>3, <1>4, <2>1 DEF FetchPage
    <2>2. CASE selected.signatures # <<>>
      <3>1. crawl' = [crawl EXCEPT ![a] = c]
        BY <1>4, <2>2 DEF FetchPage
      <3>2. crawl[a].before \in Transaction \union {Nothing}
        BY <1>0 DEF Crawl
      <3>3. head \in Nat /\ head <= Len(Ledger) /\ ConfirmedAtStart <= head
        BY BackfillAssumption, LedgerAssumption DEF Typed, TypedCommand
      <3>4. /\ selected.signatures \in Seq(Within)
            /\ CursorAfter(selected) \in Transaction
            /\ IsLastPage(page, selected) \in BOOLEAN
        BY <2>2, <3>2, <3>3, PageCovers
      <3>5. selected.signatures \in Seq(Transaction)
        BY <3>4 DEF Within
      <3> HIDE DEF page, selected
      <3>6. c \in Crawl /\ c.todo \in Seq(Within) /\ c.pc = "fetching"
        BY <1>0, <3>4, <3>5 DEF Crawl
      <3> HIDE DEF c
      <3> QED
        BY <1>2, <3>1, <3>6
    <2> QED
      BY <2>1, <2>2
  <1>5. ASSUME NEW a \in Address, NEW i \in InFlight(a), crawl[a].pc = "fetching", crawl' = Settled(a, i)
        PROVE  TypedCrawl'
    <2> DEFINE c == [crawl[a] EXCEPT !.todo = RemoveAt(crawl[a].todo, i)]
    <2>1. crawl' = [crawl EXCEPT ![a] = c]
      BY <1>0, <1>5 DEF Settled
    <2>2. crawl[a].todo \in Seq(Within) /\ i \in 1..Len(crawl[a].todo)
      BY DEF InFlight, Typed, TypedCrawl
    <2>3. RemoveAt(crawl[a].todo, i) \in Seq(Within)
      BY <2>2, Removing
    <2>4. RemoveAt(crawl[a].todo, i) \in Seq(Transaction)
      BY <2>3 DEF Within
    <2>5. c \in Crawl /\ c.todo \in Seq(Within) /\ c.pc = "fetching"
      BY <1>0, <1>5, <2>3, <2>4 DEF Crawl
    <2> HIDE DEF c
    <2> QED
      BY <1>2, <2>1, <2>5
  <1>6. ASSUME NEW a \in Address, TurnPage(a) PROVE TypedCrawl'
    <2>1. CASE crawl[a].last
      BY <1>3, <1>6, <2>1 DEF TurnPage
    <2>2. CASE ~crawl[a].last
      <3> DEFINE c == [crawl[a] EXCEPT !.pc = "paging"]
      <3>1. crawl' = [crawl EXCEPT ![a] = c] /\ crawl[a].todo = <<>>
        BY <1>0, <1>6, <2>2 DEF TurnPage
      <3>0. <<>> \in Seq(Within) /\ <<>> \in Seq(Transaction)
        OBVIOUS
      <3>2. c \in Crawl /\ c.todo \in Seq(Within) /\ c.todo = <<>>
        BY <1>0, <3>0, <3>1 DEF Crawl
      <3> HIDE DEF c
      <3> QED
        BY <1>2, <3>1, <3>2
    <2> QED
      BY <2>1, <2>2
  <1>7. CASE \E a \in Address : PageFails(a) \/ StopCrawl(a)
    BY <1>3, <1>7 DEF PageFails, StopCrawl
  <1>8. CASE \E a \in Address : FetchTransaction(a) \/ FetchFails(a)
    BY <1>5, <1>8 DEF FetchTransaction, FetchFails, Crawling
  <1>9. CASE \E a \in Address : FetchPage(a) \/ TurnPage(a)
    BY <1>4, <1>6, <1>9
  <1>10. \/ UNCHANGED crawl
         \/ \E a \in Address : Step(a)
    BY DEF Next, Progress, Command, vars, crawling, Start, Decide, OrderRecords, Done, PushBatch,
           PushLimited, PushFails, ProcessUpdate, Expire, Cancel, NewTransaction, Kill
  <1> QED
    BY <1>1, <1>7, <1>8, <1>9, <1>10 DEF Step

LEMMA TypedChannelKept == Typed /\ [Next]_vars => TypedChannel'
  <1> SUFFICES ASSUME Typed, [Next]_vars PROVE TypedChannel'
    OBVIOUS
  <1>0. channel \in Seq(Sent) /\ Len(channel) <= ChannelCapacity /\ ChannelCapacity \in Nat
    BY BackfillAssumption DEF Typed, TypedChannel
  <1>1. CASE UNCHANGED channel
    BY <1>0, <1>1 DEF TypedChannel
  <1>2. CASE ProcessUpdate
    <2>1. channel # <<>> /\ channel' = Tail(channel)
      BY <1>2 DEF ProcessUpdate
    <2>2. Tail(channel) \in Seq(Sent) /\ Len(Tail(channel)) = Len(channel) - 1
      BY <1>0, <2>1
    <2> QED
      BY <1>0, <2>1, <2>2 DEF TypedChannel
  <1>3. ASSUME NEW a \in Address, FetchTransaction(a) PROVE TypedChannel'
    <2>1. PICK i \in InFlight(a) : \E time \in {Ledger[crawl[a].todo[i]].time, Nothing} :
              channel' = Append(channel, [tx |-> crawl[a].todo[i], time |-> time])
      BY <1>3 DEF FetchTransaction
    <2> DEFINE t == crawl[a].todo[i]
    <2>2. PICK time \in {Ledger[t].time, Nothing} : channel' = Append(channel, [tx |-> t, time |-> time])
      BY <2>1
    <2>3. t \in Within /\ t \in Transaction
      <3>1. crawl[a].todo \in Seq(Within) /\ i \in 1..Len(crawl[a].todo)
        BY DEF InFlight, Typed, TypedCrawl
      <3>2. t \in Within
        BY <3>1
      <3> QED
        BY <3>2 DEF Within
    <2> HIDE DEF t
    <2>4. time \in Nat \union {Nothing}
      BY <2>3, LedgerFields
    <2> DEFINE u == [tx |-> t, time |-> time]
    <2>5. u \in Sent
      BY <2>2, <2>3, <2>4 DEF Sent
    <2> HIDE DEF u
    <2>6. Append(channel, u) \in Seq(Sent) /\ Len(Append(channel, u)) = Len(channel) + 1
      BY <1>0, <2>5
    <2>7. Len(channel) < ChannelCapacity
      BY <1>3 DEF FetchTransaction, HasRoom
    <2> QED
      BY <1>0, <2>2, <2>6, <2>7 DEF TypedChannel, u
  <1>4. \/ UNCHANGED channel \/ ProcessUpdate
        \/ \E a \in Address : FetchTransaction(a)
    BY DEF Next, Progress, Command, vars, crawling, Start, Decide, OrderRecords, Done, PushBatch,
           PushLimited, PushFails, Expire, Cancel, NewTransaction, Kill, Step, FetchPage, StopCrawl,
           PageFails, FetchFails, TurnPage
  <1> QED
    BY <1>1, <1>2, <1>3, <1>4

LEMMA TypedRecordsKept == Typed /\ [Next]_vars => TypedRecords'
  <1> SUFFICES ASSUME Typed, [Next]_vars PROVE TypedRecords'
    OBVIOUS
  <1>0. /\ settings' = settings /\ multisig' = multisig /\ settings \in Settings
        /\ buffered \in Seq(Logged(multisig)) /\ batches \in Seq(Seq(Line(multisig)))
        /\ pushed \in 0..Len(batches)
        /\ phase \notin Pushes => batches = <<>> /\ pushed = 0 /\ loki = {}
    <2>1. settings' = settings
      BY DEF Next, Progress, Command, Step, vars, Start, Decide, OrderRecords, Done, PushBatch,
             PushLimited, PushFails, ProcessUpdate, Expire, Cancel, NewTransaction, Kill, FetchPage,
             StopCrawl, PageFails, FetchTransaction, FetchFails, TurnPage
    <2> QED
      BY <2>1 DEF Typed, TypedCommand, TypedRecords, multisig
  <1>1. ASSUME UNCHANGED <<buffered, pushing>>, phase' \notin Pushes => phase \notin Pushes
        PROVE  TypedRecords'
    BY <1>0, <1>1 DEF TypedRecords, pushing
  <1>2. CASE ProcessUpdate
    <2> DEFINE update  == Head(channel)
               records == RecordsOf[multisig][update.tx]
               count   == IF update.tx \in seen THEN 0 ELSE Len(records)
               keep(n) == [update |-> update, count |-> n]
    <2>1. update \in Sent /\ update.tx \in Transaction
      BY <1>2 DEF ProcessUpdate, Typed, TypedChannel, Sent, Within
    <2>2. Len(records) \in Nat /\ count \in Nat /\ count <= Len(records)
      <3>1. records \in Seq(OfTransaction(update.tx))
        BY <1>0, <2>1, RecordsTyped DEF multisig
      <3> QED
        BY <3>1
    <2>3. UNCHANGED pushing /\ phase' = phase
          /\ \E n \in 0..count : buffered' = IF n = 0 THEN buffered ELSE Append(buffered, keep(n))
      <3>1. count \in 0..count /\ \A n \in 0..count - 1 : n \in 0..count
        <4> HIDE DEF count
        <4> QED
          BY <2>2
      <3> QED
        BY <1>2, <3>1 DEF ProcessUpdate
    <2>4. PICK n \in 0..count : buffered' = IF n = 0 THEN buffered ELSE Append(buffered, keep(n))
      BY <2>3
    <2>5. keep(n) \in Logged(multisig)
      BY <2>1, <2>2, <2>4 DEF Logged
    <2> HIDE DEF keep
    <2>6. buffered' \in Seq(Logged(multisig))
      BY <1>0, <2>4, <2>5
    <2> QED
      BY <1>0, <2>3, <2>6 DEF TypedRecords, pushing
  <1>3. CASE OrderRecords
    <2>1. CASE \E i \in DOMAIN buffered : buffered[i].update.time = Nothing
      BY <1>0, <1>3, <2>1 DEF OrderRecords, TypedRecords, Pushes
    <2>2. CASE ~\E i \in DOMAIN buffered : buffered[i].update.time = Nothing
      <3>1. /\ phase' \in Pushes /\ buffered' = <<>> /\ pushed' = 0 /\ loki' = {}
            /\ batches' = Chunks(AllLines(ByBlockTime(buffered)))
        BY <1>0, <1>3, <2>2 DEF OrderRecords, Pushes
      <3>2. /\ AllLines(ByBlockTime(buffered)) \in Seq(Line(multisig))
        BY <1>0, <2>2, OrderedLines
      <3>3. batches' \in Seq(Seq(Line(multisig)))
        BY <3>1, <3>2, Batching
      <3>4. Len(batches') \in Nat /\ 0 \in 0..Len(batches')
        BY <3>3
      <3>5. <<>> \in Seq(Logged(multisig))
        OBVIOUS
      <3> QED
        BY <1>0, <3>1, <3>3, <3>4, <3>5 DEF TypedRecords
    <2> QED
      BY <2>1, <2>2
  <1>4. CASE PushBatch
    <2>1. pushed + 1 \in 0..Len(batches) /\ phase' \in Pushes
      BY <1>0, <1>4 DEF PushBatch, Pushes
    <2> QED
      BY <1>0, <1>4, <2>1 DEF PushBatch, TypedRecords
  <1>5. CASE PushLimited
    <2>1. phase' \in Pushes
      BY <1>5 DEF PushLimited, GiveUp, Pushes
    <2> QED
      BY <1>0, <1>5, <2>1 DEF PushLimited, GiveUp, TypedRecords
  <1>6. CASE PushFails
    BY <1>0, <1>6 DEF PushFails, TypedRecords, Pushes
  <1>7. \/ UNCHANGED <<buffered, pushing>> /\ (phase' \notin Pushes => phase \notin Pushes)
        \/ ProcessUpdate \/ OrderRecords \/ PushBatch \/ PushLimited \/ PushFails
    <2>1. ASSUME NEW a \in Address, Step(a)
          PROVE  UNCHANGED <<buffered, pushing>> /\ phase' = phase
      BY <2>1 DEF Step, FetchPage, StopCrawl, PageFails, FetchTransaction, FetchFails, TurnPage
    <2>2. Start \/ Decide \/ Done \/ Kill => UNCHANGED <<buffered, pushing>> /\ (phase' \notin Pushes => phase \notin Pushes)
      BY DEF Start, Decide, Done, Kill, Pushes
    <2>3. Expire \/ Cancel \/ NewTransaction \/ UNCHANGED vars => UNCHANGED <<buffered, pushing>> /\ phase' = phase
      BY DEF Expire, Cancel, NewTransaction, vars
    <2> QED
      BY <2>1, <2>2, <2>3 DEF Next, Progress, Command
  <1> QED
    BY <1>1, <1>2, <1>3, <1>4, <1>5, <1>6, <1>7

LEMMA TypedKept == Typed /\ [Next]_vars => Typed'
  BY TypedCommandKept, TypedCrawlKept, TypedChannelKept, TypedRecordsKept DEF Typed

\* Whatever the endpoint, Loki and the process do, every variable of the command
\* stays within its type: no crawl, channel, buffer or count of batches leaves it.
THEOREM TypeCorrect == Spec => []TypeOK
  <1>1. Init => Typed
    BY TypedStart
  <1>2. Typed /\ [Next]_vars => Typed'
    BY TypedKept
  <1>3. Typed => TypeOK
    BY TypedMeansTypeOK
  <1> QED
    BY <1>1, <1>2, <1>3, PTL DEF Spec

-------------------------------------------------------------------------------
(* As long as the command may still push, every transaction of the window is
   accounted for: ahead of a crawl, in a page, in the channel or with the pusher. *)

Wanted(a, t) == InWindow(t) /\ a \in Ledger[t].touches

Ahead(a, t) ==
    \/ crawl[a].pc = "paging" /\ (crawl[a].before = Nothing \/ t < crawl[a].before)
    \/ crawl[a].pc = "fetching" /\ ~crawl[a].last /\ t < crawl[a].before

Coming(a, t) == Ahead(a, t) \/ t \in ToSet(crawl[a].todo)
Sending(t)   == \E u \in ToSet(channel) : u.tx = t

Kept(t) ==
    \/ RecordsOf[multisig][t] = <<>>
    \/ \E k \in ToSet(buffered) : k.update.tx = t /\ k.count = Len(RecordsOf[multisig][t])

Covered ==
    phase \in {"starting", "crawling"} /\ MayPush =>
        /\ \A t \in seen : Kept(t)
        /\ \A a \in Address, t \in Transaction : Wanted(a, t) => Coming(a, t) \/ Sending(t) \/ Kept(t)

LEMMA CoveredStart == Init => Covered
  <1> SUFFICES ASSUME Init PROVE Covered
    OBVIOUS
  <1>1. seen = {} /\ \A a \in Address : crawl[a] = NewCrawl
    BY DEF Init
  <1>2. NewCrawl.pc = "paging" /\ NewCrawl.before = Nothing
    BY DEF NewCrawl
  <1>3. \A a \in Address, t \in Transaction : Ahead(a, t)
    BY <1>1, <1>2 DEF Ahead
  <1> QED
    BY <1>1, <1>3 DEF Covered, Coming

\* A step that counts a failure, or a cancellation, ends the chance to push.
LEMMA MayStillPush == Typed /\ [Next]_vars /\ MayPush' =>
    /\ MayPush
    /\ \A a \in Address : ~PageFails(a) /\ ~FetchFails(a) /\ ~StopCrawl(a)
    /\ ~Cancel /\ failures' = failures
  <1> SUFFICES ASSUME Typed, [Next]_vars, MayPush'
               PROVE  /\ MayPush
                      /\ \A a \in Address : ~PageFails(a) /\ ~FetchFails(a) /\ ~StopCrawl(a)
                      /\ ~Cancel /\ failures' = failures
    OBVIOUS
  <1>1. failures \in [crawl : Nat, update : Nat]
    BY DEF Typed, TypedCommand
  <1>2. failures' # [failures EXCEPT !.crawl = @ + 1] /\ failures' # [failures EXCEPT !.update = @ + 1]
    BY <1>1 DEF MayPush
  <1>3. \A a \in Address : ~PageFails(a) /\ ~FetchFails(a)
    BY <1>2 DEF PageFails, FetchFails, CountFailure
  <1>4. ~Cancel
    BY DEF Cancel, MayPush
  <1>5. failures' = failures /\ cancelled' = cancelled
    BY <1>2, <1>3, <1>4
    DEF Next, Progress, Command, Step, vars, Start, Decide, OrderRecords, Done, PushBatch, PushLimited,
        PushFails, ProcessUpdate, Expire, NewTransaction, Kill, FetchPage, StopCrawl,
        FetchTransaction, TurnPage
  <1>6. MayPush
    BY <1>5 DEF MayPush
  <1>7. \A a \in Address : ~StopCrawl(a)
    BY <1>6 DEF StopCrawl, MayPush
  <1> QED
    BY <1>3, <1>4, <1>5, <1>6, <1>7

LEMMA CoveredKept == Typed /\ Covered /\ [Next]_vars => Covered'
  <1> SUFFICES ASSUME Typed, Covered, [Next]_vars, phase' \in {"starting", "crawling"}, MayPush'
               PROVE  /\ \A t \in seen' : Kept(t)'
                      /\ \A a \in Address, t \in Transaction :
                             Wanted(a, t) => Coming(a, t)' \/ Sending(t)' \/ Kept(t)'
    BY DEF Covered, Wanted, InWindow, CutoffTime
  <1>1. /\ MayPush /\ ~Cancel /\ failures' = failures
        /\ \A a \in Address : ~PageFails(a) /\ ~FetchFails(a) /\ ~StopCrawl(a)
    BY MayStillPush
  <1>2. /\ settings' = settings /\ multisig' = multisig /\ settings \in Settings
        /\ phase \in {"starting", "crawling"}
    BY DEF Next, Progress, Command, Step, vars, Start, Decide, OrderRecords, Done, PushBatch,
           PushLimited, PushFails, ProcessUpdate, Expire, Cancel, NewTransaction, Kill, FetchPage,
           StopCrawl, PageFails, FetchTransaction, FetchFails, TurnPage, Typed, TypedCommand, multisig,
           GiveUp
  <1>3. /\ \A t \in seen : Kept(t)
        /\ \A a \in Address, t \in Transaction : Wanted(a, t) => Coming(a, t) \/ Sending(t) \/ Kept(t)
    BY <1>1, <1>2 DEF Covered
  <1>4. crawl \in [Address -> Crawl]
    BY DEF Typed, TypedCrawl
  <1>5. CASE UNCHANGED <<crawl, channel, buffered>> /\ seen' \subseteq seen
    BY <1>2, <1>3, <1>5 DEF Coming, Ahead, Sending, Kept
  <1>6. ASSUME NEW a \in Address, NEW c, crawl' = [crawl EXCEPT ![a] = c],
               UNCHANGED <<channel, seen, buffered>>,
               \A t \in Transaction : Wanted(a, t) /\ Coming(a, t) => Coming(a, t)'
        PROVE  /\ \A t \in seen' : Kept(t)'
               /\ \A b \in Address, t \in Transaction :
                      Wanted(b, t) => Coming(b, t)' \/ Sending(t)' \/ Kept(t)'
    <2>1. \A b \in Address, t \in Transaction : Wanted(b, t) /\ Coming(b, t) => Coming(b, t)'
      BY <1>4, <1>6 DEF Coming, Ahead
    <2>2. \A t : (Sending(t)' <=> Sending(t)) /\ (Kept(t)' <=> Kept(t))
      BY <1>2, <1>6 DEF Sending, Kept
    <2> QED
      BY <1>3, <1>6, <2>1, <2>2
  <1>7. ASSUME NEW a \in Address, FetchPage(a)
        PROVE  /\ \A t \in seen' : Kept(t)'
               /\ \A b \in Address, t \in Transaction :
                      Wanted(b, t) => Coming(b, t)' \/ Sending(t)' \/ Kept(t)'
    <2> DEFINE before   == crawl[a].before
               page     == Page(a, before)
               selected == SelectSignatures(page)
               c == IF selected.signatures = <<>> THEN [NewCrawl EXCEPT !.pc = "done"]
                    ELSE [crawl[a] EXCEPT !.pc = "fetching", !.before = CursorAfter(selected),
                         !.todo = selected.signatures, !.last = IsLastPage(page, selected)]
    <2>1. /\ crawl' = [crawl EXCEPT ![a] = c] /\ UNCHANGED <<channel, seen, buffered>>
          /\ crawl[a].pc = "paging"
      BY <1>4, <1>7 DEF FetchPage, Finish, Crawling
    <2>2. head \in Nat /\ head <= Len(Ledger) /\ ConfirmedAtStart <= head /\ before \in Transaction \union {Nothing}
      BY <1>4, BackfillAssumption, LedgerAssumption DEF Typed, TypedCommand, Crawl
    <2>3. \A t \in Transaction : Wanted(a, t) /\ (before = Nothing \/ t < before) =>
              /\ selected.signatures # <<>>
              /\ \/ t \in ToSet(selected.signatures)
                 \/ ~IsLastPage(page, selected) /\ t < CursorAfter(selected)
      BY <2>2, PageCovers DEF Wanted
    <2>4. crawl[a].todo = <<>> /\ ToSet(crawl[a].todo) = {}
      <3>1. crawl[a].todo = <<>>
        BY <2>1 DEF Typed, TypedCrawl
      <3> QED
        BY <3>1 DEF ToSet
    <2>5. crawl'[a] = c
      BY <1>4, <2>1
    <2> HIDE DEF page, selected, before
    <2>6. selected.signatures # <<>> =>
              /\ c.pc = "fetching" /\ c.before = CursorAfter(selected) /\ c.todo = selected.signatures
              /\ c.last = IsLastPage(page, selected)
      BY <1>4 DEF Crawl
    <2> HIDE DEF c
    <2>7. ASSUME NEW t \in Transaction, Wanted(a, t), Coming(a, t) PROVE Coming(a, t)'
      <3>1. before = Nothing \/ t < before
        BY <2>1, <2>4, <2>7 DEF Coming, Ahead, before
      <3> QED
        BY <2>3, <2>5, <2>6, <2>7, <3>1 DEF Coming, Ahead
    <2> QED
      BY <1>6, <2>1, <2>7
  <1>8. ASSUME NEW a \in Address, TurnPage(a)
        PROVE  /\ \A t \in seen' : Kept(t)'
               /\ \A b \in Address, t \in Transaction :
                      Wanted(b, t) => Coming(b, t)' \/ Sending(t)' \/ Kept(t)'
    <2> DEFINE c == IF crawl[a].last THEN [NewCrawl EXCEPT !.pc = "done"] ELSE [crawl[a] EXCEPT !.pc = "paging"]
    <2>1. /\ crawl' = [crawl EXCEPT ![a] = c] /\ UNCHANGED <<channel, seen, buffered>>
          /\ crawl[a].pc = "fetching" /\ crawl[a].todo = <<>>
      BY <1>4, <1>8 DEF TurnPage, Finish, Crawling
    <2>2. ToSet(crawl[a].todo) = {}
      BY <2>1 DEF ToSet
    <2>3. crawl'[a] = c
      BY <1>4, <2>1
    <2>4. ~crawl[a].last => c.pc = "paging" /\ c.before = crawl[a].before
      BY <1>4 DEF Crawl
    <2> HIDE DEF c
    <2>5. ASSUME NEW t \in Transaction, Wanted(a, t), Coming(a, t) PROVE Coming(a, t)'
      BY <2>1, <2>2, <2>3, <2>4, <2>5 DEF Coming, Ahead
    <2> QED
      BY <1>6, <2>1, <2>5
  <1>9. ASSUME NEW a \in Address, FetchTransaction(a)
        PROVE  /\ \A t \in seen' : Kept(t)'
               /\ \A b \in Address, t \in Transaction :
                      Wanted(b, t) => Coming(b, t)' \/ Sending(t)' \/ Kept(t)'
    <2>1. PICK i \in InFlight(a) :
              /\ crawl' = Settled(a, i)
              /\ \E time \in {Ledger[crawl[a].todo[i]].time, Nothing} :
                     channel' = Append(channel, [tx |-> crawl[a].todo[i], time |-> time])
      BY <1>9 DEF FetchTransaction
    <2> DEFINE todo == crawl[a].todo
               c == [crawl[a] EXCEPT !.todo = RemoveAt(todo, i)]
    <2>0. PICK s : s = todo[i]
      OBVIOUS
    <2>2. PICK time : channel' = Append(channel, [tx |-> s, time |-> time])
      BY <2>0, <2>1
    <2>3. UNCHANGED <<seen, buffered>>
      BY <1>9 DEF FetchTransaction
    <2>4. crawl' = [crawl EXCEPT ![a] = c]
      BY <1>4, <2>1 DEF Settled
    <2>5. /\ todo \in Seq(Within) /\ i \in 1..Len(todo)
      BY DEF InFlight, Typed, TypedCrawl
    <2> HIDE DEF todo
    <2>6. ToSet(todo) \subseteq ToSet(RemoveAt(todo, i)) \union {s}
      BY <2>0, <2>5, Removing
    <2>7. c.pc = crawl[a].pc /\ c.before = crawl[a].before /\ c.last = crawl[a].last /\ c.todo = RemoveAt(todo, i)
      BY <1>4 DEF Crawl
    <2> HIDE DEF c
    <2>8. crawl'[a] = c /\ \A b \in Address : b # a => crawl'[b] = crawl[b]
      BY <1>4, <2>4
    <2>9. \A b \in Address, t \in Transaction : Coming(b, t) => Coming(b, t)' \/ t = s
      BY <2>6, <2>7, <2>8 DEF Coming, Ahead, todo
    <2>10. Sending(s)' /\ \A t : Sending(t) => Sending(t)'
      <3> DEFINE u == [tx |-> s, time |-> time]
                 X == ToSet(channel) \union {u}
      <3>0. u.tx = s
        OBVIOUS
      <3> HIDE DEF u
      <3>1. channel \in Seq(X)
        <4>1. channel \in Seq(Sent)
          BY DEF Typed, TypedChannel
        <4> QED
          BY <4>1 DEF ToSet
      <3>2. u \in X
        OBVIOUS
      <3> HIDE DEF X
      <3>3. ToSet(Append(channel, u)) = ToSet(channel) \union {u}
        BY <3>1, <3>2, AppendingOne
      <3>4. channel' = Append(channel, u)
        BY <2>2 DEF u
      <3> QED
        BY <3>0, <3>3, <3>4 DEF Sending
    <2>11. \A t : Kept(t)' <=> Kept(t)
      BY <1>2, <2>3 DEF Kept
    <2> QED
      BY <1>3, <2>3, <2>9, <2>10, <2>11
  <1>10. CASE ProcessUpdate
    <2>0. PICK s : s = Head(channel).tx
      OBVIOUS
    <2> DEFINE update  == Head(channel)
               records == RecordsOf[multisig][s]
               count   == IF s \in seen THEN 0 ELSE Len(records)
               u       == [update |-> update, count |-> count]
    <2>1. /\ channel # <<>> /\ channel' = Tail(channel) /\ channel \in Seq(Sent)
          /\ seen' = seen \union {s} /\ crawl' = crawl
      BY <1>10, <2>0 DEF ProcessUpdate, Typed, TypedChannel
    <2>2. buffered' = IF count = 0 THEN buffered ELSE Append(buffered, u)
      <3>1. failures' # [failures EXCEPT !.update = @ + 1]
        <4>1. failures \in [crawl : Nat, update : Nat]
          BY DEF Typed, TypedCommand
        <4> QED
          BY <1>1, <4>1
      <3> QED
        BY <1>10, <2>0, <3>1 DEF ProcessUpdate
    <2>3. update \in ToSet(channel) /\ ToSet(channel) \subseteq ToSet(channel') \union {update}
      BY <2>1, Tailing
    <2>4. update \in Sent /\ s \in Transaction
      <3>1. update \in Sent
        BY <2>1
      <3> QED
        BY <2>0, <3>1 DEF Sent, Within
    <2>5. Len(records) \in Nat /\ (Len(records) = 0 => records = <<>>)
      <3>1. records \in Seq(OfTransaction(s))
        BY <1>2, <2>4, RecordsTyped DEF multisig
      <3> HIDE DEF records
      <3> QED
        BY <3>1
    <2>6. u.update.tx = s /\ u.count = count
      BY <2>0
    <2>7. count # 0 => u \in ToSet(buffered')
      <3> DEFINE X == ToSet(buffered) \union {u}
      <3> HIDE DEF u, count
      <3>1. buffered \in Seq(X)
        <4>1. buffered \in Seq(Logged(multisig))
          BY DEF Typed, TypedRecords
        <4> QED
          BY <4>1 DEF ToSet
      <3>2. u \in X
        OBVIOUS
      <3> HIDE DEF X
      <3> QED
        BY <2>2, <3>1, <3>2, AppendingOne
    <2>8. ToSet(buffered) \subseteq ToSet(buffered')
      <3> DEFINE X == ToSet(buffered) \union {u}
      <3> HIDE DEF u, count
      <3>1. buffered \in Seq(X)
        <4>1. buffered \in Seq(Logged(multisig))
          BY DEF Typed, TypedRecords
        <4> QED
          BY <4>1 DEF ToSet
      <3>2. u \in X
        OBVIOUS
      <3> HIDE DEF X
      <3> QED
        BY <2>2, <3>1, <3>2, AppendingOne
    <2>9. \A t : Kept(t) => Kept(t)'
      BY <1>2, <2>8 DEF Kept
    <2>10. Kept(s)'
      <3>1. CASE s \in seen
        BY <1>3, <2>9, <3>1
      <3>2. CASE s \notin seen
        <4>1. count = Len(records)
          BY <3>2
        <4> HIDE DEF u, count
        <4>2. CASE count = 0
          BY <1>2, <2>5, <4>1, <4>2 DEF Kept
        <4>3. CASE count # 0
          BY <1>2, <2>6, <2>7, <4>1, <4>3 DEF Kept
        <4> QED
          BY <4>2, <4>3
      <3> QED
        BY <3>1, <3>2
    <2>11. \A t : Sending(t) => Sending(t)' \/ t = s
      BY <2>0, <2>3 DEF Sending
    <2>12. \A b, t : Coming(b, t) => Coming(b, t)'
      BY <2>1 DEF Coming, Ahead
    <2> QED
      BY <1>3, <2>1, <2>9, <2>10, <2>11, <2>12
  <1>11. \/ UNCHANGED <<crawl, channel, buffered>> /\ seen' \subseteq seen
         \/ ProcessUpdate
         \/ \E a \in Address : FetchPage(a) \/ TurnPage(a) \/ FetchTransaction(a)
    <2>1. Start \/ Expire \/ NewTransaction \/ UNCHANGED vars =>
              UNCHANGED <<crawl, channel, buffered>> /\ seen' \subseteq seen
      BY DEF Start, Expire, NewTransaction, vars, crawling
    <2>2. ~(Decide \/ OrderRecords \/ Done \/ PushBatch \/ PushLimited \/ PushFails \/ Kill)
      BY <1>2 DEF Decide, OrderRecords, Done, PushBatch, PushLimited, PushFails, Kill
    <2> QED
      BY <1>1, <2>1, <2>2 DEF Next, Progress, Command, Step
  <1> QED
    BY <1>5, <1>7, <1>8, <1>9, <1>10, <1>11

-------------------------------------------------------------------------------
(* What is collected, and what has been pushed of it. *)

Stored(n) == UNION {ToSet(batches[i]) : i \in 1..n}

InOrder ==
    /\ \A i \in DOMAIN batches : Ordered(batches[i], Older(multisig))
    /\ \A i, j \in DOMAIN batches : i < j => Across(batches[i], batches[j], Older(multisig))

Gathered ==
    /\ phase = "ordering" => \A t \in Transaction : InWindow(t) => Kept(t)
    /\ phase \in Pushes =>
           \A t \in Transaction : InWindow(t) => LinesOf(multisig, t) \subseteq Collected

PushedInOrder ==
    /\ InOrder
    /\ phase = "pushing" => loki = Stored(pushed)
    /\ phase = "complete" => loki = Collected

Begun == phase \in {"crawling", "ordering"} \union Pushes => Since <= LokiLimit(limits)

BackfillInv == Typed /\ Covered /\ Gathered /\ PushedInOrder /\ Begun

\* What has been pushed is the first batches.
LEMMA StoredSteps == Typed =>
    /\ Collected = Stored(Len(batches)) /\ Stored(0) = {}
    /\ Collected \subseteq Line(multisig)
    /\ \A n \in 0..Len(batches) : Stored(n) \subseteq Collected
    /\ \A n \in Nat : Stored(n + 1) = Stored(n) \union ToSet(batches[n + 1])
  <1> SUFFICES ASSUME Typed
               PROVE  /\ Collected = Stored(Len(batches)) /\ Stored(0) = {}
                      /\ Collected \subseteq Line(multisig)
                      /\ \A n \in 0..Len(batches) : Stored(n) \subseteq Collected
                      /\ \A n \in Nat : Stored(n + 1) = Stored(n) \union ToSet(batches[n + 1])
    OBVIOUS
  <1>1. batches \in Seq(Seq(Line(multisig))) /\ Len(batches) \in Nat /\ DOMAIN batches = 1..Len(batches)
    BY DEF Typed, TypedRecords
  <1>2. Collected = Stored(Len(batches))
    BY <1>1, Flattening DEF Collected, Stored
  <1>3. Stored(0) = {}
    BY DEF Stored
  <1>4. ASSUME NEW e \in Collected PROVE e \in Line(multisig)
    <2>1. PICK i \in DOMAIN batches : e \in ToSet(batches[i])
      BY <1>1, <1>2 DEF Stored
    <2>2. batches[i] \in Seq(Line(multisig))
      BY <1>1, <2>1
    <2> DEFINE batch == batches[i]
    <2> HIDE DEF batch
    <2>3. batch \in Seq(Line(multisig)) /\ e \in ToSet(batch)
      BY <2>1, <2>2 DEF batch
    <2> QED
      BY <2>3 DEF ToSet
  <1>5. ASSUME NEW n \in 0..Len(batches) PROVE Stored(n) \subseteq Stored(Len(batches))
    <2>1. \A i \in 1..n : i \in 1..Len(batches)
      BY <1>1
    <2> QED
      BY <2>1 DEF Stored
  <1>6. ASSUME NEW n \in Nat PROVE Stored(n + 1) = Stored(n) \union ToSet(batches[n + 1])
    <2>1. 1..n + 1 = (1..n) \union {n + 1}
      OBVIOUS
    <2> QED
      BY <2>1 DEF Stored
  <1> QED
    BY <1>2, <1>3, <1>4, <1>5, <1>6

LEMMA GatheredKept == Typed /\ Covered /\ Gathered /\ [Next]_vars => Gathered'
  <1> SUFFICES ASSUME Typed, Covered, Gathered, [Next]_vars PROVE Gathered'
    OBVIOUS
  <1>0. settings' = settings /\ multisig' = multisig /\ settings \in Settings
        /\ buffered \in Seq(Logged(multisig))
    <2>1. settings' = settings
      BY DEF Next, Progress, Command, Step, vars, Start, Decide, OrderRecords, Done, PushBatch,
             PushLimited, PushFails, ProcessUpdate, Expire, Cancel, NewTransaction, Kill, FetchPage,
             StopCrawl, PageFails, FetchTransaction, FetchFails, TurnPage
    <2> QED
      BY <2>1 DEF Typed, TypedCommand, TypedRecords, multisig
  <1>1. CASE phase' \notin {"ordering"} \union Pushes
    BY <1>1 DEF Gathered
  <1>2. CASE Decide
    <2>1. CASE ~MayPush
      BY <1>2, <2>1 DEF Decide, Gathered, Pushes
    <2>2. CASE MayPush
      <3>1. /\ phase = "crawling" /\ phase' = "ordering" /\ UNCHANGED buffered
            /\ channel = <<>> /\ \A a \in Address : crawl[a].pc = "done"
        BY <1>2, <2>2 DEF Decide, PipelineReturned
      <3>2. \A a \in Address : crawl[a].todo = <<>>
        BY <3>1 DEF Typed, TypedCrawl
      <3>3. ToSet(<<>>) = {}
        BY DEF ToSet
      <3>4. \A a \in Address, t \in Transaction : ~Coming(a, t) /\ ~Sending(t)
        BY <3>1, <3>2, <3>3 DEF Coming, Ahead, Sending
      <3>5. ASSUME NEW t \in Transaction, InWindow(t) PROVE Kept(t)
        <4>1. PICK a \in Address : a \in Ledger[t].touches
          BY <3>5, LedgerFields DEF InWindow
        <4> QED
          BY <2>2, <3>1, <3>4, <3>5, <4>1 DEF Covered, Wanted
      <3>6. \A t : Kept(t)' <=> Kept(t)
        BY <1>0, <3>1 DEF Kept
      <3> QED
        BY <3>1, <3>5, <3>6 DEF Gathered, Pushes, InWindow, CutoffTime
    <2> QED
      BY <2>1, <2>2
  <1>3. CASE OrderRecords
    <2>1. CASE \E i \in DOMAIN buffered : buffered[i].update.time = Nothing
      BY <1>3, <2>1 DEF OrderRecords, Gathered, Pushes
    <2>2. CASE ~\E i \in DOMAIN buffered : buffered[i].update.time = Nothing
      <3> DEFINE lines == AllLines(ByBlockTime(buffered))
      <3>1. phase = "ordering" /\ phase' = "pushing" /\ batches' = Chunks(lines)
        BY <1>3, <2>2 DEF OrderRecords
      <3>2. /\ lines \in Seq(Line(multisig))
            /\ \A k \in ToSet(buffered) : k.count = Len(RecordsOf[multisig][k.update.tx]) =>
                   LinesOf(multisig, k.update.tx) \subseteq ToSet(lines)
        BY <1>0, <2>2, OrderedLines
      <3> HIDE DEF lines
      <3>3. /\ Chunks(lines) \in Seq(Seq(Line(multisig)))
            /\ UNION {ToSet(Chunks(lines)[i]) : i \in DOMAIN Chunks(lines)} = ToSet(lines)
        BY <3>2, Batching
      <3>4. Collected' = ToSet(lines)
        <4>1. ToSet(FlattenSeq(batches')) = UNION {ToSet(batches'[i]) : i \in DOMAIN batches'}
          BY <3>1, <3>3, Flattening
        <4> QED
          BY <3>1, <3>3, <4>1 DEF Collected
      <3>5. ASSUME NEW t \in Transaction, InWindow(t) PROVE LinesOf(multisig, t) \subseteq ToSet(lines)
        <4>1. Kept(t)
          BY <3>1, <3>5 DEF Gathered
        <4>2. CASE RecordsOf[multisig][t] = <<>>
          BY <4>2 DEF LinesOf, ToSet
        <4>3. CASE RecordsOf[multisig][t] # <<>>
          BY <3>2, <4>1, <4>3 DEF Kept
        <4> QED
          BY <4>2, <4>3
      <3> QED
        BY <1>0, <3>1, <3>4, <3>5 DEF Gathered, InWindow, CutoffTime
    <2> QED
      BY <2>1, <2>2
  <1>4. CASE /\ phase' \in {"ordering"} \union Pushes
             /\ UNCHANGED <<buffered, batches>> /\ (phase' \in Pushes => phase \in Pushes)
             /\ (phase' = "ordering" => phase = "ordering")
    <2>1. \A t : Kept(t)' <=> Kept(t)
      BY <1>0, <1>4 DEF Kept
    <2>2. Collected' = Collected
      BY <1>4 DEF Collected
    <2> QED
      BY <1>0, <1>4, <2>1, <2>2 DEF Gathered, InWindow, CutoffTime
  <1>5. \/ phase' \notin {"ordering"} \union Pushes
        \/ Decide \/ OrderRecords
        \/ /\ UNCHANGED <<buffered, batches>> /\ (phase' \in Pushes => phase \in Pushes)
           /\ (phase' = "ordering" => phase = "ordering")
    <2>1. ASSUME NEW a \in Address, Step(a)
          PROVE  phase' = "crawling"
      BY <2>1 DEF Step, FetchPage, StopCrawl, PageFails, FetchTransaction, FetchFails, TurnPage, Crawling
    <2>2. Start \/ ProcessUpdate \/ Expire \/ Cancel \/ NewTransaction => phase' \in {"crawling", "refused"}
      BY DEF Start, ProcessUpdate, Expire, Cancel, NewTransaction
    <2>3. Done \/ PushBatch \/ PushLimited \/ PushFails \/ Kill \/ UNCHANGED vars =>
              /\ UNCHANGED <<buffered, batches>> /\ (phase' \in Pushes => phase \in Pushes)
              /\ (phase' = "ordering" => phase = "ordering")
      BY DEF Done, PushBatch, PushLimited, GiveUp, PushFails, Kill, vars, Pushes, pushing
    <2> QED
      BY <2>1, <2>2, <2>3 DEF Next, Progress, Command, Pushes
  <1> QED
    BY <1>1, <1>2, <1>3, <1>4, <1>5

LEMMA PushedInOrderKept == Typed /\ PushedInOrder /\ [Next]_vars => PushedInOrder'
  <1> SUFFICES ASSUME Typed, PushedInOrder, [Next]_vars PROVE PushedInOrder'
    OBVIOUS
  <1>0. /\ settings' = settings /\ multisig' = multisig /\ settings \in Settings
        /\ buffered \in Seq(Logged(multisig)) /\ pushed \in Nat
        /\ phase \notin Pushes => pushed = 0 /\ loki = {}
    <2>1. settings' = settings
      BY DEF Next, Progress, Command, Step, vars, Start, Decide, OrderRecords, Done, PushBatch,
             PushLimited, PushFails, ProcessUpdate, Expire, Cancel, NewTransaction, Kill, FetchPage,
             StopCrawl, PageFails, FetchTransaction, FetchFails, TurnPage
    <2>2. pushed \in Nat
      BY DEF Typed, TypedRecords
    <2> QED
      BY <2>1, <2>2 DEF Typed, TypedCommand, TypedRecords, multisig
  <1>1. UNCHANGED batches => InOrder'
    BY <1>0 DEF PushedInOrder, InOrder
  <1>2. UNCHANGED batches => Collected' = Collected /\ \A n : Stored(n)' = Stored(n)
    BY DEF Collected, Stored
  <1>3. CASE OrderRecords /\ phase' = "pushing"
    <2> DEFINE lines == AllLines(ByBlockTime(buffered))
    <2>1. /\ phase = "ordering" /\ batches' = Chunks(lines) /\ UNCHANGED <<pushed, loki>>
          /\ \A i \in DOMAIN buffered : buffered[i].update.time # Nothing
      BY <1>3 DEF OrderRecords
    <2>2. lines \in Seq(Line(multisig)) /\ Ordered(lines, Older(multisig))
      BY <1>0, <2>1, OrderedLines
    <2> HIDE DEF lines
    <2>3. InOrder'
      BY <1>0, <2>1, <2>2, Batching DEF InOrder
    <2>4. pushed' = 0 /\ loki' = {}
      BY <1>0, <2>1 DEF Pushes
    <2>5. Stored(pushed)' = {}
      BY <2>4 DEF Stored
    <2> QED
      BY <1>3, <2>3, <2>4, <2>5 DEF PushedInOrder
  <1>4. CASE PushBatch
    <2>1. /\ phase = "pushing" /\ phase' = "pushing" /\ pushed' = pushed + 1 /\ UNCHANGED batches
          /\ loki' = loki \union ToSet(batches[pushed + 1])
      BY <1>4 DEF PushBatch, Batch
    <2>2. loki = Stored(pushed)
      BY <2>1 DEF PushedInOrder
    <2>3. Stored(pushed)' = Stored(pushed + 1)
      BY <2>1 DEF Stored
    <2>4. Stored(pushed + 1) = Stored(pushed) \union ToSet(batches[pushed + 1])
      BY <1>0, StoredSteps
    <2> QED
      BY <1>1, <2>1, <2>2, <2>3, <2>4 DEF PushedInOrder
  <1>5. CASE Done
    <2>1. /\ phase = "pushing" /\ phase' = "complete" /\ pushed = Len(batches) /\ UNCHANGED <<batches, loki>>
      BY <1>5 DEF Done, pushing
    <2>2. loki = Collected
      BY <2>1, StoredSteps DEF PushedInOrder
    <2> QED
      BY <1>1, <1>2, <2>1, <2>2 DEF PushedInOrder
  <1>6. CASE UNCHANGED batches /\ phase' \notin {"pushing", "complete"}
    BY <1>1, <1>6 DEF PushedInOrder
  <1>7. CASE UNCHANGED <<batches, pushed, loki, phase>>
    <2>1. Stored(pushed)' = Stored(pushed)
      BY <1>7 DEF Stored
    <2> QED
      BY <1>1, <1>2, <1>7, <2>1 DEF PushedInOrder
  <1>8. \/ OrderRecords /\ phase' = "pushing"
        \/ PushBatch \/ Done
        \/ UNCHANGED batches /\ phase' \notin {"pushing", "complete"}
        \/ UNCHANGED <<batches, pushed, loki, phase>>
    <2>1. ASSUME NEW a \in Address, Step(a)
          PROVE  UNCHANGED <<batches, pushed, loki, phase>>
      BY <2>1 DEF Step, FetchPage, StopCrawl, PageFails, FetchTransaction, FetchFails, TurnPage, pushing
    <2>2. ProcessUpdate \/ Expire \/ Cancel \/ NewTransaction \/ UNCHANGED vars =>
              UNCHANGED <<batches, pushed, loki, phase>>
      BY DEF ProcessUpdate, Expire, Cancel, NewTransaction, vars, pushing
    <2>3. Start \/ Decide \/ PushFails \/ Kill => UNCHANGED batches /\ phase' \notin {"pushing", "complete"}
      BY DEF Start, Decide, PushFails, Kill, pushing
    <2>4. OrderRecords /\ phase' # "pushing" => UNCHANGED batches /\ phase' \notin {"pushing", "complete"}
      BY DEF OrderRecords
    <2>5. PushLimited => \/ UNCHANGED batches /\ phase' \notin {"pushing", "complete"}
                         \/ UNCHANGED <<batches, pushed, loki, phase>>
      BY DEF PushLimited, GiveUp
    <2> QED
      BY <2>1, <2>2, <2>3, <2>4, <2>5 DEF Next, Progress, Command
  <1> QED
    BY <1>3, <1>4, <1>5, <1>6, <1>7, <1>8

LEMMA BegunKept == Typed /\ Begun /\ [Next]_vars => Begun'
  <1> SUFFICES ASSUME Typed, Begun, [Next]_vars,
                      phase' \in {"crawling", "ordering"} \union Pushes
               PROVE  (Since <= LokiLimit(limits))'
    BY DEF Begun
  <1>1. settings' = settings
    BY DEF Next, Progress, Command, Step, vars, Start, Decide, OrderRecords, Done, PushBatch,
           PushLimited, PushFails, ProcessUpdate, Expire, Cancel, NewTransaction, Kill, FetchPage,
           StopCrawl, PageFails, FetchTransaction, FetchFails, TurnPage
  <1>2. Start \/ phase \in {"crawling", "ordering"} \union Pushes
    <2>1. ASSUME NEW a \in Address, Step(a) PROVE phase = "crawling"
      BY <2>1 DEF Step, FetchPage, StopCrawl, PageFails, FetchTransaction, FetchFails, TurnPage, Crawling
    <2>2. UNCHANGED vars => phase' = phase
      BY DEF vars
    <2> QED
      BY <2>1, <2>2
      DEF Next, Progress, Command, Decide, OrderRecords, Done, PushBatch, PushLimited, PushFails,
          ProcessUpdate, Expire, Cancel, NewTransaction, Kill, Pushes
  <1>3. Since <= LokiLimit(limits)
    <2>1. Start => Starts
      BY DEF Start, Pushes
    <2> QED
      BY <1>2, <2>1 DEF Starts, Begun
  <1> QED
    BY <1>1, <1>3 DEF limits, LokiLimit

LEMMA BackfillInvStart == Init => BackfillInv
  <1> SUFFICES ASSUME Init PROVE BackfillInv
    OBVIOUS
  <1>1. Typed /\ Covered
    BY TypedStart, CoveredStart
  <1>2. phase = "starting" /\ batches = <<>>
    BY DEF Init
  <1>3. Gathered /\ Begun
    BY <1>2 DEF Gathered, Begun, Pushes
  <1>4. DOMAIN batches = {}
    BY <1>2
  <1>5. PushedInOrder
    BY <1>2, <1>4 DEF PushedInOrder, InOrder
  <1> QED
    BY <1>1, <1>3, <1>5 DEF BackfillInv

LEMMA BackfillInvKept == BackfillInv /\ [Next]_vars => BackfillInv'
  BY TypedKept, CoveredKept, GatheredKept, PushedInOrderKept, BegunKept DEF BackfillInv

THEOREM Invariance == Spec => []BackfillInv
  <1>1. Init => BackfillInv
    BY BackfillInvStart
  <1>2. BackfillInv /\ [Next]_vars => BackfillInv'
    BY BackfillInvKept
  <1> QED
    BY <1>1, <1>2, PTL DEF Spec

-------------------------------------------------------------------------------
(* What the command guarantees. *)

\* Nothing is pushed unless every transaction of the window, of either address, was
\* crawled, fetched, converted and processed, whatever interleaved and whatever failed.
THEOREM PushedWhole == Spec => []PushedOnlyIfWhole
  <1>1. BackfillInv => PushedOnlyIfWhole
    <2> SUFFICES ASSUME BackfillInv, phase \in Pushes, NEW t \in Transaction, InWindow(t),
                        NEW record \in ToSet(RecordsOf[multisig][t])
                 PROVE  [time |-> Ledger[t].time, record |-> record] \in Collected
      BY DEF PushedOnlyIfWhole, Pushes
    <2>1. LinesOf(multisig, t) \subseteq Collected
      BY DEF BackfillInv, Gathered
    <2> QED
      BY <2>1 DEF LinesOf
  <1> QED
    BY <1>1, Invariance, PTL

\* Loki never finds an entry behind those it already has of the stream, however the
\* crawls and the fetches interleaved.
THEOREM OldestPushedFirst == Spec => []NeverTooFarBehind
  <1>1. BackfillInv => NeverTooFarBehind
    <2> SUFFICES ASSUME BackfillInv, phase = "pushing", pushed < Len(batches),
                        NEW i \in DOMAIN Batch,
                        NEW newer \in loki \union ToSet(SubSeq(Batch, 1, i - 1))
                 PROVE  ~(Batch[i].time + OutOfOrderWindow < newer.time)
      BY DEF NeverTooFarBehind, TooFarBehind
    <2>1. /\ batches \in Seq(Seq(Line(multisig))) /\ pushed \in 0..Len(batches)
          /\ settings \in Settings
      BY DEF BackfillInv, Typed, TypedCommand, TypedRecords
    <2>2. pushed + 1 \in DOMAIN batches /\ DOMAIN batches = 1..Len(batches) /\ Batch = batches[pushed + 1]
      BY <2>1 DEF Batch
    <2>3. Batch \in Seq(Line(multisig)) /\ Ordered(Batch, Older(multisig))
      <3>1. batches[pushed + 1] \in Seq(Line(multisig))
        BY <2>1, <2>2
      <3>2. Ordered(batches[pushed + 1], Older(multisig))
        BY <2>2 DEF BackfillInv, PushedInOrder, InOrder
      <3> QED
        BY <2>2, <3>1, <3>2
    <2>4. <<newer, Batch[i]>> \in Older(multisig)
      <3>1. CASE newer \in loki
        <4>1. newer \in Stored(pushed)
          BY <3>1 DEF BackfillInv, PushedInOrder
        <4>2. PICK j \in 1..pushed : newer \in ToSet(batches[j])
          BY <4>1 DEF Stored
        <4>3. j \in DOMAIN batches /\ j < pushed + 1
          BY <2>1, <2>2, <4>2
        <4>4. Across(batches[j], Batch, Older(multisig))
          BY <2>2, <4>3 DEF BackfillInv, PushedInOrder, InOrder
        <4>5. PICK p \in DOMAIN batches[j] : newer = batches[j][p]
          BY <4>2 DEF ToSet
        <4> QED
          BY <4>4, <4>5 DEF Across
      <3>2. CASE newer \in ToSet(SubSeq(Batch, 1, i - 1))
        <4> DEFINE batch == Batch
        <4>1. batch \in Seq(Line(multisig)) /\ i \in 1..Len(batch) /\ DOMAIN batch = 1..Len(batch)
          BY <2>3
        <4> HIDE DEF batch
        <4>2. i - 1 \in 0..Len(batch) /\ 1 \in Nat \ {0}
          BY <4>1
        <4>3. ToSet(SubSeq(batch, 1, i - 1)) = {batch[p] : p \in 1..i - 1}
          BY <4>1, <4>2, Slice
        <4>4. PICK p \in 1..i - 1 : newer = batch[p]
          BY <3>2, <4>3 DEF batch
        <4>5. p \in DOMAIN batch /\ p < i
          BY <4>1, <4>4
        <4> QED
          BY <2>3, <4>4, <4>5 DEF Ordered, batch
      <3> QED
        BY <3>1, <3>2
    <2>5. newer \in Line(multisig) /\ Batch[i] \in Line(multisig) /\ newer.time <= Batch[i].time
      BY <2>4 DEF Older
    <2>6. newer.time \in Nat /\ Batch[i].time \in Nat
      BY <2>1, <2>5, LineFields DEF multisig
    <2> QED
      BY <2>5, <2>6, BackfillAssumption
  <1> QED
    BY <1>1, Invariance, PTL

\* Whatever Loki's limits are, a command that starts pushes no record of the window
\* that Loki would reject for its age or drop at once.
THEOREM WithinLimits == Spec => []NothingIsTooOld
  <1>1. BackfillInv => NothingIsTooOld
    <2> SUFFICES ASSUME BackfillInv, phase \in Pushes, NEW e \in Collected,
                        Ledger[e.record.signature].listed # Nothing
                 PROVE  /\ limits.reject => Now - e.time <= limits.maxAge
                        /\ limits.retention # 0 => Now - e.time <= limits.retention
      BY DEF NothingIsTooOld, Pushes
    <2>1. settings \in Settings /\ e \in Line(multisig)
      BY StoredSteps DEF BackfillInv, Typed, TypedCommand
    <2> DEFINE t == e.record.signature
    <2>2. t \in Within /\ e.time = Ledger[t].time /\ e.time \in Nat
      BY <2>1, LineFields DEF multisig
    <2> HIDE DEF t
    <2>3. Ledger[t].listed = e.time /\ ~(Ledger[t].listed < CutoffTime)
      BY <2>2, LedgerFields DEF t, Within, BeyondCutoff
    <2>4. Now \in Nat /\ Since \in Nat
      BY BackfillAssumption
    <2> DEFINE time == e.time
    <2>5. time \in Nat /\ ~(time < Now - Since)
      BY <2>2, <2>3 DEF CutoffTime
    <2> HIDE DEF time
    <2>6. Now - time <= Since
      BY <2>4, <2>5
    <2>7. Since <= LokiLimit(limits)
      BY DEF BackfillInv, Begun
    <2>8. limits \in [reject : BOOLEAN, maxAge : Nat, retention : Nat]
      BY <2>1, SettingsAssumption DEF limits
    <2>9. /\ limits.reject => LokiLimit(limits) <= limits.maxAge
          /\ limits.retention # 0 => LokiLimit(limits) <= limits.retention
          /\ LokiLimit(limits) \in Nat
      BY <2>4, <2>8 DEF LokiLimit
    <2> DEFINE limit == LokiLimit(limits)
    <2> HIDE DEF limit
    <2>10. /\ limits.reject => Now - time <= limits.maxAge
           /\ limits.retention # 0 => Now - time <= limits.retention
      <3>1. Now - time \in Int /\ Now - time <= Since /\ Since <= limit /\ limit \in Nat
        BY <2>4, <2>5, <2>6, <2>7, <2>9 DEF limit
      <3> QED
        BY <2>4, <2>8, <2>9, <3>1 DEF limit
    <2> QED
      BY <2>10 DEF time
  <1> QED
    BY <1>1, Invariance, PTL

\* When the backfill is complete, Loki has every occurrence of an instruction, event
\* or action of the window, each under its own path and name, and nothing else.
THEOREM EveryOccurrence == Spec => []EveryOccurrenceIsArchived
  <1>1. BackfillInv => EveryOccurrenceIsArchived
    <2> DEFINE found(t) == {l \in loki : l.record.signature = t /\ l.record.kind # "event_decode_failure"}
               archived(t) == {<<e.record.path, e.record.name>> : e \in found(t)}
    <2> SUFFICES ASSUME BackfillInv, phase = "complete", NEW t \in Transaction, InWindow(t)
                 PROVE  archived(t) = Expected(t)
      BY DEF EveryOccurrenceIsArchived
    <2> DEFINE records == RecordsOf[multisig][t]
    <2>1. settings \in Settings /\ Collected \subseteq Line(multisig) /\ loki = Collected
      BY StoredSteps DEF BackfillInv, Typed, TypedCommand, PushedInOrder
    <2>2. Expected(t) = Told(records)
      BY <2>1, AsExpected
    <2>3. ASSUME NEW r \in ToSet(records) PROVE \E l \in loki : l.record = r /\ r.signature = t
      <3>1. [time |-> Ledger[t].time, record |-> r] \in LinesOf(multisig, t)
        BY DEF LinesOf
      <3>2. LinesOf(multisig, t) \subseteq loki
        BY <2>1 DEF BackfillInv, Gathered, Pushes
      <3>3. r.signature = t
        <4>1. records \in Seq(OfTransaction(t))
          BY <2>1, RecordsTyped DEF multisig
        <4> HIDE DEF records
        <4>2. r \in OfTransaction(t)
          BY <4>1 DEF ToSet
        <4> QED
          BY <4>2 DEF OfTransaction
      <3> QED
        BY <3>1, <3>2, <3>3
    <2>4. ASSUME NEW l \in loki, l.record.signature = t PROVE l.record \in ToSet(records)
      BY <2>1, <2>4, LineFields DEF multisig
    <2> HIDE DEF records
    <2>5. {l.record : l \in found(t)} = {r \in ToSet(records) : r.kind # "event_decode_failure"}
      BY <2>3, <2>4
    <2>6. archived(t) = {<<r.path, r.name>> : r \in {l.record : l \in found(t)}}
      <3> HIDE DEF found
      <3> QED
        OBVIOUS
    <2> QED
      BY <2>2, <2>5, <2>6 DEF Told
  <1> QED
    BY <1>1, Invariance, PTL

-------------------------------------------------------------------------------
(* The promise of a backfill. *)

\* What is pushed after a point is no older than what was pushed before it.
LEMMA PrefixIsOldest ==
    ASSUME BackfillInv, NEW n \in 0..Len(batches), NEW e \in Stored(n), NEW f \in Collected \ Stored(n)
    PROVE  e.time <= f.time
  <1>1. /\ batches \in Seq(Seq(Line(multisig))) /\ Len(batches) \in Nat /\ DOMAIN batches = 1..Len(batches)
        /\ Collected = Stored(Len(batches))
    BY StoredSteps DEF BackfillInv, Typed, TypedRecords
  <1>2. PICK i \in 1..n : e \in ToSet(batches[i])
    BY DEF Stored
  <1>3. PICK j \in 1..Len(batches) : f \in ToSet(batches[j])
    BY <1>1 DEF Stored
  <1>4. j \notin 1..n
    BY <1>3 DEF Stored
  <1>5. i \in DOMAIN batches /\ j \in DOMAIN batches /\ i < j
    BY <1>1, <1>2, <1>3, <1>4
  <1>6. Across(batches[i], batches[j], Older(multisig))
    BY <1>5 DEF BackfillInv, PushedInOrder, InOrder
  <1>7. /\ \E p \in DOMAIN batches[i] : e = batches[i][p]
        /\ \E q \in DOMAIN batches[j] : f = batches[j][q]
    BY <1>2, <1>3 DEF ToSet
  <1>8. <<e, f>> \in Older(multisig)
    BY <1>6, <1>7 DEF Across
  <1> QED
    BY <1>8 DEF Older

\* A push, whole, broken off or given up, stores the next part of what is wanted.
LEMMA PushStores ==
    ASSUME BackfillInv, phase = "pushing", settings' = settings, batches' = batches,
           loki' \in {loki, loki \union ToSet(Batch)},
           pushed < Len(batches) \/ loki' = loki, phase' \in {"pushing", "interrupted"}
    PROVE  Promise!Store
  <1>1. loki = Stored(pushed) /\ pushed \in 0..Len(batches) /\ Len(batches) \in Nat
    BY DEF BackfillInv, PushedInOrder, Typed, TypedRecords
  <1>2. PICK n \in 0..Len(batches) : loki' = Stored(n)
    <2>1. CASE loki' = loki
      BY <1>1, <2>1
    <2>2. CASE loki' # loki
      <3>1. pushed + 1 \in 0..Len(batches) /\ pushed \in Nat
        BY <1>1, <2>2
      <3>2. Stored(pushed + 1) = Stored(pushed) \union ToSet(batches[pushed + 1])
        BY <3>1, StoredSteps DEF BackfillInv
      <3>3. loki' = Stored(pushed + 1)
        BY <1>1, <2>2, <3>2 DEF Batch
      <3> QED
        BY <3>1, <3>3
    <2> QED
      BY <2>1, <2>2
  <1>3. Stored(n) \subseteq Collected /\ loki \subseteq loki' /\ Collected' = Collected
    BY <1>2, StoredSteps DEF BackfillInv, Collected
  <1>4. \A e \in loki', f \in Collected \ loki' : e.time <= f.time
    BY <1>2, PrefixIsOldest
  <1>5. StatusOf = "storing" /\ StatusOf' \in {"storing", "interrupted"}
    BY DEF StatusOf
  <1> QED
    BY <1>2, <1>3, <1>4, <1>5 DEF Promise!Store, Promise!OldestFirst

LEMMA CollectedAreLines == Typed => Collected \subseteq Line(multisig)
  BY StoredSteps

LEMMA CollectedNext == Typed' => Collected' \subseteq Line(multisig')
  <1>1. Typed' => (Collected \subseteq Line(multisig))'
    BY CollectedAreLines, PTL
  <1> QED
    BY <1>1 DEF Line, LinesOf

LEMMA KeepsThePromise == BackfillInv /\ [Next]_vars => [Promise!Next]_(Promise!vars)
  <1> SUFFICES ASSUME BackfillInv, [Next]_vars PROVE [Promise!Next]_(Promise!vars)
    OBVIOUS
  <1> DEFINE wanted == IF phase \in {"pushing", "interrupted", "complete"} THEN Collected ELSE {}
  <1>0. /\ phase \in {"starting", "crawling", "ordering", "pushing", "complete", "refused", "aborted",
                      "interrupted"}
        /\ phase \notin Pushes => loki = {}
        /\ settings \in Settings
    BY DEF BackfillInv, Typed, TypedCommand, TypedRecords
  <1>1. ASSUME StatusOf' = StatusOf, wanted' = wanted, loki' = loki PROVE [Promise!Next]_(Promise!vars)
    BY <1>1 DEF Promise!vars
  <1>2. ASSUME StatusOf = "collecting", phase \notin Pushes,
               phase' \in {"refused", "aborted"}, loki' = loki
        PROVE  [Promise!Next]_(Promise!vars)
    <2>1. wanted = {} /\ wanted' = {} /\ StatusOf' = "aborted"
      BY <1>2 DEF Pushes, StatusOf
    <2> QED
      BY <1>2, <2>1 DEF Promise!Next, Promise!Abort
  <1>3. ASSUME phase' = phase, UNCHANGED <<batches, loki>> PROVE [Promise!Next]_(Promise!vars)
    BY <1>1, <1>3 DEF StatusOf, Collected
  <1>4. CASE Start
    <2>1. CASE phase' = "crawling"
      BY <1>1, <1>4, <2>1 DEF Start, StatusOf, pushing
    <2>2. CASE phase' = "refused"
      BY <1>2, <1>4, <2>2 DEF Start, StatusOf, pushing, Pushes
    <2> QED
      BY <1>4, <2>1, <2>2 DEF Start
  <1>5. CASE Decide
    <2>1. CASE phase' = "ordering"
      BY <1>1, <1>5, <2>1 DEF Decide, StatusOf, pushing
    <2>2. CASE phase' = "aborted"
      BY <1>2, <1>5, <2>2 DEF Decide, StatusOf, pushing, Pushes
    <2> QED
      BY <1>5, <2>1, <2>2 DEF Decide
  <1>6. CASE OrderRecords
    <2>1. CASE phase' = "aborted"
      BY <1>2, <1>6, <2>1 DEF OrderRecords, StatusOf, Pushes
    <2>2. CASE phase' = "pushing"
      <3>1. Typed' /\ settings' = settings
        BY <1>6, TypedKept DEF BackfillInv, OrderRecords
      <3>2. Collected' \subseteq Line(settings.multisig)
        BY <3>1, CollectedNext DEF multisig
      <3>3. Collected' \subseteq [time : Nat, record : Recordable]
        BY <1>0, <3>2, LineFields
      <3>4. /\ StatusOf = "collecting" /\ StatusOf' = "storing"
            /\ wanted' \in SUBSET [time : Nat, record : Recordable] /\ loki' = loki
        BY <1>6, <2>2, <3>3 DEF OrderRecords, StatusOf
      <3> QED
        BY <3>4 DEF Promise!Next, Promise!Begin
    <2> QED
      BY <1>6, <2>1, <2>2 DEF OrderRecords
  <1>7. CASE PushBatch \/ PushLimited \/ PushFails
    <2>1. /\ phase = "pushing" /\ settings' = settings /\ batches' = batches
          /\ loki' \in {loki, loki \union ToSet(Batch)}
          /\ pushed < Len(batches) /\ phase' \in {"pushing", "interrupted"}
      BY <1>7 DEF PushBatch, PushLimited, GiveUp, PushFails
    <2> QED
      BY <2>1, PushStores DEF Promise!Next
  <1>8. CASE Kill
    <2>1. CASE phase = "pushing"
      <3>1. /\ settings' = settings /\ batches' = batches /\ loki' = loki /\ phase' = "interrupted"
        BY <1>8, <2>1 DEF Kill, pushing
      <3> QED
        BY <2>1, <3>1, PushStores DEF Promise!Next
    <2>2. CASE phase # "pushing"
      BY <1>2, <1>8, <2>2 DEF Kill, StatusOf, pushing, Pushes
    <2> QED
      BY <2>1, <2>2
  <1>9. CASE Done
    <2>1. /\ phase = "pushing" /\ phase' = "complete" /\ pushed = Len(batches)
          /\ UNCHANGED <<batches, loki>>
      BY <1>9 DEF Done, pushing
    <2>2. loki = Collected /\ Collected' = Collected
      BY <2>1, StoredSteps DEF BackfillInv, PushedInOrder, Collected
    <2>3. StatusOf = "storing" /\ StatusOf' = "complete"
      BY <2>1 DEF StatusOf
    <2> QED
      BY <2>1, <2>2, <2>3 DEF Promise!Next, Promise!Complete
  <1>10. CASE \E a \in Address : Step(a)
    BY <1>3, <1>10
    DEF Step, FetchPage, StopCrawl, PageFails, FetchTransaction, FetchFails, TurnPage, pushing
  <1>11. CASE ProcessUpdate \/ Expire \/ Cancel \/ NewTransaction \/ UNCHANGED vars
    BY <1>3, <1>11 DEF ProcessUpdate, Expire, Cancel, NewTransaction, vars, pushing
  <1> QED
    BY <1>4, <1>5, <1>6, <1>7, <1>8, <1>9, <1>10, <1>11 DEF Next, Progress, Command

\* Whatever fails and whenever it does, a backfill stores nothing before it knows all
\* there is to store, then stores the oldest first, and ends complete only with all
\* of it.  (That it ends at all is the fairness of ImplementsPromise.)
THEOREM PromiseKept == Spec => Promise!Init /\ [][Promise!Next]_(Promise!vars)
  <1>1. Init => Promise!Init
    BY DEF Init, Promise!Init, StatusOf
  <1>2. BackfillInv /\ [Next]_vars => [Promise!Next]_(Promise!vars)
    BY KeepsThePromise
  <1> QED
    BY <1>1, <1>2, Invariance, PTL DEF Spec
===============================================================================
