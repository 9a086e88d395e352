--------------------------- MODULE RpcPolling_proofs ---------------------------
(***************************************************************************)
(* No transaction is lost, for every ledger, set of addresses, window,     *)
(* skew, number of failures and crashes, channel and stream: in memory and *)
(* on disk.                                                                *)
(***************************************************************************)
EXTENDS RpcPolling, FiniteSetTheorems, TLAPS

\* A transaction that a crash could still lose is logged, or in the pipeline.
Taken == emitted \cup ToSet(channel) \cup inflight

\* What need not be listed again as long as the process lives.
Accounted == Taken \cup Quarantined

\* The pipeline loses nothing, and filters only what has been logged.
PipelineKeeps ==
    /\ forwarding \cup delivered \subseteq Taken
    /\ seen \subseteq emitted
    /\ logged => inflight \subseteq emitted

\* Whatever is suppressed, in memory and on disk, need not be listed again.
SuppressionIsEarned ==
    /\ recent \subseteq Accounted
    /\ processed.recent \subseteq emitted \cup processed.quarantined
    /\ checkpoint.recent \subseteq emitted \cup checkpoint.quarantined
    /\ journal.entries \subseteq emitted

\* There are cursors exactly since the first scan that still counts.
Started ==
    /\ origin = Nothing => /\ cursors = NoCursors /\ processed.cursors = NoCursors
                           /\ checkpoint = NoProgress
                           /\ pc \in {"boot", "save", "begin", "parked"}
    /\ pc = "boot" /\ checkpoint = NoProgress => origin = Nothing
    /\ origin # Nothing /\ pc \notin {"boot", "parked"} => \A a \in Address : cursors[a] # Nothing

\* A scan has found what lies between its floor and where it would leave the cursor,
\* but for what is within one window of the latter.
ScansAreWhole ==
    pc \in {"fetch", "send"} =>
        \A a \in Address :
            /\ \A t \in poll.batches[a].found :
                   t \in Touching(a) /\ SlotOf[t] > ReplayFloor(cursors[a], ReplayWindow)
            /\ \A t \in Touching(a) :
                   SlotOf[t] + ReplayWindow > cursors[a] =>
                       \/ t \in poll.batches[a].found
                       \/ SlotOf[t] + ReplayWindow > poll.batches[a].next

\* Once the fetches have been answered, what a scan found is accounted for, about to be
\* sent, or listed by an address whose cursor is held back.
AnswersAreUsed ==
    pc = "send" =>
        \A a \in Address : \A t \in poll.batches[a].found :
            \/ t \in Accounted \cup poll.sending
            \/ \E b \in Address : t \in poll.batches[b].found /\ IsBlocked(b, poll.retrying)

\* Nothing slips below the cursors in memory, those last seen drained and those stored.
NothingSlips ==
    \A t \in Transaction :
        Tracked(t) =>
            /\ t \in Accounted \/ StillListed(t, cursors, ReplayWindow)
            /\ \/ t \in emitted \cup processed.quarantined
               \/ StillListed(t, processed.cursors, 2 * ReplayWindow)
            /\ \/ t \in emitted \cup checkpoint.quarantined
               \/ StillListed(t, checkpoint.cursors, 2 * ReplayWindow)

\* What compaction and pruning have not dropped is in the journal.
JournalKeeps ==
    /\ settled # {} => journal.file = "stamped"
    /\ \A t \in settled : ~Dropped(SlotOf[t]) => t \in journal.entries

IInv == /\ TypeOK /\ PipelineKeeps /\ SuppressionIsEarned /\ Started /\ ScansAreWhole
        /\ AnswersAreUsed /\ NothingSlips /\ JournalKeeps

-------------------------------------------------------------------------------
(* Least and greatest slots. *)

\* A set of slots has a least one: its initial segments are finite sets, and a strict
\* inclusion among finite sets is well founded.
LEMMA LeastExists ==
    ASSUME NEW S \in SUBSET Nat, S # {}
    PROVE  Min(S) \in S /\ \A y \in S : Min(S) <= y
  <1> DEFINE Segments == {1..x : x \in S}
  <1>1. Segments \subseteq FiniteSubsetsOf(Nat) /\ Segments # {}
    <2>1. \A x \in S : 1..x \in SUBSET Nat /\ IsFiniteSet(1..x)
      BY FS_Interval
    <2> QED
      BY <2>1 DEF FiniteSubsetsOf
  <1>2. PICK I \in Segments : \A J \in Segments : <<J, I>> \notin StrictSubsetOrdering(Nat)
    <2> HIDE DEF Segments
    <2> QED
      BY <1>1, FS_StrictSubsetOrderingWellFounded, WFMin
  <1>3. PICK x \in S : I = 1..x
    BY <1>2
  <1>4. ASSUME NEW y \in S, y < x PROVE FALSE
    <2>1. 1..y \subseteq 1..x /\ x \in 1..x /\ x \notin 1..y
      BY <1>4
    <2>2. <<1..y, I>> \in StrictSubsetOrdering(Nat)
      BY <1>3, <2>1 DEF StrictSubsetOrdering
    <2> QED
      BY <1>2, <2>2
  <1>5. \A y \in S : x <= y
    BY <1>4
  <1> QED
    BY <1>5 DEF Min

\* A set of slots that are no higher than some slot has a greatest one.
LEMMA GreatestExists ==
    ASSUME NEW S \in SUBSET Nat, S # {}, NEW v \in Nat, \A x \in S : x <= v
    PROVE  Max(S) \in S /\ \A y \in S : Max(S) >= y
  <1> DEFINE T == {v - x : x \in S}
  <1>1. T \in SUBSET Nat /\ T # {}
    <2>1. \A x \in S : x \in Nat /\ x <= v
      OBVIOUS
    <2>2. \A x \in S : v - x \in Nat
      BY <2>1
    <2> QED
      BY <2>2
  <1>2. Min(T) \in T /\ \A y \in T : Min(T) <= y
    <2> HIDE DEF T
    <2> QED
      BY <1>1, LeastExists
  <1>3. PICK x \in S : Min(T) = v - x
    BY <1>2
  <1>4. \A y \in S : x >= y
    BY <1>2, <1>3
  <1> QED
    BY <1>4 DEF Max

-------------------------------------------------------------------------------
(* The channel as a set, and what needs no cursor. *)

LEMMA AppendAdds ==
    ASSUME NEW S, NEW s \in Seq(S), NEW x \in S
    PROVE  /\ Append(s, x) \in Seq(S) /\ Len(Append(s, x)) = Len(s) + 1
           /\ ToSet(Append(s, x)) = ToSet(s) \cup {x}
  <1>1. /\ Append(s, x) \in Seq(S) /\ Len(s) \in Nat
        /\ DOMAIN s = 1..Len(s) /\ DOMAIN Append(s, x) = 1..Len(s) + 1
        /\ Append(s, x)[Len(s) + 1] = x /\ \A i \in 1..Len(s) : Append(s, x)[i] = s[i]
    OBVIOUS
  <1>2. 1..Len(s) + 1 = (1..Len(s)) \cup {Len(s) + 1}
    BY <1>1
  <1>3. ToSet(Append(s, x)) = {Append(s, x)[i] : i \in (1..Len(s)) \cup {Len(s) + 1}}
    BY <1>1, <1>2 DEF ToSet
  <1> QED
    BY <1>1, <1>3 DEF ToSet

LEMMA HeadAndTail ==
    ASSUME NEW S, NEW s \in Seq(S), s # <<>>
    PROVE  /\ Head(s) \in S /\ Tail(s) \in Seq(S) /\ Len(Tail(s)) = Len(s) - 1
           /\ ToSet(s) = {Head(s)} \cup ToSet(Tail(s))
  <1>1. /\ Len(s) \in Nat \ {0} /\ DOMAIN s = 1..Len(s) /\ Head(s) = s[1]
        /\ Head(s) \in S /\ Tail(s) \in Seq(S) /\ Len(Tail(s)) = Len(s) - 1
        /\ DOMAIN Tail(s) = 1..Len(s) - 1
        /\ \A i \in 1..Len(s) - 1 : Tail(s)[i] = s[i + 1]
    OBVIOUS
  <1>2. ASSUME NEW y \in ToSet(s) PROVE y = Head(s) \/ y \in ToSet(Tail(s))
    <2>1. PICK i \in 1..Len(s) : y = s[i]
      BY <1>1 DEF ToSet
    <2>2. CASE i = 1
      BY <1>1, <2>1, <2>2
    <2>3. CASE i # 1
      <3>1. i - 1 \in 1..Len(s) - 1 /\ Tail(s)[i - 1] = y
        BY <1>1, <2>1, <2>3
      <3> QED
        BY <1>1, <3>1 DEF ToSet
    <2> QED
      BY <2>2, <2>3
  <1>3. ASSUME NEW y \in ToSet(Tail(s)) PROVE y \in ToSet(s)
    <2>1. PICK i \in 1..Len(s) - 1 : y = Tail(s)[i]
      BY <1>1 DEF ToSet
    <2>2. i + 1 \in 1..Len(s) /\ y = s[i + 1]
      BY <1>1, <2>1
    <2> QED
      BY <1>1, <2>2 DEF ToSet
  <1>4. Head(s) \in ToSet(s)
    BY <1>1 DEF ToSet
  <1> QED
    BY <1>1, <1>2, <1>3, <1>4

\* Every transaction touches an address, and without cursors a scan lists it.
LEMMA NoCursorListsAll ==
    ASSUME NEW t \in Transaction, NEW depth
    PROVE  /\ AddressesOf[t] # {} /\ AddressesOf[t] \subseteq Address
           /\ StillListed(t, NoCursors, depth)
  <1>1. AddressesOf[t] \subseteq Address /\ AddressesOf[t] # {}
    <2>1. AddressesOf[t] \in (SUBSET Address) \ {{}}
      BY LedgerAssumption
    <2> QED
      BY <2>1
  <1>2. \A a \in Address : NoCursors[a] = Nothing
    BY DEF NoCursors
  <1>3. PICK a \in AddressesOf[t] : a \in Address
    BY <1>1
  <1>4. StillListed(t, NoCursors, depth)
    BY <1>2, <1>3 DEF StillListed
  <1> QED
    BY <1>1, <1>4

-------------------------------------------------------------------------------
(* The invariant is inductive: the stream and the pipeline. *)

\* Steps of the stream and the pipeline lose nothing of what is on its way, and do
\* not touch what the poller keeps.
LEMMA PipelinePreserves ==
    ASSUME IInv, TypeOK', PipelineKeeps', JournalKeeps',
           UNCHANGED <<pc, cursors, recent, failures, processed, poll, checkpoint, origin>>,
           emitted \subseteq emitted', Taken \subseteq Taken', journal'.entries \subseteq emitted'
    PROVE  IInv'
  <1>1. Accounted \subseteq Accounted'
    BY DEF Accounted, Quarantined
  <1>2. SuppressionIsEarned'
    BY <1>1 DEF IInv, SuppressionIsEarned
  <1>3. Started'
    BY DEF IInv, Started
  <1>4. ScansAreWhole'
    BY DEF IInv, ScansAreWhole
  <1>5. AnswersAreUsed'
    BY <1>1 DEF IInv, AnswersAreUsed, IsBlocked
  <1>6. NothingSlips'
    BY <1>1 DEF IInv, NothingSlips, Tracked, StillListed
  <1> QED
    BY <1>2, <1>3, <1>4, <1>5, <1>6 DEF IInv

LEMMA ForwardPreserves == \A t \in Transaction : IInv /\ Forward(t) => IInv'
  <1> SUFFICES ASSUME NEW t \in Transaction, IInv, Forward(t) PROVE IInv'
    OBVIOUS
  <1> USE DEF ledger, disk, memory, history
  <1>1. /\ channel \in Seq(Transaction) /\ Len(channel) < ChannelCapacity
        /\ channel' = Append(channel, t) /\ forwarding' = {t}
        /\ streamed' = streamed \cup {t}
        /\ UNCHANGED <<head, delivered, inflight, logged, seen, journal, checkpoint, pc, cursors,
                       recent, failures, processed, poll, emitted, origin, settled, reached,
                       replayed, crashes>>
    BY DEF IInv, TypeOK, Forward, HasRoom
  <1>2. /\ channel' \in Seq(Transaction) /\ Len(channel') = Len(channel) + 1
        /\ ToSet(channel') = ToSet(channel) \cup {t}
    BY <1>1, AppendAdds
  <1>3. TypeOK'
    <2>1. Len(channel') <= ChannelCapacity
      BY <1>1, <1>2, PollingAssumption
    <2> QED
      BY <1>1, <1>2, <2>1 DEF IInv, TypeOK
  <1>4. Taken \subseteq Taken' /\ t \in Taken'
    BY <1>1, <1>2 DEF Taken
  <1>5. PipelineKeeps'
    BY <1>1, <1>4 DEF IInv, PipelineKeeps
  <1>6. JournalKeeps' /\ journal'.entries \subseteq emitted'
    BY <1>1 DEF IInv, JournalKeeps, Dropped, SuppressionIsEarned
  <1> QED
    BY <1>1, <1>3, <1>4, <1>5, <1>6, PipelinePreserves

LEMMA DequeuePreserves == IInv /\ Dequeue => IInv'
  <1> SUFFICES ASSUME IInv, Dequeue PROVE IInv'
    OBVIOUS
  <1> USE DEF ledger, stream, disk, memory, history
  <1>1. /\ channel \in Seq(Transaction) /\ channel # <<>> /\ inflight = {}
        /\ channel' = Tail(channel) /\ inflight' = {Head(channel)} /\ logged' = FALSE
        /\ UNCHANGED <<head, streamed, forwarding, delivered, seen, journal, checkpoint, pc,
                       cursors, recent, failures, processed, poll, emitted, origin, settled,
                       reached, replayed, crashes>>
    BY DEF IInv, TypeOK, Dequeue
  <1>2. /\ Head(channel) \in Transaction /\ channel' \in Seq(Transaction)
        /\ Len(channel') = Len(channel) - 1
        /\ ToSet(channel) = {Head(channel)} \cup ToSet(channel')
    BY <1>1, HeadAndTail
  <1>3. TypeOK'
    <2>1. Len(channel') <= ChannelCapacity
      BY <1>1, <1>2, PollingAssumption DEF IInv, TypeOK
    <2> QED
      BY <1>1, <1>2, <2>1 DEF IInv, TypeOK
  <1>4. Taken \subseteq Taken'
    BY <1>1, <1>2 DEF Taken
  <1>5. PipelineKeeps'
    BY <1>1, <1>4 DEF IInv, PipelineKeeps
  <1>6. JournalKeeps' /\ journal'.entries \subseteq emitted'
    BY <1>1 DEF IInv, JournalKeeps, Dropped, SuppressionIsEarned
  <1> QED
    BY <1>1, <1>3, <1>4, <1>5, <1>6, PipelinePreserves

LEMMA LogRecordsPreserves == IInv /\ LogRecords => IInv'
  <1> SUFFICES ASSUME IInv, LogRecords PROVE IInv'
    OBVIOUS
  <1> USE DEF ledger, stream, disk, memory
  <1>1. /\ logged' = TRUE /\ seen' = seen \cup inflight
        /\ emitted' = emitted \cup (inflight \ seen)
        /\ replayed' = replayed \cup ((inflight \ seen) \cap emitted \cap settled)
        /\ UNCHANGED <<head, streamed, forwarding, delivered, channel, inflight, journal,
                       checkpoint, pc, cursors, recent, failures, processed, poll, origin,
                       settled, reached, crashes>>
    BY DEF LogRecords
  <1>2. TypeOK'
    BY <1>1 DEF IInv, TypeOK
  <1>3. Taken \subseteq Taken'
    BY <1>1 DEF Taken
  <1>4. PipelineKeeps'
    BY <1>1, <1>3 DEF IInv, PipelineKeeps
  <1>5. JournalKeeps' /\ journal'.entries \subseteq emitted'
    BY <1>1 DEF IInv, JournalKeeps, Dropped, SuppressionIsEarned
  <1> QED
    BY <1>1, <1>2, <1>3, <1>4, <1>5, PipelinePreserves

LEMMA ShipPreserves == IInv /\ Ship => IInv'
  <1> SUFFICES ASSUME IInv, Ship PROVE IInv'
    OBVIOUS
  <1> USE DEF ledger, stream, memory
  <1>1. /\ inflight' = {} /\ logged' = FALSE /\ logged
        /\ \/ /\ journal' = JournalWith(inflight)
              /\ settled' = IF journal'.file = "stamped" THEN settled \cup inflight ELSE settled
           \/ UNCHANGED <<journal, settled>>
        /\ UNCHANGED <<head, streamed, forwarding, delivered, channel, seen,
                       checkpoint, pc, cursors, recent, failures, processed, poll, origin,
                       emitted, reached, replayed, crashes>>
    BY DEF Ship
  <1>2. inflight \subseteq emitted /\ inflight \subseteq Transaction
    BY <1>1 DEF IInv, PipelineKeeps, TypeOK
  <1>3. \/ UNCHANGED <<journal, settled>>
        \/ /\ journal'.file \in {"unstamped", "stamped"}
           /\ (journal.file = "stamped" => journal'.file = "stamped")
           /\ journal'.entries = journal.entries \cup inflight
           /\ journal' \in [file : {"absent", "unstamped", "stamped"}, entries : SUBSET Transaction]
           /\ settled' = IF journal'.file = "stamped" THEN settled \cup inflight ELSE settled
    BY <1>1, <1>2 DEF JournalWith, IInv, TypeOK
  <1>4. TypeOK'
    BY <1>1, <1>2, <1>3 DEF IInv, TypeOK
  <1>5. Taken \subseteq Taken'
    BY <1>1, <1>2 DEF Taken
  <1>6. PipelineKeeps'
    BY <1>1, <1>5 DEF IInv, PipelineKeeps
  <1>7. JournalKeeps'
    BY <1>1, <1>3 DEF IInv, JournalKeeps, Dropped
  <1>8. journal'.entries \subseteq emitted'
    BY <1>1, <1>2, <1>3 DEF IInv, SuppressionIsEarned
  <1> QED
    BY <1>1, <1>4, <1>5, <1>6, <1>7, <1>8, PipelinePreserves

LEMMA StreamPreserves ==
    IInv /\ (AdvanceHead \/ RecordDelivery \/ \E t \in Transaction : Expire(t)) => IInv'
  <1> SUFFICES ASSUME IInv, AdvanceHead \/ RecordDelivery \/ \E t \in Transaction : Expire(t)
               PROVE  IInv'
    OBVIOUS
  <1>1. /\ head' \in {head, head + 1}
        /\ forwarding' \cup delivered' \subseteq forwarding \cup delivered
        /\ seen' \subseteq seen
        /\ UNCHANGED <<streamed, channel, inflight, logged, journal, checkpoint, pc, cursors,
                       recent, failures, processed, poll, emitted, origin, settled, reached,
                       replayed, crashes>>
    BY DEF AdvanceHead, RecordDelivery, Expire, ledger, stream, pipeline, disk, memory, history
  <1>2. TypeOK'
    BY <1>1 DEF IInv, TypeOK
  <1>3. Taken \subseteq Taken'
    BY <1>1 DEF Taken
  <1>4. PipelineKeeps'
    BY <1>1, <1>3 DEF IInv, PipelineKeeps
  <1>5. JournalKeeps' /\ journal'.entries \subseteq emitted'
    BY <1>1 DEF IInv, JournalKeeps, Dropped, SuppressionIsEarned
  <1> QED
    BY <1>1, <1>2, <1>3, <1>4, <1>5, PipelinePreserves

-------------------------------------------------------------------------------
(* The invariant is inductive: starting, and a crash. *)

LEMMA EmptyIsTyped ==
    /\ NoCursors \in [Address -> Nat \cup {Nothing}] /\ NoProgress \in Progress
    /\ NoFailures \in [Transaction -> 0..MaxFailures]
    /\ \A h \in Nat : NewPoll(h) \in
         [head : Nat, batches : [Address -> [found : SUBSET Transaction, next : Nat]],
          retrying : SUBSET Transaction, sending : SUBSET Transaction]
  <1>1. 0 \in 0..MaxFailures
    BY PollingAssumption
  <1>2. NoCursors \in [Address -> Nat \cup {Nothing}]
    BY DEF NoCursors
  <1>3. NoFailures \in [Transaction -> 0..MaxFailures]
    BY <1>1 DEF NoFailures
  <1>4. NoBatches \in [Address -> [found : SUBSET Transaction, next : Nat]]
    BY DEF NoBatches
  <1> QED
    BY <1>2, <1>3, <1>4 DEF NoProgress, Progress, NewPoll

\* Nobody has failed too often before the first failure.
LEMMA NobodyQuarantined ==
    ASSUME failures = NoFailures
    PROVE  Quarantined = {}
  BY PollingAssumption DEF Quarantined, NoFailures

\* A poller step with the pipeline as it is.
LEMMA PipelineUntouched ==
    ASSUME PipelineKeeps, delivered' \subseteq delivered,
           UNCHANGED <<emitted, channel, inflight, logged, seen, forwarding>>
    PROVE  PipelineKeeps' /\ Taken' = Taken
  BY DEF PipelineKeeps, Taken

\* What is listed from a cursor is listed from further below, and one window below a
\* rewound cursor is at least two below the cursor it was.
LEMMA ListedDeeper ==
    ASSUME NEW t \in Transaction, NEW cs \in [Address -> Nat \cup {Nothing}],
           StillListed(t, cs, ReplayWindow)
    PROVE  StillListed(t, cs, 2 * ReplayWindow)
  <1>1. PICK a \in AddressesOf[t] : cs[a] = Nothing \/ SlotOf[t] + ReplayWindow > cs[a]
    BY DEF StillListed
  <1>2. SlotOf[t] \in Nat /\ ReplayWindow \in Nat /\ a \in Address
    BY LedgerAssumption, PollingAssumption, NoCursorListsAll
  <1>3. cs[a] = Nothing \/ SlotOf[t] + 2 * ReplayWindow > cs[a]
    BY <1>1, <1>2
  <1> QED
    BY <1>3 DEF StillListed

LEMMA ListedAfterRewind ==
    ASSUME NEW t \in Transaction, NEW cs \in [Address -> Nat \cup {Nothing}],
           StillListed(t, cs, 2 * ReplayWindow)
    PROVE  StillListed(t, [a \in Address |-> ReplayFloor(cs[a], ReplayWindow)], ReplayWindow)
  <1>1. PICK a \in AddressesOf[t] : cs[a] = Nothing \/ SlotOf[t] + 2 * ReplayWindow > cs[a]
    BY DEF StillListed
  <1>2. SlotOf[t] \in Nat /\ ReplayWindow \in Nat \ {0} /\ a \in Address
        /\ cs[a] \in Nat \cup {Nothing}
    BY LedgerAssumption, PollingAssumption, NoCursorListsAll
  <1>3. SlotOf[t] + ReplayWindow > ReplayFloor(cs[a], ReplayWindow)
    BY <1>1, <1>2 DEF ReplayFloor, SaturatingSub, Nothing
  <1> QED
    BY <1>2, <1>3 DEF StillListed

LEMMA InitEstablishes == Init => IInv
  <1> SUFFICES ASSUME Init PROVE IInv
    OBVIOUS
  <1>1. TypeOK
    <2>1. head \in Nat
      BY PollingAssumption DEF Init
    <2>2. <<>> \in Seq(Transaction) /\ Len(<<>>) <= ChannelCapacity
      BY PollingAssumption
    <2>3. failures = NoFailures
      BY DEF Init, NoFailures
    <2> QED
      BY <2>1, <2>2, <2>3, EmptyIsTyped DEF Init, TypeOK
  <1>2. PipelineKeeps /\ SuppressionIsEarned /\ JournalKeeps
    BY DEF Init, PipelineKeeps, SuppressionIsEarned, JournalKeeps, NoProgress
  <1>3. Started /\ ScansAreWhole /\ AnswersAreUsed
    BY DEF Init, Started, ScansAreWhole, AnswersAreUsed, NoProgress
  <1>4. NothingSlips
    BY DEF Init, NothingSlips, Tracked
  <1> QED
    BY <1>1, <1>2, <1>3, <1>4 DEF IInv

LEMMA StartFreshPreserves == IInv /\ StartFresh => IInv'
  <1> SUFFICES ASSUME IInv, StartFresh PROVE IInv'
    OBVIOUS
  <1> USE DEF ledger, stream, pipeline
  <1>1. /\ pc = "boot" /\ checkpoint = NoProgress /\ pc' = "save"
        /\ cursors' = NoCursors /\ recent' = {} /\ failures' = NoFailures
        /\ processed' = NoProgress /\ journal' = [file |-> "absent", entries |-> {}]
        /\ settled' = {}
        /\ UNCHANGED <<head, streamed, forwarding, delivered, channel, inflight, logged, seen,
                       checkpoint, poll, emitted, origin, reached, replayed, crashes>>
    BY DEF StartFresh
  <1>2. origin = Nothing
    BY <1>1 DEF IInv, Started
  <1>3. TypeOK'
    BY <1>1, EmptyIsTyped DEF IInv, TypeOK
  <1>4. PipelineKeeps'
    BY <1>1, PipelineUntouched DEF IInv
  <1>5. SuppressionIsEarned'
    BY <1>1 DEF IInv, SuppressionIsEarned, NoProgress
  <1>6. Started' /\ ScansAreWhole' /\ AnswersAreUsed'
    BY <1>1, <1>2 DEF Started, ScansAreWhole, AnswersAreUsed, NoProgress
  <1>7. NothingSlips' /\ JournalKeeps'
    BY <1>1, <1>2 DEF NothingSlips, Tracked, JournalKeeps
  <1> QED
    BY <1>3, <1>4, <1>5, <1>6, <1>7 DEF IInv

LEMMA LoadCheckpointPreserves == IInv /\ LoadCheckpoint => IInv'
  <1> SUFFICES ASSUME IInv, LoadCheckpoint PROVE IInv'
    OBVIOUS
  <1> USE DEF ledger, stream, pipeline, history
  <1> DEFINE stored == checkpoint.cursors
             rewound == [a \in Address |-> ReplayFloor(stored[a], ReplayWindow)]
  <1>1. /\ pc = "boot" /\ checkpoint # NoProgress /\ pc' = "save"
        /\ cursors' = rewound /\ journal' = Restored
        /\ recent' = checkpoint.recent \cup Restored.entries
        /\ failures' = [t \in Transaction |-> IF t \in checkpoint.quarantined THEN MaxFailures ELSE 0]
        /\ processed' = [cursors |-> cursors', recent |-> recent',
                         quarantined |-> checkpoint.quarantined]
        /\ UNCHANGED <<head, streamed, forwarding, delivered, channel, inflight, logged, seen,
                       checkpoint, poll, emitted, origin, settled, reached, replayed, crashes>>
    BY DEF LoadCheckpoint
  <1>2. /\ stored \in [Address -> Nat \cup {Nothing}]
        /\ checkpoint.recent \subseteq Transaction
        /\ checkpoint.quarantined \subseteq Transaction
    BY DEF IInv, TypeOK, Progress
  <1>3. rewound \in [Address -> Nat]
    BY <1>2, PollingAssumption DEF ReplayFloor, SaturatingSub, Nothing
  <1>4. /\ journal' \in [file : {"absent", "unstamped", "stamped"}, entries : SUBSET Transaction]
        /\ journal'.entries \subseteq journal.entries
        /\ journal.file = "stamped" => journal' = journal
    BY <1>1 DEF Restored, IInv, TypeOK
  <1>5. TypeOK'
    <2>1. failures' \in [Transaction -> 0..MaxFailures]
      BY <1>1, PollingAssumption
    <2>2. recent' \subseteq Transaction
      BY <1>1, <1>2, <1>4
    <2>3. processed' \in Progress
      BY <1>1, <1>2, <1>3, <2>2 DEF Progress
    <2> QED
      BY <1>1, <1>3, <1>4, <2>1, <2>2, <2>3 DEF IInv, TypeOK
  <1>6. PipelineKeeps' /\ Taken' = Taken
    BY <1>1, PipelineUntouched DEF IInv
  <1>7. Quarantined' = checkpoint.quarantined
    BY <1>1, <1>2, PollingAssumption DEF Quarantined
  <1>8. SuppressionIsEarned'
    BY <1>1, <1>4, <1>6, <1>7 DEF IInv, SuppressionIsEarned, Accounted, Taken
  <1>9. Started' /\ ScansAreWhole' /\ AnswersAreUsed'
    <2>1. origin # Nothing
      BY <1>1 DEF IInv, Started
    <2>2. \A a \in Address : cursors'[a] # Nothing
      BY <1>1, <1>3 DEF Nothing
    <2> QED
      BY <1>1, <2>1, <2>2 DEF Started, ScansAreWhole, AnswersAreUsed
  <1>10. NothingSlips'
    <2> SUFFICES ASSUME NEW t \in Transaction, Tracked(t)
                 PROVE  /\ t \in Accounted' \/ StillListed(t, cursors', ReplayWindow)
                        /\ \/ t \in emitted \cup checkpoint.quarantined
                           \/ StillListed(t, processed'.cursors, 2 * ReplayWindow)
                        /\ \/ t \in emitted \cup checkpoint.quarantined
                           \/ StillListed(t, checkpoint.cursors, 2 * ReplayWindow)
      BY <1>1 DEF NothingSlips, Tracked
    <2>1. t \in emitted \cup checkpoint.quarantined \/ StillListed(t, stored, 2 * ReplayWindow)
      BY DEF IInv, NothingSlips
    <2>2. CASE t \in emitted \cup checkpoint.quarantined
      BY <1>6, <1>7, <2>2 DEF Accounted, Taken
    <2>3. CASE StillListed(t, stored, 2 * ReplayWindow)
      <3>1. StillListed(t, rewound, ReplayWindow)
        BY <1>2, <2>3, ListedAfterRewind
      <3>2. StillListed(t, rewound, 2 * ReplayWindow)
        BY <1>3, <3>1, ListedDeeper
      <3> QED
        BY <1>1, <2>3, <3>1, <3>2
    <2> QED
      BY <2>1, <2>2, <2>3
  <1>11. JournalKeeps'
    BY <1>1, <1>4 DEF IInv, JournalKeeps, Dropped
  <1> QED
    BY <1>5, <1>6, <1>8, <1>9, <1>10, <1>11 DEF IInv

LEMMA CrashPreserves == IInv /\ Crash => IInv'
  <1> SUFFICES ASSUME IInv, Crash PROVE IInv'
    OBVIOUS
  <1> USE DEF ledger, disk
  <1>1. /\ crashes' = crashes + 1 /\ streamed' = {t \in Transaction : SlotOf[t] <= head}
        /\ forwarding' = {} /\ delivered' = {} /\ channel' = <<>> /\ inflight' = {}
        /\ logged' = FALSE /\ seen' = {} /\ pc' = "boot" /\ cursors' = NoCursors
        /\ recent' = {} /\ failures' = NoFailures /\ processed' = NoProgress
        /\ poll' = NewPoll(0) /\ origin' = IF checkpoint = NoProgress THEN Nothing ELSE origin
        /\ UNCHANGED <<head, journal, checkpoint, emitted, settled, reached, replayed>>
    BY DEF Crash
  <1>2. TypeOK'
    <2>1. <<>> \in Seq(Transaction) /\ Len(<<>>) <= ChannelCapacity
      BY PollingAssumption
    <2>2. /\ cursors' \in [Address -> Nat \cup {Nothing}] /\ processed' \in Progress
          /\ failures' \in [Transaction -> 0..MaxFailures]
          /\ poll' \in [head : Nat, batches : [Address -> [found : SUBSET Transaction, next : Nat]],
                        retrying : SUBSET Transaction, sending : SUBSET Transaction]
      BY <1>1, EmptyIsTyped
    <2>3. /\ crashes' \in Nat /\ origin' \in Nat \cup {Nothing} /\ head' \in Nat
          /\ streamed' \subseteq Transaction
          /\ reached' \in Nat
      BY <1>1 DEF IInv, TypeOK
    <2>4. /\ journal' \in [file : {"absent", "unstamped", "stamped"}, entries : SUBSET Transaction]
          /\ checkpoint' \in Progress /\ emitted' \subseteq Transaction
          /\ settled' \subseteq Transaction /\ replayed' \subseteq Transaction
      BY <1>1 DEF IInv, TypeOK
    <2> QED
      BY <1>1, <2>1, <2>2, <2>3, <2>4 DEF TypeOK
  <1>3. PipelineKeeps' /\ SuppressionIsEarned' /\ JournalKeeps'
    BY <1>1 DEF IInv, PipelineKeeps, SuppressionIsEarned, NoProgress, JournalKeeps, Dropped
  <1>4. Started' /\ ScansAreWhole' /\ AnswersAreUsed'
    BY <1>1 DEF IInv, Started, ScansAreWhole, AnswersAreUsed, NoProgress
  <1>5. NothingSlips'
    <2> SUFFICES ASSUME NEW t \in Transaction, Tracked(t)'
                 PROVE  /\ StillListed(t, cursors', ReplayWindow)
                        /\ StillListed(t, processed'.cursors, 2 * ReplayWindow)
                        /\ \/ t \in emitted \cup checkpoint.quarantined
                           \/ StillListed(t, checkpoint.cursors, 2 * ReplayWindow)
      BY <1>1 DEF NothingSlips
    <2>1. Tracked(t)
      BY <1>1 DEF Tracked
    <2>2. cursors' = NoCursors /\ processed'.cursors = NoCursors
      BY <1>1 DEF NoProgress
    <2> QED
      BY <2>1, <2>2, NoCursorListsAll DEF IInv, NothingSlips
  <1> QED
    BY <1>2, <1>3, <1>4, <1>5 DEF IInv

-------------------------------------------------------------------------------
(* The invariant is inductive: between polls. *)

LEMMA LowestIsSlot ==
    ASSUME NEW cs \in [Address -> Nat]
    PROVE  LowestCursor(cs) \in Nat /\ \A a \in Address : LowestCursor(cs) <= cs[a]
  <1>1. {cs[a] : a \in Address} \in SUBSET Nat /\ {cs[a] : a \in Address} # {}
    BY LedgerAssumption
  <1> QED
    BY <1>1, LeastExists DEF LowestCursor

\* What compaction drops lies two windows below the slot that has become durable.
LEMMA CompactionDropsWhatIsReached ==
    ASSUME NEW t \in Transaction, NEW slot \in Nat, NEW r \in Nat, slot <= r,
           ~(SlotOf[t] + 2 * ReplayWindow <= r)
    PROVE  SlotOf[t] > UnreachableBelow(slot, ReplayWindow)
  <1>1. SlotOf[t] \in Nat \ {0} /\ ReplayWindow \in Nat
    BY LedgerAssumption, PollingAssumption
  <1> QED
    BY <1>1 DEF UnreachableBelow, SaturatingSub

LEMMA SaveCheckpointPreserves == IInv /\ SaveCheckpoint => IInv'
  <1> SUFFICES ASSUME IInv, SaveCheckpoint PROVE IInv'
    OBVIOUS
  <1> USE DEF ledger, stream, pipeline
  <1> DEFINE saves == /\ IsComplete(processed') /\ checkpoint' = processed'
                      /\ \/ journal' = Compacted(DurableSlot(processed'))
                         \/ UNCHANGED journal
                      /\ reached' = Larger(reached, LowestCursor(processed'.cursors))
  <1>1. /\ pc = "save" /\ pc' = "begin"
        /\ processed' = IF PipelineDrained THEN CurrentProgress ELSE processed
        /\ saves \/ UNCHANGED <<checkpoint, journal, reached>>
        /\ UNCHANGED <<head, streamed, forwarding, delivered, channel, inflight, logged, seen,
                       cursors, recent, failures, poll, emitted, origin, settled, replayed, crashes>>
    BY DEF SaveCheckpoint
  <1>2. processed' \in Progress
    <2>1. CurrentProgress \in Progress
      BY DEF IInv, TypeOK, CurrentProgress, Progress, Quarantined
    <2> QED
      BY <1>1, <2>1 DEF IInv, TypeOK
  <1>3. ASSUME saves
        PROVE  /\ processed'.cursors \in [Address -> Nat]
               /\ LowestCursor(processed'.cursors) \in Nat
               /\ reached' \in Nat /\ reached <= reached'
               /\ LowestCursor(processed'.cursors) <= reached'
    <2>1. processed'.cursors \in [Address -> Nat]
      BY <1>2, <1>3 DEF IsComplete, Progress
    <2>2. LowestCursor(processed'.cursors) \in Nat /\ reached \in Nat
      BY <2>1, LowestIsSlot DEF IInv, TypeOK
    <2> QED
      BY <1>3, <2>1, <2>2 DEF Larger
  <1>4. /\ journal' \in [file : {"absent", "unstamped", "stamped"}, entries : SUBSET Transaction]
        /\ journal'.entries \subseteq journal.entries /\ journal'.file = journal.file
    BY <1>1 DEF Compacted, IInv, TypeOK
  <1>5. TypeOK'
    <2>1. checkpoint' \in Progress /\ reached' \in Nat
      BY <1>1, <1>2, <1>3 DEF IInv, TypeOK
    <2> QED
      BY <1>1, <1>2, <1>4, <2>1 DEF IInv, TypeOK
  <1>6. PipelineKeeps' /\ Taken' = Taken /\ Accounted' = Accounted
    BY <1>1, PipelineUntouched DEF IInv, Accounted, Quarantined
  <1>7. PipelineDrained => Taken = emitted
    BY DEF PipelineDrained, Taken, ToSet
  <1>8. processed'.recent \subseteq emitted \cup processed'.quarantined
    BY <1>1, <1>7 DEF IInv, SuppressionIsEarned, CurrentProgress, Accounted
  <1>9. SuppressionIsEarned'
    BY <1>1, <1>4, <1>6, <1>8 DEF IInv, SuppressionIsEarned
  <1>10. Started'
    <2>1. CASE origin = Nothing
      <3>1. cursors = NoCursors /\ processed'.cursors = NoCursors /\ checkpoint = NoProgress
        BY <1>1, <2>1 DEF IInv, Started, CurrentProgress
      <3>2. ~IsComplete(processed')
        BY <3>1, LedgerAssumption DEF IsComplete, NoCursors
      <3> QED
        BY <1>1, <2>1, <3>1, <3>2 DEF Started
    <2>2. CASE origin # Nothing
      BY <1>1, <2>2 DEF IInv, Started
    <2> QED
      BY <2>1, <2>2
  <1>11. ScansAreWhole' /\ AnswersAreUsed'
    BY <1>1 DEF ScansAreWhole, AnswersAreUsed
  <1>12. NothingSlips'
    <2> SUFFICES ASSUME NEW t \in Transaction, Tracked(t)
                 PROVE  /\ t \in Accounted' \/ StillListed(t, cursors', ReplayWindow)
                        /\ \/ t \in emitted \cup processed'.quarantined
                           \/ StillListed(t, processed'.cursors, 2 * ReplayWindow)
                        /\ \/ t \in emitted \cup checkpoint'.quarantined
                           \/ StillListed(t, checkpoint'.cursors, 2 * ReplayWindow)
      BY <1>1 DEF NothingSlips, Tracked
    <2>1. t \in Accounted \/ StillListed(t, cursors, ReplayWindow)
      BY DEF IInv, NothingSlips
    <2>2. \/ t \in emitted \cup processed'.quarantined
          \/ StillListed(t, processed'.cursors, 2 * ReplayWindow)
      <3>1. CASE PipelineDrained /\ t \in Accounted
        BY <1>1, <1>7, <3>1 DEF CurrentProgress, Accounted
      <3>2. CASE PipelineDrained /\ StillListed(t, cursors, ReplayWindow)
        <4>1. StillListed(t, cursors, 2 * ReplayWindow)
          BY <3>2, ListedDeeper DEF IInv, TypeOK
        <4> QED
          BY <1>1, <3>2, <4>1 DEF CurrentProgress
      <3>3. CASE ~PipelineDrained
        BY <1>1, <3>3 DEF IInv, NothingSlips
      <3> QED
        BY <2>1, <3>1, <3>2, <3>3
    <2>3. \/ t \in emitted \cup checkpoint'.quarantined
          \/ StillListed(t, checkpoint'.cursors, 2 * ReplayWindow)
      BY <1>1, <2>2 DEF IInv, NothingSlips
    <2> QED
      BY <1>1, <1>6, <2>1, <2>2, <2>3
  <1>13. JournalKeeps'
    <2> SUFFICES ASSUME NEW t \in settled, ~Dropped(SlotOf[t])'
                 PROVE  t \in journal'.entries
      BY <1>1, <1>4 DEF IInv, JournalKeeps
    <2>1. t \in Transaction /\ SlotOf[t] \in Nat /\ ReplayWindow \in Nat /\ reached \in Nat
      BY LedgerAssumption, PollingAssumption DEF IInv, TypeOK
    <2>2. ~Dropped(SlotOf[t])
      BY <1>1, <1>3, <2>1 DEF Dropped
    <2>3. t \in journal.entries
      BY <2>2 DEF IInv, JournalKeeps
    <2>4. CASE saves /\ journal' = Compacted(DurableSlot(processed'))
      <3>1. SlotOf[t] > UnreachableBelow(LowestCursor(processed'.cursors), ReplayWindow)
        BY <1>3, <2>1, <2>4, CompactionDropsWhatIsReached DEF Dropped
      <3> QED
        BY <2>3, <2>4, <3>1 DEF Compacted, DurableSlot, IInv, TypeOK
    <2> QED
      BY <1>1, <2>3, <2>4
  <1> QED
    BY <1>5, <1>6, <1>9, <1>10, <1>11, <1>12, <1>13 DEF IInv

\* Steps of the poller that keep the files, its progress and its failures.
LEMMA PollerPreserves ==
    ASSUME IInv, TypeOK', Started', ScansAreWhole', AnswersAreUsed',
           delivered' \subseteq delivered, recent' \subseteq recent \cup delivered,
           UNCHANGED <<emitted, channel, inflight, logged, seen, forwarding, failures, processed,
                       checkpoint, journal, settled, reached>>,
           \A t \in Transaction : Tracked(t)' =>
               /\ t \in Accounted \/ StillListed(t, cursors', ReplayWindow)
               /\ Tracked(t) \/ (processed.cursors = NoCursors /\ checkpoint.cursors = NoCursors)
    PROVE  IInv'
  <1>1. PipelineKeeps' /\ Taken' = Taken /\ Accounted' = Accounted
    BY PipelineUntouched DEF IInv, Accounted, Quarantined
  <1>2. SuppressionIsEarned'
    BY <1>1 DEF IInv, SuppressionIsEarned, PipelineKeeps, Accounted
  <1>3. NothingSlips'
    <2> SUFFICES ASSUME NEW t \in Transaction, Tracked(t)'
                 PROVE  /\ t \in Accounted' \/ StillListed(t, cursors', ReplayWindow)
                        /\ \/ t \in emitted \cup processed.quarantined
                           \/ StillListed(t, processed.cursors, 2 * ReplayWindow)
                        /\ \/ t \in emitted \cup checkpoint.quarantined
                           \/ StillListed(t, checkpoint.cursors, 2 * ReplayWindow)
      BY DEF NothingSlips
    <2>1. CASE Tracked(t)
      BY <1>1, <2>1 DEF IInv, NothingSlips
    <2>2. CASE processed.cursors = NoCursors /\ checkpoint.cursors = NoCursors
      BY <1>1, <2>2, NoCursorListsAll
    <2> QED
      BY <2>1, <2>2
  <1>4. JournalKeeps'
    BY DEF IInv, JournalKeeps, Dropped
  <1> QED
    BY <1>1, <1>2, <1>3, <1>4 DEF IInv

-------------------------------------------------------------------------------
(* The invariant is inductive: one poll. *)

\* What the first scan of a new cursor answers for, it lists.
LEMMA FirstScanListsTracked ==
    ASSUME NEW t \in Transaction, NEW h \in Nat, SlotOf[t] > UnreachableBelow(h, ReplayWindow)
    PROVE  SlotOf[t] + ReplayWindow > SaturatingSub(h, ReplayWindow)
  <1>1. SlotOf[t] \in Nat \ {0} /\ ReplayWindow \in Nat \ {0}
    BY LedgerAssumption, PollingAssumption
  <1> QED
    BY <1>1 DEF UnreachableBelow, SaturatingSub

LEMMA BeginPollPreserves == IInv /\ BeginPoll => IInv'
  <1> SUFFICES ASSUME IInv, BeginPoll PROVE IInv'
    OBVIOUS
  <1> USE DEF ledger, pipeline, disk
  <1>1. PICK h \in SaturatingSub(head, HeadSkew) .. head :
         /\ cursors' = [a \in Address |-> IF cursors[a] = Nothing
                                          THEN SaturatingSub(h, ReplayWindow) ELSE cursors[a]]
         /\ poll' = NewPoll(h)
         /\ origin' = IF origin = Nothing THEN UnreachableBelow(h, ReplayWindow) ELSE origin
    BY DEF BeginPoll
  <1>2. /\ pc = "begin" /\ pc' = "discover" /\ recent' = recent \cup delivered /\ delivered' = {}
        /\ UNCHANGED <<head, streamed, forwarding, channel, inflight, logged, seen, journal,
                       checkpoint, failures, processed, emitted, settled, reached, replayed, crashes>>
    BY DEF BeginPoll
  <1>3. head \in Nat /\ h \in Nat /\ ReplayWindow \in Nat
    BY PollingAssumption DEF IInv, TypeOK, SaturatingSub
  <1>4. /\ cursors \in [Address -> Nat \cup {Nothing}]
        /\ SaturatingSub(h, ReplayWindow) \in Nat /\ UnreachableBelow(h, ReplayWindow) \in Nat
    BY <1>3 DEF IInv, TypeOK, SaturatingSub, UnreachableBelow
  <1>5. cursors' \in [Address -> Nat]
    BY <1>1, <1>4
  <1>6. origin' \in Nat /\ origin' # Nothing
    BY <1>1, <1>4 DEF IInv, TypeOK, Nothing
  <1>7. TypeOK'
    BY <1>1, <1>2, <1>3, <1>5, <1>6, EmptyIsTyped DEF IInv, TypeOK
  <1>8. Started' /\ ScansAreWhole' /\ AnswersAreUsed'
    <2>1. \A a \in Address : cursors'[a] # Nothing
      BY <1>5 DEF Nothing
    <2> QED
      BY <1>2, <1>6, <2>1 DEF Started, ScansAreWhole, AnswersAreUsed
  <1>9. ASSUME NEW t \in Transaction, Tracked(t)'
        PROVE  /\ t \in Accounted \/ StillListed(t, cursors', ReplayWindow)
               /\ Tracked(t) \/ (processed.cursors = NoCursors /\ checkpoint.cursors = NoCursors)
    <2>1. CASE origin # Nothing
      <3>1. cursors' = cursors
        BY <1>1, <1>2, <1>4, <2>1 DEF IInv, Started
      <3> QED
        BY <1>1, <1>9, <2>1, <3>1 DEF IInv, NothingSlips, Tracked
    <2>2. CASE origin = Nothing
      <3>1. cursors = NoCursors /\ processed.cursors = NoCursors /\ checkpoint.cursors = NoCursors
        BY <2>2 DEF IInv, Started, NoProgress
      <3>2. PICK a \in AddressesOf[t] : a \in Address
        BY NoCursorListsAll
      <3>3. cursors'[a] = SaturatingSub(h, ReplayWindow)
        BY <1>1, <3>1, <3>2 DEF NoCursors
      <3>4. SlotOf[t] > UnreachableBelow(h, ReplayWindow)
        BY <1>1, <1>9, <2>2 DEF Tracked
      <3>5. StillListed(t, cursors', ReplayWindow)
        BY <1>3, <3>2, <3>3, <3>4, FirstScanListsTracked DEF StillListed
      <3> QED
        BY <3>1, <3>5
    <2> QED
      BY <2>1, <2>2
  <1> QED
    BY <1>2, <1>7, <1>8, <1>9, PollerPreserves

LEMMA FailurePreserves == IInv /\ (BeginPollFails \/ DiscoverFails) => IInv'
  <1> SUFFICES ASSUME IInv, BeginPollFails \/ DiscoverFails PROVE IInv'
    OBVIOUS
  <1>1. /\ pc \in {"begin", "discover"} /\ pc' = "save"
        /\ delivered' \in {{}, delivered} /\ recent' \in {recent, recent \cup delivered}
        /\ poll' \in {poll, NewPoll(0)}
        /\ UNCHANGED <<head, streamed, forwarding, channel, inflight, logged, seen, journal, origin,
                       cursors, checkpoint, failures, processed, emitted, settled, reached, replayed,
                       crashes>>
    BY DEF BeginPollFails, DiscoverFails, ledger, stream, pipeline, disk, memory, history
  <1>2. TypeOK'
    <2>1. poll' \in [head : Nat, batches : [Address -> [found : SUBSET Transaction, next : Nat]],
                     retrying : SUBSET Transaction, sending : SUBSET Transaction]
      BY <1>1, EmptyIsTyped DEF IInv, TypeOK
    <2> QED
      BY <1>1, <2>1 DEF IInv, TypeOK
  <1>3. Started' /\ ScansAreWhole' /\ AnswersAreUsed'
    BY <1>1 DEF IInv, Started, ScansAreWhole, AnswersAreUsed
  <1>4. \A t \in Transaction : Tracked(t)' =>
            /\ t \in Accounted \/ StillListed(t, cursors', ReplayWindow)
            /\ Tracked(t)
    BY <1>1 DEF IInv, NothingSlips, Tracked
  <1> QED
    BY <1>1, <1>2, <1>3, <1>4, PollerPreserves

\* A poller that has parked keeps its progress, but nothing reads it any more.
LEMMA ParkPreserves == IInv /\ Park => IInv'
  <1> SUFFICES ASSUME IInv, Park PROVE IInv'
    OBVIOUS
  <1>1. /\ pc' = "parked" /\ delivered' = {} /\ poll' = NewPoll(0)
        /\ UNCHANGED <<head, streamed, forwarding, channel, inflight, logged, seen, journal, origin,
                       cursors, recent, checkpoint, failures, processed, emitted, settled, reached,
                       replayed, crashes>>
    BY DEF Park, ledger, pipeline, disk, memory, history
  <1>2. TypeOK'
    BY <1>1, EmptyIsTyped DEF IInv, TypeOK
  <1>3. Accounted' = Accounted /\ Taken' = Taken
    BY <1>1 DEF Accounted, Taken, Quarantined
  <1>4. PipelineKeeps' /\ SuppressionIsEarned' /\ JournalKeeps'
    BY <1>1, <1>3 DEF IInv, PipelineKeeps, SuppressionIsEarned, JournalKeeps, Dropped
  <1>5. Started' /\ ScansAreWhole' /\ AnswersAreUsed'
    BY <1>1 DEF IInv, Started, ScansAreWhole, AnswersAreUsed
  <1>6. NothingSlips'
    BY <1>1, <1>3 DEF IInv, NothingSlips, Tracked, StillListed
  <1> QED
    BY <1>2, <1>4, <1>5, <1>6 DEF IInv

\* A step inside a poll that changes neither the cursors nor what is suppressed.
LEMMA SameCursorsPreserve ==
    ASSUME IInv, TypeOK', ScansAreWhole', AnswersAreUsed',
           pc \in {"discover", "fetch", "send"}, pc' # "boot",
           UNCHANGED <<emitted, channel, inflight, logged, seen, forwarding, failures, processed,
                       checkpoint, journal, settled, reached, origin, cursors, delivered, recent>>
    PROVE  IInv'
  <1>1. Started'
    BY DEF IInv, Started
  <1>2. \A t \in Transaction : Tracked(t)' =>
            /\ t \in Accounted \/ StillListed(t, cursors', ReplayWindow)
            /\ Tracked(t)
    BY DEF IInv, NothingSlips, Tracked
  <1> QED
    BY <1>1, <1>2, PollerPreserves

\* A replica that is allowed to answer shows what lies one window below any cursor the
\* scan may leave.
LEMMA ReplicaShowsTheOld ==
    ASSUME NEW t \in Transaction, NEW h \in Nat,
           ~(SlotOf[t] + IndexLag <= MinContextSlot(h, ReplicaSkew, ReplayWindow))
    PROVE  SlotOf[t] + ReplayWindow > h + ReplicaLead
  <1>1. /\ SlotOf[t] \in Nat \ {0} /\ ReplayWindow \in Nat /\ IndexLag \in Nat
        /\ ReplicaSkew \in Nat /\ ReplicaLead \in Nat
        /\ Smaller(ReplicaSkew, ReplayWindow) + IndexLag + ReplicaLead <= ReplayWindow
    BY LedgerAssumption, PollingAssumption
  <1> QED
    BY <1>1 DEF MinContextSlot, SaturatingSub, Smaller

LEMMA DiscoverPreserves == IInv /\ Discover => IInv'
  <1> SUFFICES ASSUME IInv, Discover PROVE IInv'
    OBVIOUS
  <1> USE DEF ledger, stream, pipeline, disk, memory, history
  <1> DEFINE h == poll.head
  <1>1. PICK found \in [Address -> SUBSET Transaction] :
         /\ \A a \in Address :
              /\ MustFind(Touching(a), cursors[a], h) \subseteq found[a]
              /\ found[a] \subseteq MayFind(Touching(a), cursors[a], h, head)
         /\ poll' = [poll EXCEPT !.batches =
              [a \in Address |-> [found |-> found[a], next |-> CursorAfterScan(cursors[a], h, found[a])]]]
    BY DEF Discover
  <1>2. /\ pc = "discover" /\ pc' = "fetch"
        /\ UNCHANGED <<head, streamed, forwarding, delivered, channel, inflight, logged, seen, journal,
                       checkpoint, cursors, recent, failures, processed, emitted, origin, settled,
                       reached, replayed, crashes>>
    BY DEF Discover
  <1>3. /\ poll \in [head : Nat, batches : [Address -> [found : SUBSET Transaction, next : Nat]],
                     retrying : SUBSET Transaction, sending : SUBSET Transaction]
        /\ cursors \in [Address -> Nat \cup {Nothing}] /\ h \in Nat /\ head \in Nat
    BY DEF IInv, TypeOK
  <1>4. cursors \in [Address -> Nat]
    <2>1. \A a \in Address : cursors[a] # Nothing
      BY <1>2 DEF IInv, Started
    <2> QED
      BY <1>3, <2>1
  <1>5. ASSUME NEW a \in Address
        PROVE  LET next == CursorAfterScan(cursors[a], h, found[a])
               IN  /\ next \in Nat
                   /\ \A t \in found[a] :
                         t \in Touching(a) /\ SlotOf[t] > ReplayFloor(cursors[a], ReplayWindow)
                   /\ \A t \in Touching(a) :
                         SlotOf[t] + ReplayWindow > cursors[a] =>
                           t \in found[a] \/ SlotOf[t] + ReplayWindow > next
    <2> DEFINE next  == CursorAfterScan(cursors[a], h, found[a])
               slots == {SlotOf[t] : t \in found[a]}
               top   == h + ReplicaLead
    <2>1. top \in Nat /\ h <= top
      BY <1>3, PollingAssumption
    <2>2. \A t \in found[a] : /\ t \in Touching(a) /\ t \in Transaction /\ SlotOf[t] <= top
                              /\ SlotOf[t] > ReplayFloor(cursors[a], ReplayWindow)
      <3>1. \A t \in Touching(a) : t \in Transaction /\ SlotOf[t] \in Nat
        BY LedgerAssumption DEF Touching
      <3>2. Smaller(head, top) <= top
        BY <1>3, <2>1 DEF Smaller
      <3>3. Smaller(head, top) \in Nat
        BY <1>3, <2>1 DEF Smaller
      <3>4. \A t \in found[a] : /\ t \in Touching(a) /\ SlotOf[t] <= Smaller(head, top)
                                /\ SlotOf[t] > ReplayFloor(cursors[a], ReplayWindow)
        BY <1>1 DEF MayFind, AboveFloor
      <3> HIDE DEF top
      <3> QED
        BY <2>1, <3>1, <3>2, <3>3, <3>4
    <2>3. slots \in SUBSET Nat /\ (\A x \in slots : x <= top) /\ (found[a] # {} => slots # {})
      BY <2>2, LedgerAssumption
    <2>4. found[a] # {} => Max(slots) \in Nat /\ Max(slots) <= top
      <3> HIDE DEF slots, top
      <3> QED
        BY <2>1, <2>3, GreatestExists
    <2>5. next = Larger(h, IF found[a] = {} THEN cursors[a] ELSE Max(slots))
      BY DEF CursorAfterScan
    <2>6. next \in Nat /\ (next <= top \/ next = cursors[a])
      <3> HIDE DEF slots, next, top
      <3> QED
        BY <1>3, <1>4, <2>1, <2>4, <2>5 DEF Larger
    <2>7. ASSUME NEW t \in Touching(a), SlotOf[t] + ReplayWindow > cursors[a], t \notin found[a]
          PROVE  SlotOf[t] + ReplayWindow > next
      <3>1. /\ t \in Transaction /\ SlotOf[t] \in Nat \ {0} /\ ReplayWindow \in Nat \ {0}
            /\ cursors[a] \in Nat
        BY <1>4, LedgerAssumption, PollingAssumption DEF Touching
      <3>2. SlotOf[t] > ReplayFloor(cursors[a], ReplayWindow)
        BY <2>7, <3>1 DEF ReplayFloor, SaturatingSub
      <3>3. ~(SlotOf[t] + IndexLag <= MinContextSlot(h, ReplicaSkew, ReplayWindow))
        BY <1>1, <2>7, <3>2 DEF MustFind, AboveFloor
      <3>4. SlotOf[t] + ReplayWindow > top
        BY <1>3, <3>1, <3>3, ReplicaShowsTheOld
      <3> HIDE DEF next, top
      <3> QED
        BY <2>1, <2>6, <2>7, <3>1, <3>4
    <2>8. \A t \in Touching(a) : SlotOf[t] + ReplayWindow > cursors[a] =>
              t \in found[a] \/ SlotOf[t] + ReplayWindow > next
      <3> HIDE DEF next
      <3> QED
        BY <2>7
    <2> QED
      BY <2>2, <2>6, <2>8
  <1>6. TypeOK'
    <2>1. \A a \in Address : CursorAfterScan(cursors[a], h, found[a]) \in Nat
      BY <1>5
    <2>2. poll' \in [head : Nat, batches : [Address -> [found : SUBSET Transaction, next : Nat]],
                     retrying : SUBSET Transaction, sending : SUBSET Transaction]
      BY <1>1, <1>3, <2>1
    <2> QED
      BY <1>2, <2>2 DEF IInv, TypeOK
  <1>7. ScansAreWhole' /\ AnswersAreUsed'
    <2>1. \A a \in Address : /\ poll'.batches[a].found = found[a]
                            /\ poll'.batches[a].next = CursorAfterScan(cursors[a], h, found[a])
      BY <1>1, <1>3
    <2> QED
      BY <1>2, <1>5, <2>1 DEF ScansAreWhole, AnswersAreUsed
  <1> QED
    BY <1>2, <1>6, <1>7, SameCursorsPreserve

\* What a scan found is listed as long as the cursor stays.
LEMMA FoundIsListed ==
    ASSUME TypeOK, ScansAreWhole, pc \in {"fetch", "send"}, NEW a \in Address,
           NEW t \in poll.batches[a].found
    PROVE  /\ t \in Transaction /\ a \in AddressesOf[t]
           /\ cursors[a] = Nothing \/ SlotOf[t] + ReplayWindow > cursors[a]
  <1>1. t \in Touching(a) /\ SlotOf[t] > ReplayFloor(cursors[a], ReplayWindow)
    BY DEF ScansAreWhole
  <1>2. /\ t \in Transaction /\ a \in AddressesOf[t] /\ SlotOf[t] \in Nat
        /\ ReplayWindow \in Nat /\ cursors[a] \in Nat \cup {Nothing}
    BY <1>1, LedgerAssumption, PollingAssumption DEF Touching, TypeOK
  <1> QED
    BY <1>1, <1>2 DEF ReplayFloor, SaturatingSub, Nothing

LEMMA FetchPreserves == IInv /\ FetchTransactions => IInv'
  <1> SUFFICES ASSUME IInv, FetchTransactions PROVE IInv'
    OBVIOUS
  <1> USE DEF ledger, stream, pipeline, disk, history
  <1> DEFINE Outcome(transient, poisoned) ==
         LET decoded     == SignaturesToFetch \ (transient \cup poisoned)
             counted     == [t \in Transaction |->
                               IF t \in poisoned THEN PoisonCount(t)
                               ELSE IF t \in decoded THEN 0 ELSE failures[t]]
             quarantined == {t \in poisoned : counted[t] = MaxFailures}
             retrying    == Retrying(transient, poisoned, quarantined)
         IN  /\ failures' = counted
             /\ recent' = recent \cup quarantined
             /\ poll' = [poll EXCEPT !.retrying = retrying,
                                     !.sending = {t \in decoded : IsReady(t, retrying)}]
  <1>0. PICK transient \in SUBSET SignaturesToFetch :
            \E poisoned \in SUBSET ((SignaturesToFetch \ transient) \cap Suspect) :
                Outcome(transient, poisoned)
    BY DEF FetchTransactions, Fetch
  <1>1. PICK poisoned \in SUBSET ((SignaturesToFetch \ transient) \cap Suspect) :
            Outcome(transient, poisoned)
    BY <1>0
  <1> DEFINE decoded     == SignaturesToFetch \ (transient \cup poisoned)
             counted     == [t \in Transaction |->
                               IF t \in poisoned THEN PoisonCount(t)
                               ELSE IF t \in decoded THEN 0 ELSE failures[t]]
             quarantined == {t \in poisoned : counted[t] = MaxFailures}
             retrying    == transient \cup (poisoned \ quarantined)
             ready       == {t \in decoded : IsReady(t, retrying)}
  <1>2. /\ failures' = counted /\ recent' = recent \cup quarantined
        /\ poll' = [poll EXCEPT !.retrying = retrying, !.sending = ready]
    BY <1>1 DEF Retrying
  <1>3. /\ pc = "fetch" /\ pc' = "send"
        /\ UNCHANGED <<head, streamed, forwarding, delivered, channel, inflight, logged, seen, journal,
                       checkpoint, cursors, processed, emitted, origin, settled, reached, replayed,
                       crashes>>
    BY DEF FetchTransactions, Fetch
  <1>4. /\ poll \in [head : Nat, batches : [Address -> [found : SUBSET Transaction, next : Nat]],
                     retrying : SUBSET Transaction, sending : SUBSET Transaction]
        /\ failures \in [Transaction -> 0..MaxFailures] /\ MaxFailures \in Nat \ {0}
    BY PollingAssumption DEF IInv, TypeOK
  <1>5. /\ SignaturesToFetch \subseteq Transaction /\ SignaturesToFetch \cap recent = {}
        /\ \A t \in SignaturesToFetch : \E a \in Address : t \in poll.batches[a].found
        /\ \A a \in Address : \A t \in poll.batches[a].found : t \in SignaturesToFetch \cup recent
    <2>1. \A a \in Address : poll.batches[a].found \subseteq Transaction
      BY <1>4
    <2>2. \A t : t \in SignaturesToFetch <=>
                   t \notin recent /\ \E a \in Address : t \in poll.batches[a].found
      BY DEF SignaturesToFetch
    <2> QED
      BY <2>1, <2>2
  <1>6. counted \in [Transaction -> 0..MaxFailures]
    BY <1>4 DEF PoisonCount, Smaller
  <1>7. /\ transient \subseteq SignaturesToFetch /\ poisoned \subseteq SignaturesToFetch
        /\ decoded \subseteq SignaturesToFetch /\ quarantined \subseteq poisoned
        /\ ready \subseteq decoded
    OBVIOUS
  <1>8. poll' \in [head : Nat, batches : [Address -> [found : SUBSET Transaction, next : Nat]],
                   retrying : SUBSET Transaction, sending : SUBSET Transaction]
        /\ poll'.batches = poll.batches /\ poll'.retrying = retrying /\ poll'.sending = ready
    <2> HIDE DEF retrying, ready
    <2>1. retrying \subseteq Transaction /\ ready \subseteq Transaction
      BY <1>5, <1>7 DEF retrying
    <2> QED
      BY <1>2, <1>4, <2>1
  <1>9. TypeOK'
    <2>1. recent' \subseteq Transaction
      BY <1>2, <1>5, <1>7 DEF IInv, TypeOK
    <2> HIDE DEF counted, quarantined, retrying, ready
    <2> QED
      BY <1>2, <1>3, <1>6, <1>8, <2>1 DEF IInv, TypeOK
  <1>10. PipelineKeeps' /\ Taken' = Taken
    BY <1>3, PipelineUntouched DEF IInv
  <1>11. /\ \A t \in Accounted \ SignaturesToFetch : t \in Accounted'
         /\ quarantined \subseteq Accounted'
    <2>1. \A t \in Transaction \ SignaturesToFetch : failures'[t] = failures[t]
      BY <1>2, <1>7
    <2>2. \A t \in Quarantined \ SignaturesToFetch : t \in Quarantined'
      BY <2>1 DEF Quarantined
    <2>3. quarantined \subseteq Quarantined'
      <3>1. \A t \in quarantined : t \in Transaction /\ failures'[t] = MaxFailures
        BY <1>2, <1>5, <1>7
      <3> QED
        BY <3>1 DEF Quarantined
    <2> HIDE DEF quarantined
    <2> QED
      BY <1>10, <2>2, <2>3 DEF Accounted
  <1>12. SuppressionIsEarned'
    <2>1. recent \subseteq Accounted'
      BY <1>5, <1>11 DEF IInv, SuppressionIsEarned
    <2> HIDE DEF quarantined
    <2> QED
      BY <1>2, <1>3, <1>11, <2>1 DEF IInv, SuppressionIsEarned
  <1>13. Started' /\ ScansAreWhole'
    BY <1>3, <1>8 DEF IInv, Started, ScansAreWhole
  <1>14. AnswersAreUsed'
    <2> SUFFICES ASSUME NEW a \in Address, NEW t \in poll.batches[a].found
                 PROVE  \/ t \in Accounted' \cup ready
                        \/ \E b \in Address : t \in poll.batches[b].found
                                             /\ poll.batches[b].found \cap retrying # {}
      BY <1>8 DEF AnswersAreUsed, IsBlocked
    <2>1. CASE t \in recent
      BY <1>5, <1>11, <2>1 DEF IInv, SuppressionIsEarned
    <2>2. CASE t \in retrying
      BY <2>2
    <2>3. CASE t \in quarantined
      BY <1>11, <2>3
    <2>4. CASE t \in decoded
      <3>1. IsReady(t, retrying) \/ \E b \in Address : t \in poll.batches[b].found
                                                    /\ poll.batches[b].found \cap retrying # {}
        BY DEF IsReady, IsBlocked
      <3> QED
        BY <2>4, <3>1
    <2>5. t \in recent \cup retrying \cup quarantined \cup decoded
      BY <1>5
    <2> QED
      BY <2>1, <2>2, <2>3, <2>4, <2>5
  <1>15. NothingSlips'
    <2> SUFFICES ASSUME NEW t \in Transaction, Tracked(t)
                 PROVE  /\ t \in Accounted' \/ StillListed(t, cursors, ReplayWindow)
                        /\ \/ t \in emitted \cup processed.quarantined
                           \/ StillListed(t, processed.cursors, 2 * ReplayWindow)
                        /\ \/ t \in emitted \cup checkpoint.quarantined
                           \/ StillListed(t, checkpoint.cursors, 2 * ReplayWindow)
      BY <1>3 DEF NothingSlips, Tracked
    <2>1. t \in Accounted' \/ StillListed(t, cursors, ReplayWindow)
      <3>1. CASE t \in SignaturesToFetch
        <4>1. PICK a \in Address : t \in poll.batches[a].found
          BY <1>5, <3>1
        <4>2. a \in AddressesOf[t] /\ (cursors[a] = Nothing \/ SlotOf[t] + ReplayWindow > cursors[a])
          BY <1>3, <4>1, FoundIsListed DEF IInv
        <4> QED
          BY <4>2 DEF StillListed
      <3>2. CASE t \notin SignaturesToFetch
        BY <1>11, <3>2 DEF IInv, NothingSlips
      <3> QED
        BY <3>1, <3>2
    <2> QED
      BY <2>1 DEF IInv, NothingSlips
  <1>16. JournalKeeps'
    BY <1>3 DEF IInv, JournalKeeps, Dropped
  <1> QED
    BY <1>9, <1>10, <1>12, <1>13, <1>14, <1>15, <1>16 DEF IInv

LEMMA SendPreserves == \A t \in Transaction : IInv /\ Send(t) => IInv'
  <1> SUFFICES ASSUME NEW t \in Transaction, IInv, Send(t) PROVE IInv'
    OBVIOUS
  <1> USE DEF ledger, stream, disk, history
  <1>1. /\ pc = "send" /\ Len(channel) < ChannelCapacity /\ channel \in Seq(Transaction)
        /\ channel' = Append(channel, t) /\ recent' = recent \cup {t}
        /\ poll' = [poll EXCEPT !.sending = @ \ {t}]
        /\ UNCHANGED <<head, streamed, forwarding, delivered, inflight, logged, seen, journal,
                       checkpoint, pc, cursors, failures, processed, emitted, origin, settled,
                       reached, replayed, crashes>>
    BY DEF Send, HasRoom, IInv, TypeOK
  <1>2. /\ channel' \in Seq(Transaction) /\ Len(channel') = Len(channel) + 1
        /\ ToSet(channel') = ToSet(channel) \cup {t}
    BY <1>1, AppendAdds
  <1>3. /\ poll \in [head : Nat, batches : [Address -> [found : SUBSET Transaction, next : Nat]],
                     retrying : SUBSET Transaction, sending : SUBSET Transaction]
        /\ poll' \in [head : Nat, batches : [Address -> [found : SUBSET Transaction, next : Nat]],
                      retrying : SUBSET Transaction, sending : SUBSET Transaction]
        /\ poll'.batches = poll.batches /\ poll'.retrying = poll.retrying
        /\ poll'.sending = poll.sending \ {t}
    BY <1>1 DEF IInv, TypeOK
  <1>4. TypeOK'
    <2>1. Len(channel') <= ChannelCapacity
      BY <1>1, <1>2, PollingAssumption
    <2> QED
      BY <1>1, <1>2, <1>3, <2>1 DEF IInv, TypeOK
  <1>5. Taken' = Taken \cup {t} /\ Accounted' = Accounted \cup {t}
    BY <1>1, <1>2 DEF Taken, Accounted, Quarantined
  <1>6. PipelineKeeps' /\ SuppressionIsEarned'
    BY <1>1, <1>5 DEF IInv, PipelineKeeps, SuppressionIsEarned
  <1>7. Started' /\ ScansAreWhole'
    BY <1>1, <1>3 DEF IInv, Started, ScansAreWhole
  <1>8. AnswersAreUsed'
    BY <1>1, <1>3, <1>5 DEF IInv, AnswersAreUsed, IsBlocked
  <1>9. NothingSlips'
    BY <1>1, <1>5 DEF IInv, NothingSlips, Tracked, StillListed
  <1>10. JournalKeeps'
    BY <1>1 DEF IInv, JournalKeeps, Dropped
  <1> QED
    BY <1>4, <1>6, <1>7, <1>8, <1>9, <1>10 DEF IInv

LEMMA FinishPollPreserves == IInv /\ FinishPoll => IInv'
  <1> SUFFICES ASSUME IInv, FinishPoll PROVE IInv'
    OBVIOUS
  <1> USE DEF ledger, stream, pipeline, disk, history
  <1>1. /\ pc = "send" /\ pc' = "save" /\ poll.sending = {} /\ cursors' = AdvancedCursors
        /\ recent' \subseteq recent /\ poll' = NewPoll(0)
        /\ UNCHANGED <<head, streamed, forwarding, delivered, channel, inflight, logged, seen, journal,
                       checkpoint, failures, processed, emitted, origin, settled, reached, replayed,
                       crashes>>
    BY DEF FinishPoll
  <1>2. /\ poll.batches \in [Address -> [found : SUBSET Transaction, next : Nat]]
        /\ cursors \in [Address -> Nat]
    <2>1. \A a \in Address : cursors[a] # Nothing
      BY <1>1 DEF IInv, Started
    <2> QED
      BY <2>1 DEF IInv, TypeOK
  <1>3. /\ cursors' \in [Address -> Nat]
        /\ \A a \in Address : cursors'[a] = IF IsBlocked(a, poll.retrying) THEN cursors[a]
                                            ELSE poll.batches[a].next
    BY <1>1, <1>2 DEF AdvancedCursors
  <1>4. TypeOK'
    BY <1>1, <1>3, EmptyIsTyped DEF IInv, TypeOK
  <1>5. Started' /\ ScansAreWhole' /\ AnswersAreUsed'
    <2>1. \A a \in Address : cursors'[a] # Nothing
      BY <1>3 DEF Nothing
    <2> QED
      BY <1>1, <2>1 DEF IInv, Started, ScansAreWhole, AnswersAreUsed
  <1>6. ASSUME NEW t \in Transaction, Tracked(t), t \notin Accounted
        PROVE  StillListed(t, cursors', ReplayWindow)
    <2>1. PICK a \in AddressesOf[t] : cursors[a] = Nothing \/ SlotOf[t] + ReplayWindow > cursors[a]
      BY <1>6 DEF IInv, NothingSlips, StillListed
    <2>2. a \in Address /\ t \in Touching(a) /\ SlotOf[t] + ReplayWindow > cursors[a]
      BY <1>2, <2>1, NoCursorListsAll DEF Touching, Nothing
    <2>3. CASE IsBlocked(a, poll.retrying)
      BY <1>3, <2>2, <2>3 DEF StillListed, Touching
    <2>4. CASE SlotOf[t] + ReplayWindow > poll.batches[a].next
      BY <1>3, <2>2, <2>4 DEF StillListed, Touching
    <2>5. CASE t \in poll.batches[a].found
      <3>1. PICK b \in Address : t \in poll.batches[b].found /\ IsBlocked(b, poll.retrying)
        BY <1>1, <1>6, <2>2, <2>5 DEF IInv, AnswersAreUsed
      <3>2. b \in AddressesOf[t] /\ (cursors[b] = Nothing \/ SlotOf[t] + ReplayWindow > cursors[b])
        BY <1>1, <3>1, FoundIsListed DEF IInv
      <3>3. cursors'[b] = cursors[b]
        BY <1>3, <3>1
      <3> QED
        BY <3>2, <3>3 DEF StillListed
    <2>6. t \in poll.batches[a].found \/ SlotOf[t] + ReplayWindow > poll.batches[a].next
      BY <1>1, <2>2 DEF IInv, ScansAreWhole
    <2> QED
      BY <2>3, <2>4, <2>5, <2>6
  <1>7. \A t \in Transaction : Tracked(t)' =>
            /\ t \in Accounted \/ StillListed(t, cursors', ReplayWindow)
            /\ Tracked(t)
    BY <1>1, <1>6 DEF Tracked
  <1> QED
    BY <1>1, <1>4, <1>5, <1>7, PollerPreserves

-------------------------------------------------------------------------------
(* The theorems. *)

LEMMA StutteringPreserves == IInv /\ UNCHANGED vars => IInv'
  <1> SUFFICES ASSUME IInv, UNCHANGED vars PROVE IInv'
    OBVIOUS
  <1>1. UNCHANGED <<head, streamed, forwarding, delivered, channel, inflight, logged, seen, journal,
                    checkpoint, pc, cursors, recent, failures, processed, poll, emitted, origin,
                    settled, reached, replayed, crashes>>
    BY DEF vars, ledger, stream, pipeline, disk, memory, history
  <1>2. TypeOK'
    BY <1>1 DEF IInv, TypeOK
  <1>3. PipelineKeeps' /\ Taken' = Taken
    BY <1>1, PipelineUntouched DEF IInv
  <1>4. JournalKeeps' /\ journal'.entries \subseteq emitted'
    BY <1>1 DEF IInv, JournalKeeps, Dropped, SuppressionIsEarned
  <1> QED
    BY <1>1, <1>2, <1>3, <1>4, PipelinePreserves

LEMMA NextPreserves == IInv /\ [Next]_vars => IInv'
  BY ForwardPreserves, DequeuePreserves, LogRecordsPreserves, ShipPreserves, StreamPreserves,
     StartFreshPreserves, LoadCheckpointPreserves, CrashPreserves, SaveCheckpointPreserves,
     BeginPollPreserves, FailurePreserves, DiscoverPreserves, FetchPreserves, SendPreserves,
     FinishPollPreserves, ParkPreserves, StutteringPreserves DEF Next, Pipeline, Poller

LEMMA Invariance == Spec => []IInv
  BY InitEstablishes, NextPreserves, PTL DEF Spec

\* The state stays well formed; in particular the channel never holds more updates
\* than it has room for, though two tasks send to it.
THEOREM TypeCorrect == Spec => []TypeOK
  <1>1. IInv => TypeOK
    BY DEF IInv
  <1> QED
    BY <1>1, Invariance, PTL

\* Whatever a crash loses is rediscovered: a tracked transaction is logged or durably
\* quarantined, or nothing on disk suppresses it and a restart lists it.
THEOREM NoLoss == Spec => []NothingIsLost
  <1>1. IInv => NothingIsLost
    BY DEF IInv, NothingSlips, SuppressionIsEarned, NothingIsLost, Owed
  <1> QED
    BY <1>1, Invariance, PTL

\* While the process lives, a tracked transaction is logged, in the pipeline or
\* quarantined, or the next scan lists it and nothing suppresses it.
THEOREM NoForgetting == Spec => []NothingIsForgotten
  <1>1. IInv => NothingIsForgotten
    BY DEF IInv, NothingSlips, SuppressionIsEarned, NothingIsForgotten, Accounted, Taken
  <1> QED
    BY <1>1, Invariance, PTL

\* What has been journaled and lies above the slot where suppression may have been
\* dropped stays suppressed on disk, through every compaction, failed write and crash.
THEOREM SettledStaysSuppressed == Spec => []SettledIsSuppressed
  <1>1. IInv => SettledIsSuppressed
    BY DEF IInv, JournalKeeps, SettledIsSuppressed
  <1> QED
    BY <1>1, Invariance, PTL
===============================================================================
