------------------------------ MODULE Replay_proofs ------------------------------
(***************************************************************************)
(* What has been journaled is logged again only two windows below the      *)
(* highest slot a checkpoint has reached: the argument for RpcPolling's    *)
(* ReplayOnlyOfDropped, for every value of the constants.                  *)
(***************************************************************************)
EXTENDS RpcPolling_proofs

InPoll == pc \in {"discover", "fetch", "send"}
Scanned == pc \in {"fetch", "send"}

\* No cursor, in memory or on disk, is above the head, nor is what has been found.
BelowHead ==
    /\ \A a \in Address : /\ cursors[a] <= head /\ processed.cursors[a] <= head
                          /\ checkpoint.cursors[a] <= head
    /\ InPoll => poll.head <= head
    /\ Scanned => \A a \in Address :
           /\ poll.head <= poll.batches[a].next /\ poll.batches[a].next <= head
           /\ \A t \in poll.batches[a].found : SlotOf[t] <= head
    /\ \A t \in settled \cup ToSet(channel) \cup inflight : SlotOf[t] <= head

\* What is about to be sent has been found, and only a poll is about to send.
SendsWhatItFound ==
    pc = "send" => \A t \in poll.sending : \E a \in Address : t \in poll.batches[a].found

\* A booting process has nothing in memory.
BootsEmpty == pc = "boot" => recent = {} /\ cursors = NoCursors

\* No scan of this process will list t again: the head is so far that even a lagging one
\* leaves every cursor a window above it.
Passed(t) ==
    /\ SlotOf[t] + 2 * ReplayWindow <= head
    /\ \A a \in Address : SlotOf[t] + ReplayWindow <= cursors[a]
    /\ InPoll => SlotOf[t] + ReplayWindow <= poll.head

\* The poller knows of t, or is about to be told by the forwarder, or has passed it.
Known(t) == t \in recent \cup delivered \cup forwarding \/ Passed(t)

\* What a pipeline holds, and what has been journaled, a poller that polls knows of.
PollerKnows ==
    pc # "parked" =>
    /\ \A t \in ToSet(channel) \cup inflight : Known(t)
    /\ pc # "boot" => \A t \in settled : Dropped(SlotOf[t]) \/ Known(t)

\* The stream does not carry again what the filter has forgotten.
StreamIsPast ==
    \A t \in settled : t \in streamed \cup seen \/ SlotOf[t] + StreamLag < head

\* What is on its way to the pipeline a second time the filter still knows.
OnTheWay == ToSet(channel) \cup inflight \cup forwarding \cup delivered
            \cup (IF pc = "send" THEN poll.sending ELSE {})

FilterCatches ==
    /\ \A t \in settled \cap OnTheWay : Dropped(SlotOf[t]) \/ t \in seen
    /\ logged => inflight \subseteq seen

RInv == /\ IInv /\ BelowHead /\ SendsWhatItFound /\ BootsEmpty /\ PollerKnows /\ StreamIsPast
        /\ FilterCatches /\ ReplayOnlyOfDropped

-------------------------------------------------------------------------------
(* What a step keeps. *)

LEMMA Numbers ==
    /\ \A t \in Transaction : SlotOf[t] \in Nat \ {0}
    /\ ReplayWindow \in Nat \ {0} /\ StreamLag \in Nat /\ HeadSkew \in 0..ReplayWindow
  BY LedgerAssumption, PollingAssumption

\* The poller still knows what it knew after a step that keeps its cursors.
LEMMA KnownPersists ==
    ASSUME TypeOK, TypeOK', head <= head', UNCHANGED cursors,
           InPoll' => InPoll /\ poll'.head = poll.head,
           recent \cup delivered \cup forwarding \subseteq recent' \cup delivered' \cup forwarding'
    PROVE  \A t \in Transaction : Known(t) => Known(t)'
  <1> SUFFICES ASSUME NEW t \in Transaction, Passed(t) PROVE Passed(t)'
    BY DEF Known
  <1>1. SlotOf[t] + 2 * ReplayWindow \in Nat /\ head \in Nat /\ head' \in Nat
    BY Numbers DEF TypeOK
  <1>2. SlotOf[t] + 2 * ReplayWindow <= head'
    BY <1>1 DEF Passed
  <1> QED
    BY <1>2 DEF Passed

\* Steps of the stream and the pipeline, and others that keep the poller's progress.
LEMMA PollerUntouched ==
    ASSUME RInv, TypeOK', head <= head',
           UNCHANGED <<pc, cursors, recent, processed, checkpoint, poll>>,
           \A t \in settled' \cup ToSet(channel') \cup inflight' :
               /\ t \in Transaction
               /\ t \in settled \cup ToSet(channel) \cup inflight \/ SlotOf[t] <= head
    PROVE  BelowHead' /\ SendsWhatItFound' /\ BootsEmpty'
  <1>1. head \in Nat /\ head' \in Nat /\ cursors \in [Address -> Nat \cup {Nothing}]
        /\ processed.cursors \in [Address -> Nat \cup {Nothing}]
        /\ checkpoint.cursors \in [Address -> Nat \cup {Nothing}]
        /\ poll.head \in Nat /\ poll.batches \in [Address -> [found : SUBSET Transaction, next : Nat]]
    BY DEF RInv, IInv, TypeOK, Progress
  <1>2. ASSUME NEW x \in Nat \cup {Nothing}, x <= head PROVE x <= head'
    BY <1>1, <1>2 DEF Nothing
  <1>3. \A t \in Transaction : SlotOf[t] <= head => SlotOf[t] <= head'
    BY <1>2, Numbers
  <1>4. \A a \in Address : /\ cursors[a] <= head' /\ processed.cursors[a] <= head'
                           /\ checkpoint.cursors[a] <= head'
    BY <1>1, <1>2 DEF RInv, BelowHead
  <1>5. InPoll => poll.head <= head'
    BY <1>1, <1>2 DEF RInv, BelowHead
  <1>6. Scanned => \A a \in Address :
           /\ poll.head <= poll.batches[a].next /\ poll.batches[a].next <= head'
           /\ \A t \in poll.batches[a].found : SlotOf[t] <= head'
    BY <1>1, <1>2, <1>3 DEF RInv, BelowHead
  <1>7. \A t \in settled' \cup ToSet(channel') \cup inflight' : SlotOf[t] <= head'
    BY <1>3 DEF RInv, BelowHead
  <1>8. BelowHead'
    BY <1>4, <1>5, <1>6, <1>7 DEF BelowHead, InPoll, Scanned
  <1> QED
    BY <1>8 DEF RInv, SendsWhatItFound, BootsEmpty

-------------------------------------------------------------------------------
(* The stream and the pipeline. *)

LEMMA ForwardKeeps == \A t \in Transaction : RInv /\ Forward(t) => RInv'
  <1> SUFFICES ASSUME NEW t \in Transaction, RInv, Forward(t) PROVE RInv'
    OBVIOUS
  <1> USE DEF ledger, disk, memory, history
  <1>1. /\ channel \in Seq(Transaction) /\ channel' = Append(channel, t)
        /\ forwarding = {} /\ forwarding' = {t} /\ streamed' = streamed \cup {t}
        /\ t \notin streamed /\ SlotOf[t] <= head /\ head <= SlotOf[t] + StreamLag
        /\ UNCHANGED <<head, delivered, inflight, logged, seen, journal, checkpoint, pc, cursors,
                       recent, failures, processed, poll, emitted, origin, settled, reached,
                       replayed, crashes>>
    BY DEF RInv, IInv, TypeOK, Forward
  <1>2. ToSet(channel') = ToSet(channel) \cup {t}
    BY <1>1, AppendAdds
  <1>3. IInv' /\ TypeOK /\ TypeOK'
    BY ForwardPreserves DEF RInv, IInv
  <1>4. /\ settled \subseteq Transaction /\ inflight \subseteq Transaction /\ head \in Nat
        /\ ToSet(channel) \subseteq Transaction
    <2>1. \A x \in ToSet(channel) : x \in Transaction
      BY <1>1 DEF ToSet
    <2> QED
      BY <1>3, <2>1 DEF TypeOK
  <1>5. BelowHead' /\ SendsWhatItFound' /\ BootsEmpty'
    BY <1>1, <1>2, <1>3, <1>4, PollerUntouched
  <1>6. \A u \in Transaction : Known(u) => Known(u)'
    BY <1>1, <1>3, <1>4, KnownPersists DEF InPoll
  <1>7. PollerKnows'
    <2>1. Known(t)'
      BY <1>1 DEF Known
    <2>2. pc' # "parked" => \A u \in ToSet(channel') \cup inflight' : Known(u)'
      BY <1>1, <1>2, <1>4, <1>6, <2>1 DEF RInv, PollerKnows
    <2>3. pc' \notin {"boot", "parked"} => \A u \in settled' : Dropped(SlotOf[u])' \/ Known(u)'
      BY <1>1, <1>4, <1>6 DEF RInv, PollerKnows, Dropped
    <2> QED
      BY <2>2, <2>3 DEF PollerKnows
  <1>8. StreamIsPast'
    BY <1>1 DEF RInv, StreamIsPast
  <1>9. FilterCatches'
    <2>1. t \in settled => t \in seen
      BY <1>1, <1>4, Numbers DEF RInv, StreamIsPast
    <2>2. OnTheWay' = OnTheWay \cup {t}
      BY <1>1, <1>2 DEF OnTheWay
    <2> QED
      BY <1>1, <2>1, <2>2 DEF RInv, FilterCatches, Dropped
  <1>10. ReplayOnlyOfDropped'
    BY <1>1 DEF RInv, ReplayOnlyOfDropped, Dropped
  <1> QED
    BY <1>3, <1>5, <1>7, <1>8, <1>9, <1>10 DEF RInv

LEMMA StreamKeeps == RInv /\ (AdvanceHead \/ RecordDelivery \/ \E t \in Transaction : Expire(t)) => RInv'
  <1> SUFFICES ASSUME RInv, AdvanceHead \/ RecordDelivery \/ \E t \in Transaction : Expire(t)
               PROVE  RInv'
    OBVIOUS
  <1>1. /\ head' \in {head, head + 1}
        /\ forwarding' \cup delivered' \subseteq forwarding \cup delivered
        /\ pc # "parked" => forwarding' \cup delivered' = forwarding \cup delivered
        /\ UNCHANGED <<streamed, channel, inflight, logged, journal, checkpoint, pc, cursors,
                       recent, failures, processed, poll, emitted, origin, settled, reached,
                       replayed, crashes>>
    BY DEF AdvanceHead, RecordDelivery, Expire, ledger, stream, pipeline, disk, memory, history
  <1>2. \/ seen' = seen
        \/ \E t \in Transaction : /\ seen' = seen \ {t} /\ pc = "save" /\ head > SlotOf[t] + StreamLag
                                  /\ t \notin OnTheWay
    BY DEF AdvanceHead, RecordDelivery, Expire, pipeline, OnTheWay
  <1>3. IInv' /\ TypeOK /\ TypeOK'
    BY StreamPreserves DEF RInv, IInv
  <1>4. /\ settled \subseteq Transaction /\ inflight \subseteq Transaction /\ head \in Nat
        /\ ToSet(channel) \subseteq Transaction /\ head <= head'
    <2>1. \A x \in ToSet(channel) : x \in Transaction
      BY <1>3 DEF ToSet, TypeOK
    <2> QED
      BY <1>1, <1>3, <2>1 DEF TypeOK
  <1>5. BelowHead' /\ SendsWhatItFound' /\ BootsEmpty'
    BY <1>1, <1>3, <1>4, PollerUntouched
  <1>6. pc # "parked" => \A u \in Transaction : Known(u) => Known(u)'
    BY <1>1, <1>3, <1>4, KnownPersists DEF InPoll
  <1>7. PollerKnows'
    BY <1>1, <1>4, <1>6 DEF RInv, PollerKnows, Dropped
  <1>8. StreamIsPast'
    <2> SUFFICES ASSUME NEW t \in settled
                 PROVE  t \in streamed \cup seen' \/ SlotOf[t] + StreamLag < head'
      BY <1>1 DEF StreamIsPast
    <2>0. head \in Nat /\ head' \in Nat
      BY <1>3 DEF TypeOK
    <2>1. t \in Transaction /\ SlotOf[t] \in Nat /\ StreamLag \in Nat
      BY <1>4, Numbers
    <2>2. CASE t \in seen /\ t \notin seen'
      <3>1. PICK u \in Transaction : seen' = seen \ {u} /\ head > SlotOf[u] + StreamLag
        BY <1>2, <2>2
      <3>2. u = t
        BY <2>2, <3>1
      <3> QED
        BY <1>4, <2>0, <2>1, <3>1, <3>2
    <2>3. CASE t \in streamed \cup seen' \/ SlotOf[t] + StreamLag < head
      BY <1>4, <2>0, <2>1, <2>3
    <2> QED
      BY <2>2, <2>3 DEF RInv, StreamIsPast
  <1>9. FilterCatches'
    <2>1. OnTheWay' \subseteq OnTheWay
      BY <1>1 DEF OnTheWay
    <2>2. inflight \subseteq OnTheWay
      BY DEF OnTheWay
    <2> QED
      BY <1>1, <1>2, <2>1, <2>2 DEF RInv, FilterCatches, Dropped
  <1>10. ReplayOnlyOfDropped'
    BY <1>1 DEF RInv, ReplayOnlyOfDropped, Dropped
  <1> QED
    BY <1>3, <1>5, <1>7, <1>8, <1>9, <1>10 DEF RInv

LEMMA DequeueKeeps == RInv /\ Dequeue => RInv'
  <1> SUFFICES ASSUME RInv, Dequeue PROVE RInv'
    OBVIOUS
  <1> USE DEF ledger, stream, disk, memory, history
  <1>1. /\ channel \in Seq(Transaction) /\ channel # <<>> /\ inflight = {}
        /\ channel' = Tail(channel) /\ inflight' = {Head(channel)} /\ logged' = FALSE
        /\ UNCHANGED <<head, streamed, forwarding, delivered, seen, journal, checkpoint, pc,
                       cursors, recent, failures, processed, poll, emitted, origin, settled,
                       reached, replayed, crashes>>
    BY DEF RInv, IInv, TypeOK, Dequeue
  <1>2. ToSet(channel') \cup inflight' = ToSet(channel) \cup inflight
    BY <1>1, HeadAndTail
  <1>3. IInv' /\ TypeOK /\ TypeOK'
    BY DequeuePreserves DEF RInv, IInv
  <1>4. /\ settled \subseteq Transaction /\ inflight \subseteq Transaction /\ head \in Nat
        /\ ToSet(channel) \subseteq Transaction
    <2>1. \A x \in ToSet(channel) : x \in Transaction
      BY <1>1 DEF ToSet
    <2> QED
      BY <1>3, <2>1 DEF TypeOK
  <1>5. BelowHead' /\ SendsWhatItFound' /\ BootsEmpty'
    BY <1>1, <1>2, <1>3, <1>4, PollerUntouched
  <1>6. \A u \in Transaction : Known(u) => Known(u)'
    BY <1>1, <1>3, <1>4, KnownPersists DEF InPoll
  <1>7. PollerKnows'
    BY <1>1, <1>2, <1>4, <1>6 DEF RInv, PollerKnows, Dropped
  <1>8. StreamIsPast' /\ ReplayOnlyOfDropped'
    BY <1>1 DEF RInv, StreamIsPast, ReplayOnlyOfDropped, Dropped
  <1>9. FilterCatches'
    <2>1. OnTheWay' = OnTheWay
      BY <1>1, <1>2 DEF OnTheWay
    <2> QED
      BY <1>1, <2>1 DEF RInv, FilterCatches, Dropped
  <1> QED
    BY <1>3, <1>5, <1>7, <1>8, <1>9 DEF RInv

LEMMA LogRecordsKeeps == RInv /\ LogRecords => RInv'
  <1> SUFFICES ASSUME RInv, LogRecords PROVE RInv'
    OBVIOUS
  <1> USE DEF ledger, stream, disk, memory
  <1>1. /\ logged' = TRUE /\ seen' = seen \cup inflight
        /\ replayed' = replayed \cup ((inflight \ seen) \cap emitted \cap settled)
        /\ UNCHANGED <<head, streamed, forwarding, delivered, channel, inflight, journal,
                       checkpoint, pc, cursors, recent, failures, processed, poll, origin,
                       settled, reached, crashes>>
    BY DEF LogRecords
  <1>3. IInv' /\ TypeOK /\ TypeOK'
    BY LogRecordsPreserves DEF RInv, IInv
  <1>4. /\ settled \subseteq Transaction /\ inflight \subseteq Transaction /\ head \in Nat
        /\ ToSet(channel) \subseteq Transaction
    <2>1. \A x \in ToSet(channel) : x \in Transaction
      BY <1>3 DEF ToSet, TypeOK
    <2> QED
      BY <1>3, <2>1 DEF TypeOK
  <1>5. BelowHead' /\ SendsWhatItFound' /\ BootsEmpty'
    BY <1>1, <1>3, <1>4, PollerUntouched
  <1>6. \A u \in Transaction : Known(u) => Known(u)'
    BY <1>1, <1>3, <1>4, KnownPersists DEF InPoll
  <1>7. PollerKnows'
    BY <1>1, <1>4, <1>6 DEF RInv, PollerKnows, Dropped
  <1>8. StreamIsPast'
    BY <1>1 DEF RInv, StreamIsPast
  <1>9. FilterCatches'
    <2>1. OnTheWay' = OnTheWay
      BY <1>1 DEF OnTheWay
    <2> QED
      BY <1>1, <2>1 DEF RInv, FilterCatches, Dropped
  <1>10. ReplayOnlyOfDropped'
    <2>1. inflight \subseteq OnTheWay
      BY DEF OnTheWay
    <2> QED
      BY <1>1, <2>1 DEF RInv, FilterCatches, ReplayOnlyOfDropped, Dropped
  <1> QED
    BY <1>3, <1>5, <1>7, <1>8, <1>9, <1>10 DEF RInv

LEMMA ShipKeeps == RInv /\ Ship => RInv'
  <1> SUFFICES ASSUME RInv, Ship PROVE RInv'
    OBVIOUS
  <1> USE DEF ledger, stream, memory
  <1>1. /\ inflight' = {} /\ logged' = FALSE /\ logged
        /\ settled \subseteq settled' /\ settled' \subseteq settled \cup inflight
        /\ UNCHANGED <<head, streamed, forwarding, delivered, channel, seen,
                       checkpoint, pc, cursors, recent, failures, processed, poll, origin,
                       emitted, reached, replayed, crashes>>
    BY DEF Ship
  <1>3. IInv' /\ TypeOK /\ TypeOK'
    BY ShipPreserves DEF RInv, IInv
  <1>4. /\ settled \subseteq Transaction /\ inflight \subseteq Transaction /\ head \in Nat
        /\ ToSet(channel) \subseteq Transaction
    <2>1. \A x \in ToSet(channel) : x \in Transaction
      BY <1>3 DEF ToSet, TypeOK
    <2> QED
      BY <1>3, <2>1 DEF TypeOK
  <1>5. BelowHead' /\ SendsWhatItFound' /\ BootsEmpty'
    BY <1>1, <1>3, <1>4, PollerUntouched
  <1>6. \A u \in Transaction : Known(u) => Known(u)'
    BY <1>1, <1>3, <1>4, KnownPersists DEF InPoll
  <1>7. PollerKnows'
    BY <1>1, <1>4, <1>6 DEF RInv, PollerKnows, Dropped
  <1>8. inflight \subseteq seen
    BY <1>1 DEF RInv, FilterCatches
  <1>9. StreamIsPast'
    BY <1>1, <1>8 DEF RInv, StreamIsPast
  <1>10. FilterCatches'
    <2>1. OnTheWay' \subseteq OnTheWay
      BY <1>1 DEF OnTheWay
    <2> QED
      BY <1>1, <1>8, <2>1 DEF RInv, FilterCatches, Dropped
  <1>11. ReplayOnlyOfDropped'
    BY <1>1 DEF RInv, ReplayOnlyOfDropped, Dropped
  <1> QED
    BY <1>3, <1>5, <1>7, <1>9, <1>10, <1>11 DEF RInv

-------------------------------------------------------------------------------
(* Starting, a crash, and between polls. *)

LEMMA ReplayInit == Init => RInv
  <1> SUFFICES ASSUME Init PROVE RInv
    OBVIOUS
  <1>1. IInv /\ TypeOK
    BY InitEstablishes DEF IInv
  <1>2. ToSet(channel) = {} /\ inflight = {} /\ settled = {}
    BY DEF Init, ToSet
  <1>3. head \in Nat
    BY <1>1 DEF TypeOK
  <1>4. BelowHead
    BY <1>2, <1>3 DEF Init, BelowHead, InPoll, Scanned, NoCursors, NoProgress, Nothing
  <1>5. SendsWhatItFound /\ BootsEmpty /\ PollerKnows /\ StreamIsPast /\ FilterCatches
        /\ ReplayOnlyOfDropped
    BY <1>2 DEF Init, SendsWhatItFound, BootsEmpty, PollerKnows, StreamIsPast, FilterCatches,
                ReplayOnlyOfDropped
  <1> QED
    BY <1>1, <1>4, <1>5 DEF RInv

\* Before it has cursors the poller has passed nothing.
LEMMA NothingPassedAtBoot ==
    ASSUME BootsEmpty, pc = "boot", NEW t \in Transaction, Known(t)
    PROVE  t \in delivered \cup forwarding
  <1>1. recent = {} /\ cursors = NoCursors
    BY DEF BootsEmpty
  <1>2. PICK a \in Address : TRUE
    BY LedgerAssumption
  <1>3. cursors[a] = -1
    BY <1>1 DEF NoCursors, Nothing
  <1>4. ~Passed(t)
    BY <1>3, Numbers DEF Passed
  <1> QED
    BY <1>1, <1>4 DEF Known

LEMMA StartFreshKeeps == RInv /\ StartFresh => RInv'
  <1> SUFFICES ASSUME RInv, StartFresh PROVE RInv'
    OBVIOUS
  <1> USE DEF ledger, stream, pipeline
  <1>1. /\ pc = "boot" /\ pc' = "save" /\ cursors' = NoCursors /\ recent' = {}
        /\ processed' = NoProgress /\ settled' = {}
        /\ UNCHANGED <<head, streamed, forwarding, delivered, channel, inflight, logged, seen,
                       checkpoint, poll, emitted, origin, reached, replayed, crashes>>
    BY DEF StartFresh
  <1>2. IInv' /\ TypeOK /\ TypeOK'
    BY StartFreshPreserves DEF RInv, IInv
  <1>3. head \in Nat
    BY <1>2 DEF TypeOK
  <1>4. BelowHead'
    BY <1>1, <1>3 DEF RInv, BelowHead, InPoll, Scanned, NoCursors, NoProgress, Nothing
  <1>5. SendsWhatItFound' /\ BootsEmpty' /\ StreamIsPast' /\ ReplayOnlyOfDropped'
    BY <1>1 DEF RInv, SendsWhatItFound, BootsEmpty, StreamIsPast, ReplayOnlyOfDropped, Dropped
  <1>6. PollerKnows'
    <2>1. \A t \in ToSet(channel) \cup inflight : t \in Transaction
      BY <1>2 DEF TypeOK, ToSet
    <2>2. \A t \in ToSet(channel) \cup inflight : t \in delivered \cup forwarding
      BY <1>1, <2>1, NothingPassedAtBoot DEF RInv, PollerKnows
    <2> QED
      BY <1>1, <2>2 DEF PollerKnows, Known
  <1>7. FilterCatches'
    BY <1>1 DEF RInv, FilterCatches
  <1> QED
    BY <1>2, <1>4, <1>5, <1>6, <1>7 DEF RInv

LEMMA LoadCheckpointKeeps == RInv /\ LoadCheckpoint => RInv'
  <1> SUFFICES ASSUME RInv, LoadCheckpoint PROVE RInv'
    OBVIOUS
  <1> USE DEF ledger, stream, pipeline, history
  <1>1. /\ pc = "boot" /\ pc' = "save"
        /\ cursors' = [a \in Address |-> ReplayFloor(checkpoint.cursors[a], ReplayWindow)]
        /\ recent' = checkpoint.recent \cup Restored.entries
        /\ processed' = [cursors |-> cursors', recent |-> recent',
                         quarantined |-> checkpoint.quarantined]
        /\ UNCHANGED <<head, streamed, forwarding, delivered, channel, inflight, logged, seen,
                       checkpoint, poll, emitted, origin, settled, reached, replayed, crashes>>
    BY DEF LoadCheckpoint
  <1>2. IInv' /\ TypeOK /\ TypeOK'
    BY LoadCheckpointPreserves DEF RInv, IInv
  <1>3. /\ head \in Nat /\ settled \subseteq Transaction
        /\ checkpoint.cursors \in [Address -> Nat \cup {Nothing}]
    BY <1>2 DEF TypeOK, Progress
  <1>4. \A a \in Address : cursors'[a] <= head
    <2> SUFFICES ASSUME NEW a \in Address PROVE cursors'[a] <= head
      OBVIOUS
    <2>1. checkpoint.cursors[a] <= head /\ checkpoint.cursors[a] \in Nat \cup {Nothing}
      BY <1>3 DEF RInv, BelowHead
    <2> QED
      BY <1>1, <1>3, <2>1, Numbers DEF ReplayFloor, SaturatingSub, Nothing
  <1>5. BelowHead'
    BY <1>1, <1>4 DEF RInv, BelowHead, InPoll, Scanned
  <1>6. SendsWhatItFound' /\ BootsEmpty' /\ StreamIsPast' /\ ReplayOnlyOfDropped'
    BY <1>1 DEF RInv, SendsWhatItFound, BootsEmpty, StreamIsPast, ReplayOnlyOfDropped, Dropped
  <1>7. PollerKnows'
    <2>1. \A t \in ToSet(channel) \cup inflight : t \in Transaction
      BY <1>2 DEF TypeOK, ToSet
    <2>2. \A t \in ToSet(channel) \cup inflight : t \in delivered \cup forwarding
      BY <1>1, <2>1, NothingPassedAtBoot DEF RInv, PollerKnows
    <2>3. ASSUME NEW t \in settled, ~Dropped(SlotOf[t]) PROVE t \in recent'
      <3>1. journal.file = "stamped" /\ t \in journal.entries
        BY <2>3 DEF RInv, IInv, JournalKeeps
      <3> QED
        BY <1>1, <3>1 DEF Restored
    <2> QED
      BY <1>1, <2>2, <2>3 DEF PollerKnows, Known, Dropped
  <1>8. FilterCatches'
    <2>1. OnTheWay' = OnTheWay
      BY <1>1 DEF OnTheWay
    <2> QED
      BY <1>1, <2>1 DEF RInv, FilterCatches, Dropped
  <1> QED
    BY <1>2, <1>5, <1>6, <1>7, <1>8 DEF RInv

LEMMA CrashKeeps == RInv /\ Crash => RInv'
  <1> SUFFICES ASSUME RInv, Crash PROVE RInv'
    OBVIOUS
  <1> USE DEF ledger, disk
  <1>1. /\ streamed' = {t \in Transaction : SlotOf[t] <= head}
        /\ forwarding' = {} /\ delivered' = {} /\ channel' = <<>> /\ inflight' = {}
        /\ logged' = FALSE /\ seen' = {} /\ pc' = "boot" /\ cursors' = NoCursors
        /\ recent' = {} /\ processed' = NoProgress
        /\ UNCHANGED <<head, journal, checkpoint, emitted, settled, reached, replayed>>
    BY DEF Crash
  <1>2. IInv' /\ TypeOK /\ TypeOK'
    BY CrashPreserves DEF RInv, IInv
  <1>3. head \in Nat /\ settled \subseteq Transaction
    BY <1>2 DEF TypeOK
  <1>4. ToSet(channel') = {}
    BY <1>1 DEF ToSet
  <1>5. BelowHead'
    BY <1>1, <1>3, <1>4 DEF RInv, BelowHead, InPoll, Scanned, NoCursors, NoProgress, Nothing
  <1>6. SendsWhatItFound' /\ BootsEmpty' /\ ReplayOnlyOfDropped'
    BY <1>1 DEF RInv, SendsWhatItFound, BootsEmpty, ReplayOnlyOfDropped, Dropped
  <1>7. StreamIsPast'
    BY <1>1, <1>3 DEF RInv, BelowHead, StreamIsPast
  <1>8. PollerKnows' /\ FilterCatches'
    BY <1>1, <1>4 DEF PollerKnows, FilterCatches, OnTheWay
  <1> QED
    BY <1>2, <1>5, <1>6, <1>7, <1>8 DEF RInv

\* What a checkpoint has reached only grows, and suppression is dropped no higher.
LEMMA DroppedStays ==
    ASSUME TypeOK, TypeOK', reached <= reached', NEW t \in Transaction, Dropped(SlotOf[t])
    PROVE  Dropped(SlotOf[t])'
  <1>1. SlotOf[t] + 2 * ReplayWindow \in Nat /\ reached \in Nat /\ reached' \in Nat
    BY Numbers DEF TypeOK
  <1> QED
    BY <1>1 DEF Dropped

LEMMA SaveCheckpointKeeps == RInv /\ SaveCheckpoint => RInv'
  <1> SUFFICES ASSUME RInv, SaveCheckpoint PROVE RInv'
    OBVIOUS
  <1> USE DEF ledger, stream, pipeline
  <1>1. /\ pc = "save" /\ pc' = "begin"
        /\ processed' \in {CurrentProgress, processed}
        /\ checkpoint' \in {processed', checkpoint}
        /\ reached' \in {Larger(reached, LowestCursor(processed'.cursors)), reached}
        /\ UNCHANGED <<head, streamed, forwarding, delivered, channel, inflight, logged, seen,
                       cursors, recent, failures, poll, emitted, origin, settled, replayed, crashes>>
    BY DEF SaveCheckpoint
  <1>2. IInv' /\ TypeOK /\ TypeOK'
    BY SaveCheckpointPreserves DEF RInv, IInv
  <1>3. settled \subseteq Transaction /\ replayed \subseteq Transaction
    BY <1>2 DEF TypeOK
  <1>4. reached <= reached'
    BY <1>1, <1>2 DEF TypeOK, Larger
  <1>5. BelowHead'
    BY <1>1 DEF RInv, BelowHead, InPoll, Scanned, CurrentProgress
  <1>6. SendsWhatItFound' /\ BootsEmpty' /\ StreamIsPast'
    BY <1>1 DEF RInv, SendsWhatItFound, BootsEmpty, StreamIsPast
  <1>7. \A t \in Transaction : Known(t) => Known(t)'
    BY <1>1 DEF Known, Passed, InPoll
  <1>8. \A t \in Transaction : Dropped(SlotOf[t]) => Dropped(SlotOf[t])'
    BY <1>2, <1>4, DroppedStays
  <1>9. PollerKnows'
    <2>1. \A t \in ToSet(channel) \cup inflight : t \in Transaction
      BY <1>2 DEF TypeOK, ToSet
    <2> QED
      BY <1>1, <1>3, <1>7, <1>8, <2>1 DEF RInv, PollerKnows
  <1>10. FilterCatches'
    <2>1. OnTheWay' = OnTheWay
      BY <1>1 DEF OnTheWay
    <2> QED
      BY <1>1, <1>3, <1>8, <2>1 DEF RInv, FilterCatches
  <1>11. ReplayOnlyOfDropped'
    BY <1>1, <1>3, <1>8 DEF RInv, ReplayOnlyOfDropped
  <1> QED
    BY <1>2, <1>5, <1>6, <1>9, <1>10, <1>11 DEF RInv

-------------------------------------------------------------------------------
(* One poll. *)

\* What the poller has passed it has passed with the next head too, however far that
\* lags.
LEMMA BeginPollKeeps == RInv /\ BeginPoll => RInv'
  <1> SUFFICES ASSUME RInv, BeginPoll PROVE RInv'
    OBVIOUS
  <1> USE DEF ledger, pipeline, disk
  <1>1. PICK h \in SaturatingSub(head, HeadSkew) .. head :
         /\ cursors' = [a \in Address |-> IF cursors[a] = Nothing
                                          THEN SaturatingSub(h, ReplayWindow) ELSE cursors[a]]
         /\ poll' = NewPoll(h)
    BY DEF BeginPoll
  <1>2. /\ pc = "begin" /\ pc' = "discover" /\ recent' = recent \cup delivered /\ delivered' = {}
        /\ UNCHANGED <<head, streamed, forwarding, channel, inflight, logged, seen, journal,
                       checkpoint, failures, processed, emitted, settled, reached, replayed, crashes>>
    BY DEF BeginPoll
  <1>3. IInv' /\ TypeOK /\ TypeOK'
    BY BeginPollPreserves DEF RInv, IInv
  <1>4. /\ head \in Nat /\ settled \subseteq Transaction /\ h \in Nat /\ h <= head
        /\ head <= h + ReplayWindow
        /\ cursors \in [Address -> Nat \cup {Nothing}] /\ poll'.head = h
    BY <1>1, <1>3, Numbers DEF TypeOK, SaturatingSub, NewPoll
  <1>5. BelowHead'
    <2>1. \A a \in Address : cursors'[a] <= head
      <3> SUFFICES ASSUME NEW a \in Address PROVE cursors'[a] <= head
        OBVIOUS
      <3>1. cursors[a] <= head /\ cursors[a] \in Nat \cup {Nothing}
        BY <1>4 DEF RInv, BelowHead
      <3> QED
        BY <1>1, <1>4, <3>1, Numbers DEF SaturatingSub
    <2> QED
      BY <1>2, <1>4, <2>1 DEF RInv, BelowHead, InPoll, Scanned
  <1>6. SendsWhatItFound' /\ BootsEmpty' /\ StreamIsPast' /\ ReplayOnlyOfDropped'
    BY <1>2 DEF RInv, SendsWhatItFound, BootsEmpty, StreamIsPast, ReplayOnlyOfDropped, Dropped
  <1>7. ASSUME NEW t \in Transaction, Known(t) PROVE Known(t)'
    <2>1. CASE t \in recent \cup delivered \cup forwarding
      BY <1>2, <2>1 DEF Known
    <2>2. CASE Passed(t)
      <3>1. SlotOf[t] \in Nat /\ ReplayWindow \in Nat
        BY Numbers
      <3>2. SlotOf[t] + ReplayWindow <= h
        BY <1>4, <2>2, <3>1 DEF Passed
      <3>3. \A a \in Address : cursors'[a] = cursors[a]
        <4> SUFFICES ASSUME NEW a \in Address PROVE cursors[a] # Nothing
          BY <1>1
        <4> QED
          BY <2>2, <3>1 DEF Passed, Nothing
      <3>4. Passed(t)'
        BY <1>2, <1>4, <2>2, <3>2, <3>3 DEF Passed
      <3> QED
        BY <3>4 DEF Known
    <2> QED
      BY <1>7, <2>1, <2>2 DEF Known
  <1>8. PollerKnows'
    <2>1. \A t \in ToSet(channel) \cup inflight : t \in Transaction
      BY <1>3 DEF TypeOK, ToSet
    <2> QED
      BY <1>2, <1>4, <1>7, <2>1 DEF RInv, PollerKnows, Dropped
  <1>9. FilterCatches'
    <2>1. OnTheWay' \subseteq OnTheWay
      BY <1>2 DEF OnTheWay
    <2> QED
      BY <1>2, <2>1 DEF RInv, FilterCatches, Dropped
  <1> QED
    BY <1>3, <1>5, <1>6, <1>8, <1>9 DEF RInv

LEMMA FailureKeeps == RInv /\ (BeginPollFails \/ DiscoverFails) => RInv'
  <1> SUFFICES ASSUME RInv, BeginPollFails \/ DiscoverFails PROVE RInv'
    OBVIOUS
  <1>1. /\ pc \in {"begin", "discover"} /\ pc' = "save"
        /\ recent' \cup delivered' = recent \cup delivered /\ delivered' \subseteq delivered
        /\ UNCHANGED <<head, streamed, forwarding, channel, inflight, logged, seen, journal, origin,
                       cursors, checkpoint, failures, processed, emitted, settled, reached, replayed,
                       crashes>>
    BY DEF BeginPollFails, DiscoverFails, ledger, stream, pipeline, disk, memory, history
  <1>2. IInv' /\ TypeOK /\ TypeOK'
    BY FailurePreserves DEF RInv, IInv
  <1>3. settled \subseteq Transaction /\ head \in Nat
    BY <1>2 DEF TypeOK
  <1>4. BelowHead' /\ SendsWhatItFound' /\ BootsEmpty' /\ StreamIsPast' /\ ReplayOnlyOfDropped'
    BY <1>1 DEF RInv, BelowHead, InPoll, Scanned, SendsWhatItFound, BootsEmpty, StreamIsPast,
                ReplayOnlyOfDropped, Dropped
  <1>5. \A t \in Transaction : Known(t) => Known(t)'
    BY <1>1, <1>2, <1>3, KnownPersists DEF InPoll
  <1>6. PollerKnows'
    <2>1. \A t \in ToSet(channel) \cup inflight : t \in Transaction
      BY <1>2 DEF TypeOK, ToSet
    <2> QED
      BY <1>1, <1>3, <1>5, <2>1 DEF RInv, PollerKnows, Dropped
  <1>7. FilterCatches'
    <2>1. OnTheWay' \subseteq OnTheWay
      BY <1>1 DEF OnTheWay
    <2> QED
      BY <1>1, <2>1 DEF RInv, FilterCatches, Dropped
  <1> QED
    BY <1>2, <1>4, <1>6, <1>7 DEF RInv

LEMMA ParkKeeps == RInv /\ Park => RInv'
  <1> SUFFICES ASSUME RInv, Park PROVE RInv'
    OBVIOUS
  <1>1. /\ pc' = "parked" /\ delivered' = {} /\ poll' = NewPoll(0)
        /\ UNCHANGED <<head, streamed, forwarding, channel, inflight, logged, seen, journal, origin,
                       cursors, recent, checkpoint, failures, processed, emitted, settled, reached,
                       replayed, crashes>>
    BY DEF Park, ledger, pipeline, disk, memory, history
  <1>2. IInv'
    BY ParkPreserves DEF RInv
  <1>3. BelowHead' /\ SendsWhatItFound' /\ BootsEmpty' /\ StreamIsPast' /\ ReplayOnlyOfDropped'
    BY <1>1 DEF RInv, BelowHead, InPoll, Scanned, SendsWhatItFound, BootsEmpty, StreamIsPast,
                ReplayOnlyOfDropped, Dropped
  <1>4. PollerKnows'
    BY <1>1 DEF PollerKnows
  <1>5. FilterCatches'
    <2>1. OnTheWay' \subseteq OnTheWay
      BY <1>1 DEF OnTheWay
    <2> QED
      BY <1>1, <2>1 DEF RInv, FilterCatches, Dropped
  <1> QED
    BY <1>2, <1>3, <1>4, <1>5 DEF RInv

\* A scan leaves its cursor no lower than the head it was given, and finds nothing
\* above the ledger's.
LEMMA ScanStaysBelow ==
    ASSUME NEW a \in Address, poll.head \in Nat, cursors[a] \in Nat, cursors[a] <= head,
           poll.head <= head, head \in Nat, NEW found \in SUBSET Transaction,
           found \subseteq MayFind(Touching(a), cursors[a], poll.head, head)
    PROVE  LET next == CursorAfterScan(cursors[a], poll.head, found)
           IN  /\ poll.head <= next /\ next <= head
               /\ \A t \in found : SlotOf[t] <= head
  <1> DEFINE slots == {SlotOf[t] : t \in found}
             top   == poll.head + ReplicaLead
  <1>1. top \in Nat /\ Smaller(head, top) \in Nat /\ Smaller(head, top) <= head
    BY PollingAssumption DEF Smaller
  <1>2. \A t \in found : SlotOf[t] <= head
    <2>1. \A t \in found : SlotOf[t] <= Smaller(head, top)
      BY DEF MayFind, AboveFloor
    <2> HIDE DEF top
    <2> QED
      BY <1>1, <2>1, Numbers
  <1>3. slots \in SUBSET Nat /\ (\A x \in slots : x <= head) /\ (found # {} => slots # {})
    BY <1>2, Numbers
  <1>4. found # {} => Max(slots) \in Nat /\ Max(slots) <= head
    <2> HIDE DEF slots
    <2> QED
      BY <1>3, GreatestExists
  <1>5. CursorAfterScan(cursors[a], poll.head, found)
            = Larger(poll.head, IF found = {} THEN cursors[a] ELSE Max(slots))
    BY DEF CursorAfterScan
  <1> HIDE DEF slots
  <1> QED
    BY <1>2, <1>4, <1>5 DEF Larger

LEMMA DiscoverKeeps == RInv /\ Discover => RInv'
  <1> SUFFICES ASSUME RInv, Discover PROVE RInv'
    OBVIOUS
  <1> USE DEF ledger, stream, pipeline, disk, memory, history
  <1> DEFINE next(a, found) == CursorAfterScan(cursors[a], poll.head, found[a])
  <1>1. PICK found \in [Address -> SUBSET Transaction] :
         /\ \A a \in Address :
              /\ MustFind(Touching(a), cursors[a], poll.head) \subseteq found[a]
              /\ found[a] \subseteq MayFind(Touching(a), cursors[a], poll.head, head)
         /\ poll' = [poll EXCEPT !.batches =
              [a \in Address |-> [found |-> found[a], next |-> next(a, found)]]]
    BY DEF Discover
  <1>2. /\ pc = "discover" /\ pc' = "fetch"
        /\ UNCHANGED <<head, streamed, forwarding, delivered, channel, inflight, logged, seen, journal,
                       checkpoint, cursors, recent, failures, processed, emitted, origin, settled,
                       reached, replayed, crashes>>
    BY DEF Discover
  <1>3. IInv' /\ TypeOK /\ TypeOK'
    BY DiscoverPreserves DEF RInv, IInv
  <1>4. /\ poll \in [head : Nat, batches : [Address -> [found : SUBSET Transaction, next : Nat]],
                     retrying : SUBSET Transaction, sending : SUBSET Transaction]
        /\ head \in Nat /\ poll.head <= head /\ settled \subseteq Transaction
    BY <1>2, <1>3 DEF TypeOK, RInv, BelowHead, InPoll
  <1>5. \A a \in Address : cursors[a] \in Nat /\ cursors[a] <= head
    <2>1. \A a \in Address : cursors[a] # Nothing
      BY <1>2 DEF RInv, IInv, Started
    <2> QED
      BY <1>3, <2>1 DEF RInv, BelowHead, TypeOK
  <1>6. ASSUME NEW a \in Address
        PROVE  /\ poll.head <= next(a, found) /\ next(a, found) <= head
               /\ \A t \in found[a] : SlotOf[t] <= head
    BY <1>1, <1>4, <1>5, ScanStaysBelow
  <1>7. /\ poll'.head = poll.head /\ poll'.sending = poll.sending
        /\ \A a \in Address : /\ poll'.batches[a].found = found[a]
                              /\ poll'.batches[a].next = next(a, found)
    BY <1>1, <1>4
  <1> HIDE DEF next
  <1>8. BelowHead'
    BY <1>2, <1>4, <1>6, <1>7 DEF RInv, BelowHead, InPoll, Scanned
  <1>9. SendsWhatItFound' /\ BootsEmpty' /\ StreamIsPast' /\ ReplayOnlyOfDropped'
    BY <1>2 DEF RInv, SendsWhatItFound, BootsEmpty, StreamIsPast, ReplayOnlyOfDropped, Dropped
  <1>10. \A t \in Transaction : Known(t) => Known(t)'
    BY <1>2, <1>3, <1>4, <1>7, KnownPersists DEF InPoll
  <1>11. PollerKnows'
    <2>1. \A t \in ToSet(channel) \cup inflight : t \in Transaction
      BY <1>3 DEF TypeOK, ToSet
    <2> QED
      BY <1>2, <1>4, <1>10, <2>1 DEF RInv, PollerKnows, Dropped
  <1>12. FilterCatches'
    <2>1. OnTheWay' = OnTheWay
      BY <1>2 DEF OnTheWay
    <2> QED
      BY <1>2, <2>1 DEF RInv, FilterCatches, Dropped
  <1> QED
    BY <1>3, <1>8, <1>9, <1>11, <1>12 DEF RInv

\* What a scan finds the poller has not passed.
LEMMA FoundIsNotPassed ==
    ASSUME RInv, pc \in {"fetch", "send"}, NEW a \in Address, NEW t \in poll.batches[a].found
    PROVE  t \in Transaction /\ ~Passed(t)
  <1>1. t \in Touching(a) /\ SlotOf[t] > ReplayFloor(cursors[a], ReplayWindow)
    BY DEF RInv, IInv, ScansAreWhole
  <1>2. /\ t \in Transaction /\ SlotOf[t] \in Nat /\ ReplayWindow \in Nat
        /\ cursors[a] \in Nat \cup {Nothing}
    BY <1>1, Numbers DEF Touching, RInv, IInv, TypeOK
  <1>3. SlotOf[t] + ReplayWindow > cursors[a]
    BY <1>1, <1>2 DEF ReplayFloor, SaturatingSub, Nothing
  <1> QED
    BY <1>2, <1>3 DEF Passed, Nothing

LEMMA FetchKeeps == RInv /\ FetchTransactions => RInv'
  <1> SUFFICES ASSUME RInv, FetchTransactions PROVE RInv'
    OBVIOUS
  <1> USE DEF ledger, stream, pipeline, disk, history
  <1>1. PICK sending \in SUBSET SignaturesToFetch : \E retrying :
            poll' = [poll EXCEPT !.retrying = retrying, !.sending = sending]
    BY DEF FetchTransactions, Fetch
  <1>2. /\ pc = "fetch" /\ pc' = "send" /\ recent \subseteq recent'
        /\ UNCHANGED <<head, streamed, forwarding, delivered, channel, inflight, logged, seen, journal,
                       checkpoint, cursors, processed, emitted, origin, settled, reached, replayed,
                       crashes>>
    BY DEF FetchTransactions, Fetch
  <1>3. IInv' /\ TypeOK /\ TypeOK'
    BY FetchPreserves DEF RInv, IInv
  <1>4. /\ poll'.head = poll.head /\ poll'.batches = poll.batches /\ poll'.sending = sending
        /\ settled \subseteq Transaction /\ head \in Nat
    BY <1>1, <1>3 DEF TypeOK
  <1>5. \A t \in sending : t \notin recent /\ \E a \in Address : t \in poll.batches[a].found
    <2>1. \A t : t \in SignaturesToFetch =>
                   t \notin recent /\ \E a \in Address : t \in poll.batches[a].found
      BY DEF SignaturesToFetch
    <2> QED
      BY <2>1
  <1>6. BelowHead'
    BY <1>2, <1>4 DEF RInv, BelowHead, InPoll, Scanned
  <1>7. SendsWhatItFound' /\ BootsEmpty' /\ StreamIsPast' /\ ReplayOnlyOfDropped'
    BY <1>2, <1>4, <1>5 DEF RInv, SendsWhatItFound, BootsEmpty, StreamIsPast, ReplayOnlyOfDropped,
                            Dropped
  <1>8. \A t \in Transaction : Known(t) => Known(t)'
    BY <1>2, <1>3, <1>4, KnownPersists DEF InPoll
  <1>9. PollerKnows'
    <2>1. \A t \in ToSet(channel) \cup inflight : t \in Transaction
      BY <1>3 DEF TypeOK, ToSet
    <2> QED
      BY <1>2, <1>4, <1>8, <2>1 DEF RInv, PollerKnows, Dropped
  <1>10. ASSUME NEW t \in settled, t \in sending, ~Dropped(SlotOf[t]) PROVE t \in seen
    <2>1. PICK a \in Address : t \in poll.batches[a].found
      BY <1>5, <1>10
    <2>2. ~Passed(t)
      BY <1>2, <2>1, FoundIsNotPassed
    <2>3. t \in delivered \cup forwarding
      BY <1>2, <1>5, <1>10, <2>2 DEF RInv, PollerKnows, Known
    <2> QED
      BY <1>10, <2>3 DEF RInv, FilterCatches, OnTheWay
  <1>11. FilterCatches'
    <2>1. OnTheWay' \subseteq OnTheWay \cup sending
      BY <1>2, <1>4 DEF OnTheWay
    <2> QED
      BY <1>2, <1>10, <2>1 DEF RInv, FilterCatches, Dropped
  <1> QED
    BY <1>3, <1>6, <1>7, <1>9, <1>11 DEF RInv

LEMMA SendKeeps == \A t \in Transaction : RInv /\ Send(t) => RInv'
  <1> SUFFICES ASSUME NEW t \in Transaction, RInv, Send(t) PROVE RInv'
    OBVIOUS
  <1> USE DEF ledger, stream, disk, history
  <1>1. /\ pc = "send" /\ t \in poll.sending /\ channel \in Seq(Transaction)
        /\ channel' = Append(channel, t) /\ recent' = recent \cup {t}
        /\ poll' = [poll EXCEPT !.sending = @ \ {t}]
        /\ UNCHANGED <<head, streamed, forwarding, delivered, inflight, logged, seen, journal,
                       checkpoint, pc, cursors, failures, processed, emitted, origin, settled,
                       reached, replayed, crashes>>
    BY DEF Send, RInv, IInv, TypeOK
  <1>2. ToSet(channel') = ToSet(channel) \cup {t}
    BY <1>1, AppendAdds
  <1>3. IInv' /\ TypeOK /\ TypeOK'
    BY SendPreserves DEF RInv, IInv
  <1>4. /\ poll'.head = poll.head /\ poll'.batches = poll.batches
        /\ poll'.sending = poll.sending \ {t}
        /\ settled \subseteq Transaction /\ head \in Nat
    BY <1>1, <1>3 DEF TypeOK
  <1>5. SlotOf[t] <= head
    BY <1>1 DEF RInv, SendsWhatItFound, BelowHead, Scanned
  <1>6. BelowHead'
    BY <1>1, <1>2, <1>4, <1>5 DEF RInv, BelowHead, InPoll, Scanned
  <1>7. SendsWhatItFound' /\ BootsEmpty' /\ StreamIsPast' /\ ReplayOnlyOfDropped'
    BY <1>1, <1>4 DEF RInv, SendsWhatItFound, BootsEmpty, StreamIsPast, ReplayOnlyOfDropped, Dropped
  <1>8. \A u \in Transaction : Known(u) => Known(u)'
    BY <1>1, <1>3, <1>4, KnownPersists DEF InPoll
  <1>9. PollerKnows'
    <2>1. \A u \in ToSet(channel) \cup inflight : u \in Transaction
      BY <1>3 DEF TypeOK, ToSet
    <2>2. Known(t)'
      BY <1>1 DEF Known
    <2> QED
      BY <1>1, <1>2, <1>4, <1>8, <2>1, <2>2 DEF RInv, PollerKnows, Dropped
  <1>10. FilterCatches'
    <2>1. OnTheWay' = OnTheWay
      BY <1>1, <1>2, <1>4 DEF OnTheWay
    <2> QED
      BY <1>1, <2>1 DEF RInv, FilterCatches, Dropped
  <1> QED
    BY <1>3, <1>6, <1>7, <1>9, <1>10 DEF RInv

\* Whatever pruning drops the poller has passed.
LEMMA FinishPollKeeps == RInv /\ FinishPoll => RInv'
  <1> SUFFICES ASSUME RInv, FinishPoll PROVE RInv'
    OBVIOUS
  <1> USE DEF ledger, stream, pipeline, disk, history
  <1>1. /\ pc = "send" /\ pc' = "save" /\ cursors' = AdvancedCursors
        /\ recent' = {t \in recent :
                        SlotOf[t] > UnreachableBelow(LowestCursor(cursors'), ReplayWindow)}
        /\ UNCHANGED <<head, streamed, forwarding, delivered, channel, inflight, logged, seen, journal,
                       checkpoint, failures, processed, emitted, origin, settled, reached, replayed,
                       crashes>>
    BY DEF FinishPoll
  <1>2. IInv' /\ TypeOK /\ TypeOK'
    BY FinishPollPreserves DEF RInv, IInv
  <1>3. /\ head \in Nat /\ settled \subseteq Transaction /\ poll.head \in Nat
        /\ poll.batches \in [Address -> [found : SUBSET Transaction, next : Nat]]
    BY <1>2 DEF TypeOK
  <1>4. cursors \in [Address -> Nat]
    <2>1. \A a \in Address : cursors[a] # Nothing
      BY <1>1 DEF RInv, IInv, Started
    <2> QED
      BY <1>2, <2>1 DEF TypeOK
  <1>5. /\ cursors' \in [Address -> Nat]
        /\ \A a \in Address : cursors'[a] \in {cursors[a], poll.batches[a].next}
    BY <1>1, <1>3, <1>4 DEF AdvancedCursors
  <1>6. \A a \in Address : cursors'[a] <= head
    BY <1>1, <1>5 DEF RInv, BelowHead, Scanned
  <1>7. BelowHead'
    BY <1>1, <1>6 DEF RInv, BelowHead, InPoll, Scanned
  <1>8. SendsWhatItFound' /\ BootsEmpty' /\ StreamIsPast' /\ ReplayOnlyOfDropped'
    BY <1>1 DEF RInv, SendsWhatItFound, BootsEmpty, StreamIsPast, ReplayOnlyOfDropped, Dropped
  <1>9. ASSUME NEW t \in Transaction, Passed(t) PROVE Passed(t)'
    <2>1. ASSUME NEW a \in Address PROVE SlotOf[t] + ReplayWindow <= cursors'[a]
      <3>1. /\ SlotOf[t] + ReplayWindow <= cursors[a] /\ SlotOf[t] + ReplayWindow <= poll.head
            /\ poll.head <= poll.batches[a].next /\ poll.batches[a].next \in Nat
            /\ SlotOf[t] + ReplayWindow \in Nat
        BY <1>1, <1>3, <1>9, Numbers DEF Passed, InPoll, Scanned, RInv, BelowHead
      <3>2. SlotOf[t] + ReplayWindow <= poll.batches[a].next
        BY <1>3, <3>1
      <3> QED
        BY <1>5, <3>1, <3>2
    <2> QED
      BY <1>1, <1>9, <2>1 DEF Passed, InPoll
  <1>10. ASSUME NEW t \in recent, t \notin recent' PROVE Passed(t)'
    <2>1. t \in Transaction /\ SlotOf[t] \in Nat \ {0} /\ ReplayWindow \in Nat
      BY <1>2, Numbers DEF TypeOK
    <2> DEFINE low == LowestCursor(cursors')
    <2>2. low \in Nat /\ \A a \in Address : low <= cursors'[a]
      BY <1>5, LowestIsSlot
    <2>3. ~(SlotOf[t] > UnreachableBelow(low, ReplayWindow))
      BY <1>1, <1>10
    <2> HIDE DEF low
    <2>4. SlotOf[t] + 2 * ReplayWindow <= low
      BY <2>1, <2>2, <2>3 DEF UnreachableBelow, SaturatingSub
    <2>5. \A a \in Address : SlotOf[t] + 2 * ReplayWindow <= cursors'[a]
      BY <1>5, <2>1, <2>2, <2>4
    <2>6. SlotOf[t] + 2 * ReplayWindow <= head
      <3>1. PICK a \in Address : TRUE
        BY LedgerAssumption
      <3>2. SlotOf[t] + 2 * ReplayWindow <= cursors'[a] /\ cursors'[a] <= head /\ cursors'[a] \in Nat
        BY <1>5, <1>6, <2>5
      <3> QED
        BY <1>3, <2>1, <3>2
    <2>7. \A a \in Address : SlotOf[t] + ReplayWindow <= cursors'[a]
      BY <1>5, <2>1, <2>5
    <2> QED
      BY <1>1, <2>6, <2>7 DEF Passed, InPoll
  <1>11. \A t \in Transaction : Known(t) => Known(t)'
    BY <1>1, <1>9, <1>10 DEF Known
  <1>12. PollerKnows'
    <2>1. \A t \in ToSet(channel) \cup inflight : t \in Transaction
      BY <1>2 DEF TypeOK, ToSet
    <2> QED
      BY <1>1, <1>3, <1>11, <2>1 DEF RInv, PollerKnows, Dropped
  <1>13. FilterCatches'
    <2>1. OnTheWay' \subseteq OnTheWay
      BY <1>1 DEF OnTheWay
    <2> QED
      BY <1>1, <2>1 DEF RInv, FilterCatches, Dropped
  <1> QED
    BY <1>2, <1>7, <1>8, <1>12, <1>13 DEF RInv

-------------------------------------------------------------------------------
(* The theorem. *)

LEMMA ReplayStuttering == RInv /\ UNCHANGED vars => RInv'
  <1> SUFFICES ASSUME RInv, UNCHANGED vars PROVE RInv'
    OBVIOUS
  <1>1. UNCHANGED <<head, streamed, forwarding, delivered, channel, inflight, logged, seen, journal,
                    checkpoint, pc, cursors, recent, failures, processed, poll, emitted, origin,
                    settled, reached, replayed, crashes>>
    BY DEF vars, ledger, stream, pipeline, disk, memory, history
  <1>2. IInv'
    BY StutteringPreserves DEF RInv
  <1>3. BelowHead' /\ SendsWhatItFound' /\ BootsEmpty' /\ StreamIsPast' /\ ReplayOnlyOfDropped'
    BY <1>1 DEF RInv, BelowHead, InPoll, Scanned, SendsWhatItFound, BootsEmpty, StreamIsPast,
                ReplayOnlyOfDropped, Dropped
  <1>4. PollerKnows' /\ FilterCatches'
    BY <1>1 DEF RInv, PollerKnows, FilterCatches, Known, Passed, InPoll, OnTheWay, Dropped
  <1> QED
    BY <1>2, <1>3, <1>4 DEF RInv

LEMMA NextKeeps == RInv /\ [Next]_vars => RInv'
  BY ForwardKeeps, StreamKeeps, DequeueKeeps, LogRecordsKeeps, ShipKeeps, StartFreshKeeps,
     LoadCheckpointKeeps, CrashKeeps, SaveCheckpointKeeps, BeginPollKeeps, FailureKeeps,
     DiscoverKeeps, FetchKeeps, SendKeeps, FinishPollKeeps, ParkKeeps, ReplayStuttering
  DEF Next, Pipeline, Poller

\* However the process crashes, the stream and the poller race and replicas and heads
\* lag, a journaled transaction is logged a second time only if it lies two windows
\* below the highest slot a checkpoint has reached.
THEOREM NoEarlyReplay == Spec => []ReplayOnlyOfDropped
  <1>1. RInv => ReplayOnlyOfDropped
    BY DEF RInv
  <1> QED
    BY <1>1, ReplayInit, NextKeeps, PTL DEF Spec

-------------------------------------------------------------------------------
(* The poller, its stream and its files keep the promise of recovery.           *)

\* A transaction is settled by the pipeline, after its records have been logged.
SettledIsLogged == settled \subseteq emitted

SInv == RInv /\ SettledIsLogged

LEMMA SettledInit == Init => SInv
  BY ReplayInit DEF Init, SInv, SettledIsLogged

LEMMA SettledKeeps == SInv /\ [Next]_vars => SInv'
  <1> SUFFICES ASSUME SInv, [Next]_vars PROVE SettledIsLogged'
    BY NextKeeps DEF SInv
  <1> USE DEF SInv, SettledIsLogged, ledger, stream, pipeline, disk, memory, history
  <1>1. CASE LogRecords
    BY <1>1 DEF LogRecords
  <1>2. CASE Ship
    BY <1>2 DEF Ship, RInv, IInv, PipelineKeeps
  <1>3. CASE StartFresh
    BY <1>3 DEF StartFresh
  <1>4. CASE UNCHANGED <<settled, emitted>>
    BY <1>4
  <1>5. CASE Poller /\ ~StartFresh
    <2>1. UNCHANGED <<settled, emitted>>
      BY <1>5 DEF Poller, LoadCheckpoint, SaveCheckpoint, BeginPoll, BeginPollFails, Discover,
                  DiscoverFails, FetchTransactions, Fetch, Send, FinishPoll, Park
    <2> QED
      BY <1>4, <2>1
  <1>6. CASE UNCHANGED vars
    BY <1>6 DEF vars
  <1>7. CASE AdvanceHead \/ RecordDelivery \/ Dequeue \/ Crash
    BY <1>7 DEF AdvanceHead, RecordDelivery, Dequeue, Crash
  <1>8. CASE \E t \in Transaction : Forward(t) \/ Expire(t)
    BY <1>8 DEF Forward, Expire
  <1> QED
    BY <1>1, <1>2, <1>3, <1>5, <1>6, <1>7, <1>8 DEF Next, Pipeline

\* No transaction is lost: its fate follows from what has been logged and settled and
\* from the checkpoint alone.
FateWithoutLoss(t) ==
    IF t \in settled THEN "settled"
    ELSE IF t \in emitted THEN "logged"
    ELSE IF checkpoint = NoProgress THEN "open"
    ELSE IF ~Tracked(t) THEN "excused"
    ELSE IF t \in checkpoint.quarantined THEN "quarantined" ELSE "owed"

LEMMA NoneIsLost == IInv => \A t \in Transaction : FateOf(t) = FateWithoutLoss(t)
  <1>1. IInv => NothingIsLost
    BY DEF IInv, NothingSlips, SuppressionIsEarned, NothingIsLost, Owed
  <1> QED
    BY <1>1 DEF NothingIsLost, FateOf, FateWithoutLoss

\* A floor there is once there is a checkpoint, and it stays.
OriginStays == checkpoint # NoProgress => UNCHANGED origin

LEMMA NoneIsLostAfter == (IInv => \A t \in Transaction : FateOf(t) = FateWithoutLoss(t))'
  BY NoneIsLost, PTL

LEMMA FateStays ==
    ASSUME IInv, IInv', UNCHANGED <<settled, emitted, checkpoint>>, OriginStays
    PROVE  [t \in Transaction |-> FateOf(t)]' = [t \in Transaction |-> FateOf(t)]
  <1>1. ASSUME NEW t \in Transaction PROVE FateWithoutLoss(t)' = FateWithoutLoss(t)
    BY DEF FateWithoutLoss, OriginStays, Tracked
  <1>2. ASSUME NEW t \in Transaction PROVE FateOf(t)' = FateOf(t)
    BY <1>1, NoneIsLost, NoneIsLostAfter
  <1> QED
    BY <1>2

LEMMA Unnoticed ==
    ASSUME IInv, IInv', UNCHANGED <<settled, emitted, checkpoint, reached, replayed>>, OriginStays
    PROVE  UNCHANGED Promise!vars
  BY FateStays DEF Promise!vars

\* What is logged again although it is settled is no longer in the filter, and so has
\* been left two windows behind.
LEMMA LogRecordsIsLog == SInv /\ LogRecords => \E ts \in SUBSET Transaction : Promise!Log(ts)
  <1> SUFFICES ASSUME SInv, LogRecords PROVE \E ts \in SUBSET Transaction : Promise!Log(ts)
    OBVIOUS
  <1> USE DEF ledger, stream, disk, memory
  <1> DEFINE ts == inflight \ seen
  <1>1. /\ emitted' = emitted \cup ts
        /\ replayed' = replayed \cup (ts \cap emitted \cap settled)
        /\ UNCHANGED <<checkpoint, origin, settled, reached>>
    BY DEF LogRecords
  <1>2. IInv /\ IInv' /\ ts \in SUBSET Transaction /\ settled \subseteq emitted
    BY LogRecordsPreserves DEF SInv, RInv, IInv, TypeOK, SettledIsLogged
  <1>3. \A t \in ts \cap settled : SlotOf[t] + 2 * ReplayWindow <= reached
    BY DEF SInv, RInv, FilterCatches, OnTheWay, Dropped
  <1>4. ASSUME NEW t \in Transaction
        PROVE  /\ FateOf(t) = "settled" <=> t \in settled
               /\ FateOf(t)' = IF t \in ts /\ FateOf(t) # "settled" THEN "logged" ELSE FateOf(t)
    BY <1>1, <1>2, NoneIsLost, NoneIsLostAfter DEF FateWithoutLoss, Tracked
  <1>5. Promise!Log(ts)
    BY <1>1, <1>2, <1>3, <1>4 DEF Promise!Log, Promise!Aged
  <1> QED
    BY <1>2, <1>5

\* The entry is written only after the records, and a failed append changes nothing.
LEMMA ShipIsSettle ==
    SInv /\ Ship => UNCHANGED Promise!vars \/ \E ts \in SUBSET Transaction : Promise!Settle(ts)
  <1> SUFFICES ASSUME SInv, Ship, settled' # settled
               PROVE  \E ts \in SUBSET Transaction : Promise!Settle(ts)
    <2>1. ASSUME SInv, Ship, settled' = settled PROVE UNCHANGED Promise!vars
      BY <2>1, ShipPreserves, Unnoticed DEF Ship, SInv, RInv, OriginStays
    <2> QED
      BY <2>1
  <1>1. /\ settled' = settled \cup inflight
        /\ UNCHANGED <<checkpoint, origin, emitted, reached, replayed>>
    BY DEF Ship
  <1>2. IInv /\ IInv' /\ inflight \in SUBSET Transaction /\ inflight \subseteq emitted
    BY ShipPreserves DEF Ship, SInv, RInv, IInv, TypeOK, PipelineKeeps
  <1>3. ASSUME NEW t \in Transaction
        PROVE  /\ t \in inflight => FateOf(t) \in {"logged", "settled"}
               /\ FateOf(t)' = IF t \in inflight THEN "settled" ELSE FateOf(t)
    BY <1>1, <1>2, NoneIsLost, NoneIsLostAfter DEF FateWithoutLoss, Tracked
  <1>4. Promise!Settle(inflight)
    BY <1>1, <1>2, <1>3 DEF Promise!Settle
  <1> QED
    BY <1>2, <1>4

LEMMA StartFreshIsStartOver == SInv /\ StartFresh => Promise!StartOver
  <1> SUFFICES ASSUME SInv, StartFresh PROVE Promise!StartOver
    OBVIOUS
  <1>1. /\ checkpoint = NoProgress /\ settled' = {}
        /\ UNCHANGED <<checkpoint, emitted, reached, replayed>>
    BY DEF StartFresh
  <1>2. IInv /\ IInv' /\ settled \subseteq emitted
    BY StartFreshPreserves DEF SInv, RInv, SettledIsLogged
  <1>3. ASSUME NEW t \in Transaction
        PROVE  FateOf(t)' = IF FateOf(t) = "settled" THEN "logged" ELSE FateOf(t)
    BY <1>1, <1>2, NoneIsLost, NoneIsLostAfter DEF FateWithoutLoss
  <1> QED
    BY <1>1, <1>3 DEF Promise!StartOver

\* A checkpoint that is written holds every cursor.
LEMMA WrittenIsProgress == IInv /\ SaveCheckpoint /\ IsComplete(processed') => processed' # NoProgress
  <1>1. Address # {}
    BY LedgerAssumption
  <1> QED
    BY <1>1 DEF IsComplete, NoProgress, NoCursors

\* The stored cursors move, and with them what is owed; but what has no fate yet gets
\* one, and what has one keeps it unless its quarantine comes or goes.
LEMMA SaveCheckpointIsCommit == SInv /\ SaveCheckpoint => UNCHANGED Promise!vars \/ Promise!Commit
  <1> SUFFICES ASSUME SInv, SaveCheckpoint PROVE UNCHANGED Promise!vars \/ Promise!Commit
    OBVIOUS
  <1> USE DEF ledger, stream, pipeline
  <1>1. UNCHANGED <<settled, emitted, origin, replayed>>
    BY DEF SaveCheckpoint
  <1>2. IInv /\ IInv'
    BY SaveCheckpointPreserves DEF SInv, RInv
  <1>3. CASE UNCHANGED <<checkpoint, reached>>
    BY <1>1, <1>2, <1>3, Unnoticed DEF OriginStays
  <1>4. CASE /\ IsComplete(processed') /\ checkpoint' = processed'
             /\ reached' = Larger(reached, LowestCursor(processed'.cursors))
    <2>1. checkpoint' # NoProgress
      BY <1>2, <1>4, WrittenIsProgress
    <2>2. reached' \in Nat /\ reached <= reached'
      BY <1>2, <1>4 DEF IInv, TypeOK, Larger
    <2>3. ASSUME NEW t \in Transaction
          PROVE  FateOf(t)' \in Promise!Outcomes(FateOf(t)) /\ FateOf(t)' \in Promise!Fates
      <3>1. Tracked(t)' <=> Tracked(t)
        BY <1>1 DEF Tracked
      <3>2. FateWithoutLoss(t)' \in Promise!Outcomes(FateWithoutLoss(t))
        BY <1>1, <2>1, <3>1 DEF FateWithoutLoss, Promise!Outcomes, Promise!Pending
      <3>3. FateWithoutLoss(t)' \in Promise!Fates
        BY DEF FateWithoutLoss, Promise!Fates
      <3> QED
        BY <1>2, <3>2, <3>3, NoneIsLost, NoneIsLostAfter
    <2>4. Promise!Commit
      BY <1>1, <2>1, <2>2, <2>3 DEF Promise!Commit
    <2> QED
      BY <2>4
  <1> QED
    BY <1>3, <1>4 DEF SaveCheckpoint

\* Every other step leaves the fates as they are: the poll and the stream, a restart
\* from a checkpoint, and a crash at any moment.
LEMMA OthersGoUnnoticed ==
    ASSUME SInv, [Next]_vars, ~LogRecords, ~Ship, ~StartFresh, ~SaveCheckpoint
    PROVE  UNCHANGED Promise!vars
  <1> USE DEF ledger, stream, pipeline, disk, memory, history
  <1>1. IInv /\ IInv'
    BY NextPreserves DEF SInv, RInv
  <1>2. origin = Nothing => checkpoint = NoProgress
    BY <1>1 DEF IInv, Started
  <1>3. CASE UNCHANGED <<settled, emitted, checkpoint, reached, replayed, origin>>
    BY <1>1, <1>3, Unnoticed DEF OriginStays
  <1>4. CASE LoadCheckpoint \/ BeginPollFails \/ Discover \/ DiscoverFails \/ FetchTransactions \/ FinishPoll
              \/ Park
    BY <1>3, <1>4 DEF LoadCheckpoint, BeginPollFails, Discover, DiscoverFails, FetchTransactions,
                      Fetch, FinishPoll, Park
  <1>5. CASE BeginPoll
    BY <1>1, <1>2, <1>5, Unnoticed DEF BeginPoll, OriginStays
  <1>6. CASE Crash
    BY <1>1, <1>6, Unnoticed DEF Crash, OriginStays
  <1>7. CASE AdvanceHead \/ RecordDelivery \/ Dequeue \/ UNCHANGED vars
    BY <1>3, <1>7 DEF AdvanceHead, RecordDelivery, Dequeue, vars
  <1>8. CASE \E t \in Transaction : Forward(t) \/ Expire(t) \/ Send(t)
    BY <1>3, <1>8 DEF Forward, Expire, Send
  <1> QED
    BY <1>4, <1>5, <1>6, <1>7, <1>8 DEF Next, Pipeline, Poller

LEMMA StepKeepsPromise == SInv /\ [Next]_vars => [Promise!Next]_(Promise!vars)
  BY LogRecordsIsLog, ShipIsSettle, StartFreshIsStartOver, SaveCheckpointIsCommit, OthersGoUnnoticed
  DEF Promise!Next

\* However the process crashes, polls overlap the stream, writes fail and replicas lag:
\* from the first checkpoint on, every transaction above the floor of the first scan is
\* owed until it is logged or its quarantine is on disk, and a journaled one is logged
\* again only when the checkpoints have left it two windows behind.
THEOREM RecoversAtLeastOnce == Spec => ImplementsAtLeastOnce
  <1>1. Init => Promise!Init
    BY DEF Init, Promise!Init, FateOf
  <1> QED
    BY <1>1, SettledInit, SettledKeeps, StepKeepsPromise, PTL DEF Spec, ImplementsAtLeastOnce, Promise!Spec
===============================================================================
