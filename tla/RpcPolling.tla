------------------------------ MODULE RpcPolling ------------------------------
(***************************************************************************)
(* The recovery poller with everything it shares: the Yellowstone forwarder *)
(* and its delivery queue, the pipeline channel, the deduplication filter,  *)
(* the shipped journal, the checkpoint, and restarts of the process.        *)
(*                                                                          *)
(* One poll is BeginPoll, Discover, FetchTransactions, Send*, FinishPoll:   *)
(* the points where it awaits.  The page loop of one address is module      *)
(* Discovery; here an address is read in one step, with what module         *)
(* AddressScan says its pages come to.  The file formats of the             *)
(* journal are module ShippedJournal.  Park ends the polling of a process;  *)
(* how many observations it takes is counted in module RecoveryGate.        *)
(***************************************************************************)
EXTENDS AddressScan, FiniteSets, Sequences, SequencesExt

CONSTANTS
    Address,         \* the monitored addresses: the program, the multisig state
    Transaction,     \* the transactions of the ledger that touch one of them
    AddressesOf,     \* AddressesOf[t]: the monitored addresses t touches
    Streamable,      \* the transactions Yellowstone carries
    Suspect,         \* the transactions the endpoint may answer undecodably
    HeadSkew,        \* slots a backend's confirmed head may lag
    StreamLag,       \* slots behind the head a streamed update may reach the channel
    MaxFailures,     \* MAX_TRANSACTION_FAILURE_ATTEMPTS
    ChannelCapacity, \* Carbon's update channel
    HeadLimit,       \* bound: the last slot of the ledger
    CrashLimit       \* bound: crashes of the process

\* The genesis slot holds no transaction of a program.
ASSUME LedgerAssumption ==
    /\ Address # {}
    /\ SlotOf \in [Transaction -> Nat \ {0}]
    /\ AddressesOf \in [Transaction -> (SUBSET Address) \ {{}}]
    /\ Streamable \subseteq Transaction
    /\ Suspect \subseteq Transaction

ASSUME PollingAssumption ==
    /\ ReplayWindow \in Nat \ {0}
    /\ ReplicaSkew \in Nat
    /\ IndexLag \in Nat /\ ReplicaLead \in Nat
    /\ Smaller(ReplicaSkew, ReplayWindow) + IndexLag + ReplicaLead <= ReplayWindow
    /\ HeadSkew \in 0..ReplayWindow
    /\ StreamLag \in Nat
    /\ MaxFailures \in Nat \ {0}
    /\ ChannelCapacity \in Nat \ {0}
    /\ HeadLimit \in Nat /\ CrashLimit \in Nat

VARIABLES
    head,       \* the confirmed head of the ledger
    streamed,   \* what Yellowstone has forwarded, or will not send any more
    forwarding, \* RecordingDatasource: sent to the pipeline, not yet recorded
    delivered,  \* DeliveredSignatures
    channel,    \* Carbon's update channel
    inflight,   \* the update Carbon is processing, if any
    logged,     \* whether its records have been logged
    seen,       \* DeduplicationFilter: first seen within the TTL
    journal,    \* durable: the shipped journal
    checkpoint, \* durable: the recovery checkpoint
    pc,         \* "boot", "save", "begin", "discover", "fetch", "send" or "parked"
    cursors,    \* PollingState.cursors, Nothing where there is none yet
    recent,     \* PollingState.recent_signatures
    failures,   \* PollingState.poison_failures; MaxFailures means quarantined
    processed,  \* processed_state: the progress last seen drained
    poll,       \* the locals of the running poll
    emitted,    \* history: transactions whose records were logged
    origin,     \* history: the floor of the first scan
    settled,    \* history: journaled for this target, and so not to be replayed
    reached,    \* history: the highest slot all stored cursors have reached
    replayed,   \* history: settled transactions whose records were logged again
    crashes     \* history: crashes so far

ledger   == <<head>>
stream   == <<streamed, forwarding, delivered>>
pipeline == <<channel, inflight, logged, seen>>
disk     == <<journal, checkpoint>>
memory   == <<cursors, recent, failures, processed>>
history  == <<emitted, origin, settled, reached, replayed, crashes>>
vars     == <<ledger, stream, pipeline, disk, pc, memory, poll, history>>

NoCursors == [a \in Address |-> Nothing]

Progress == [cursors : [Address -> Nat \cup {Nothing}],
             recent : SUBSET Transaction,
             quarantined : SUBSET Transaction]

NoProgress == [cursors |-> NoCursors, recent |-> {}, quarantined |-> {}]

NoBatches == [a \in Address |-> [found |-> {}, next |-> 0]]

\* The locals of a poll: the head it read, what each address's scan found and
\* where it would leave the cursor, what is retried and what is yet to be sent.
NewPoll(h) == [head |-> h, batches |-> NoBatches, retrying |-> {}, sending |-> {}]

TypeOK ==
    /\ head \in Nat
    /\ streamed \subseteq Transaction /\ forwarding \subseteq Transaction
    /\ delivered \subseteq Transaction
    /\ channel \in Seq(Transaction) /\ Len(channel) <= ChannelCapacity
    /\ inflight \subseteq Transaction /\ logged \in BOOLEAN /\ seen \subseteq Transaction
    /\ journal \in [file : {"absent", "unstamped", "stamped"}, entries : SUBSET Transaction]
    /\ checkpoint \in Progress /\ processed \in Progress
    /\ pc \in {"boot", "save", "begin", "discover", "fetch", "send", "parked"}
    /\ cursors \in [Address -> Nat \cup {Nothing}]
    /\ recent \subseteq Transaction
    /\ failures \in [Transaction -> 0..MaxFailures]
    /\ poll \in [head : Nat, batches : [Address -> [found : SUBSET Transaction, next : Nat]],
                 retrying : SUBSET Transaction, sending : SUBSET Transaction]
    /\ emitted \subseteq Transaction /\ settled \subseteq Transaction
    /\ replayed \subseteq Transaction
    /\ origin \in Nat \cup {Nothing}
    /\ reached \in Nat /\ crashes \in Nat

Init ==
    /\ head \in 0..HeadLimit
    /\ streamed = {t \in Transaction : SlotOf[t] <= head}
    /\ forwarding = {} /\ delivered = {}
    /\ channel = <<>> /\ inflight = {} /\ logged = FALSE /\ seen = {}
    /\ journal = [file |-> "absent", entries |-> {}]
    /\ checkpoint = NoProgress
    /\ pc = "boot"
    /\ cursors = NoCursors /\ recent = {}
    /\ failures = [t \in Transaction |-> 0]
    /\ processed = NoProgress
    /\ poll = NewPoll(0)
    /\ emitted = {} /\ origin = Nothing /\ settled = {}
    /\ reached = 0 /\ replayed = {} /\ crashes = 0

-------------------------------------------------------------------------------
(* The ledger and the Yellowstone stream. *)

AdvanceHead ==
    /\ head < HeadLimit
    /\ head' = head + 1
    /\ UNCHANGED <<stream, pipeline, disk, pc, memory, poll, history>>

\* Mutant: room for one update too many.
HasRoomOffByOne == Len(channel) <= ChannelCapacity

HasRoom == Len(channel) < ChannelCapacity

\* The forwarding task sends an update to the pipeline as the ledger produces it,
\* one at a time.
Forward(t) ==
    /\ t \in Streamable \ streamed
    /\ SlotOf[t] <= head /\ head <= SlotOf[t] + StreamLag
    /\ forwarding = {}
    /\ HasRoom
    /\ channel' = Append(channel, t)
    /\ streamed' = streamed \cup {t}
    /\ forwarding' = {t}
    /\ UNCHANGED <<ledger, delivered, inflight, logged, seen, disk, pc, memory, poll, history>>

\* Only after the send does it record the delivery for the poller, if that still polls.
RecordDelivery ==
    /\ forwarding # {}
    /\ delivered' = IF pc = "parked" THEN delivered ELSE delivered \cup forwarding
    /\ forwarding' = {}
    /\ UNCHANGED <<ledger, streamed, pipeline, disk, pc, memory, poll, history>>

-------------------------------------------------------------------------------
(* The pipeline: Carbon takes one update at a time. *)

\* Taking an update frees its place in the channel and counts it as received.
Dequeue ==
    /\ inflight = {}
    /\ channel # <<>>
    /\ inflight' = {Head(channel)}
    /\ channel' = Tail(channel)
    /\ logged' = FALSE
    /\ UNCHANGED <<ledger, stream, seen, disk, pc, memory, poll, history>>

\* The instruction pipes log the update's records, unless the deduplication
\* filter has seen its signature.
LogRecords ==
    /\ inflight # {}
    /\ ~logged
    /\ logged' = TRUE
    /\ seen' = seen \cup inflight
    /\ emitted' = emitted \cup (inflight \ seen)
    /\ replayed' = replayed \cup ((inflight \ seen) \cap emitted \cap settled)
    /\ UNCHANGED <<ledger, stream, channel, inflight, disk, pc, memory, poll, origin, settled,
                   reached, crashes>>

\* The poller names the target once it has loaded its checkpoint; a poller parked
\* without cursors never has.
TargetKnown == pc # "boot" /\ (pc = "parked" => cursors # NoCursors)

\* A file created before the target is known has no identity header.
JournalWith(shipped) ==
    [file |-> IF journal.file # "absent" THEN journal.file
              ELSE IF TargetKnown THEN "stamped" ELSE "unstamped",
     entries |-> journal.entries \cup shipped]

\* The transaction pipe runs last: it journals the signature, and Carbon counts
\* the update as processed.
Ship ==
    /\ inflight # {}
    /\ logged
    /\ inflight' = {}
    /\ logged' = FALSE
    /\ \/ /\ journal' = JournalWith(inflight)
          /\ settled' = IF journal'.file = "stamped" THEN settled \cup inflight ELSE settled
       \/ UNCHANGED <<journal, settled>>     \* the append failed and is only logged
    /\ UNCHANGED <<ledger, stream, channel, seen, checkpoint, pc, memory, poll, emitted, origin,
                   reached, replayed, crashes>>

\* The filter forgets a signature.  Its TTL exceeds a poll and the stream's
\* lateness: whatever was delivered in that time has been absorbed by now.
Expire(t) ==
    /\ t \in seen
    /\ pc = "save"
    /\ head > SlotOf[t] + StreamLag
    /\ t \notin ToSet(channel) \cup inflight \cup forwarding \cup delivered
    /\ seen' = seen \ {t}
    /\ UNCHANGED <<ledger, stream, channel, inflight, logged, disk, pc, memory, poll, history>>

-------------------------------------------------------------------------------
(* Starting the poller. *)

Quarantined == {t \in Transaction : failures[t] = MaxFailures}

NoFailures == [t \in Transaction |-> 0]

\* Without a checkpoint the journal has nothing to vouch for it.
StartFresh ==
    /\ pc = "boot"
    /\ checkpoint = NoProgress
    /\ pc' = "save"
    /\ cursors' = NoCursors /\ recent' = {} /\ failures' = NoFailures
    /\ processed' = NoProgress
    /\ journal' = [file |-> "absent", entries |-> {}]
    /\ settled' = {}
    /\ UNCHANGED <<ledger, stream, pipeline, checkpoint, poll, emitted, origin, reached,
                   replayed, crashes>>

\* Mutant: whatever the journal holds is purged.
PurgedJournal == [file |-> "absent", entries |-> {}]

\* What the journal gives back on a restart; without its header it is purged.
Restored == IF journal.file = "stamped" THEN journal
            ELSE [file |-> "absent", entries |-> {}]

\* The stored cursors are rewound by one replay window, and what shipped since
\* the save joins the signatures it stored.
LoadCheckpoint ==
    /\ pc = "boot"
    /\ checkpoint # NoProgress
    /\ pc' = "save"
    /\ cursors' = [a \in Address |-> ReplayFloor(checkpoint.cursors[a], ReplayWindow)]
    /\ journal' = Restored
    /\ recent' = checkpoint.recent \cup Restored.entries
    /\ failures' = [t \in Transaction |-> IF t \in checkpoint.quarantined THEN MaxFailures ELSE 0]
    /\ processed' = [cursors |-> cursors', recent |-> recent',
                     quarantined |-> checkpoint.quarantined]
    /\ UNCHANGED <<ledger, stream, pipeline, checkpoint, poll, history>>

-------------------------------------------------------------------------------
(* Between polls: the checkpoint. *)

\* Mutant: an empty channel taken for finished work.
ChannelEmpty == channel = <<>>

\* The channel is free and every received update has been processed.
PipelineDrained == channel = <<>> /\ inflight = {}

CurrentProgress == [cursors |-> cursors, recent |-> recent, quarantined |-> Quarantined]

LowestCursor(cs) == Min({cs[a] : a \in Address})

\* Mutant: the slot the running poller has reached.
InMemorySlot(progress) == LowestCursor(cursors)

\* The slot a compaction counts from is the one that has become durable.
DurableSlot(progress) == LowestCursor(progress.cursors)

\* save_if_due refuses a partial cursor set.
IsComplete(progress) == \A a \in Address : progress.cursors[a] # Nothing

\* Entries at or below `slot` can no longer be rediscovered from the checkpoint.
Compacted(slot) ==
    [journal EXCEPT !.entries =
        {t \in @ : SlotOf[t] > UnreachableBelow(slot, ReplayWindow)}]

\* The state last seen drained is written, if a write is due, and then the
\* journal is compacted against the slot that became durable.
SaveCheckpoint ==
    /\ pc = "save"
    /\ pc' = "begin"
    /\ processed' = IF PipelineDrained THEN CurrentProgress ELSE processed
    /\ \/ /\ IsComplete(processed')
          /\ checkpoint' = processed'
          /\ \/ journal' = Compacted(DurableSlot(processed'))
             \/ UNCHANGED journal     \* renamed, but the sync or the compaction failed
          /\ reached' = Larger(reached, LowestCursor(processed'.cursors))
       \/ UNCHANGED <<checkpoint, journal, reached>>   \* not due, partial or failed
    /\ UNCHANGED <<ledger, stream, pipeline, cursors, recent, failures, poll, emitted, origin,
                   settled, replayed, crashes>>

-------------------------------------------------------------------------------
(* One poll. *)

\* The deliveries are absorbed before the first fallible call.  A confirmed head
\* is read, and a missing cursor starts one window behind it.
BeginPoll ==
    /\ pc = "begin"
    /\ recent' = recent \cup delivered
    /\ delivered' = {}
    /\ \E h \in SaturatingSub(head, HeadSkew) .. head :
         /\ \A a \in Address : ~CursorAheadOfHead(cursors[a], h, ReplayWindow)
         /\ cursors' = [a \in Address |-> IF cursors[a] = Nothing
                                          THEN SaturatingSub(h, ReplayWindow) ELSE cursors[a]]
         /\ poll' = NewPoll(h)
         /\ origin' = IF origin = Nothing THEN UnreachableBelow(h, ReplayWindow) ELSE origin
    /\ pc' = "discover"
    /\ UNCHANGED <<ledger, streamed, forwarding, pipeline, disk, failures, processed, emitted,
                   settled, reached, replayed, crashes>>

\* The head cannot be read, or is implausibly far below a cursor.
BeginPollFails ==
    /\ pc = "begin"
    /\ recent' = recent \cup delivered
    /\ delivered' = {}
    /\ pc' = "save"
    /\ UNCHANGED <<ledger, streamed, forwarding, pipeline, disk, cursors, failures, processed,
                   poll, history>>

Touching(a) == {t \in Transaction : a \in AddressesOf[t]}

\* discover_signatures for every address.
Discover ==
    /\ pc = "discover"
    /\ \E found \in [Address -> SUBSET Transaction] :
         /\ \A a \in Address :
              /\ MustFind(Touching(a), cursors[a], poll.head) \subseteq found[a]
              /\ found[a] \subseteq MayFind(Touching(a), cursors[a], poll.head, head)
         /\ poll' = [poll EXCEPT !.batches =
              [a \in Address |->
                 [found |-> found[a], next |-> CursorAfterScan(cursors[a], poll.head, found[a])]]]
    /\ pc' = "fetch"
    /\ UNCHANGED <<ledger, stream, pipeline, disk, memory, history>>

\* A request of the discovery fails, or finds the history gone.
DiscoverFails ==
    /\ pc = "discover"
    /\ pc' = "save"
    /\ poll' = NewPoll(0)
    /\ UNCHANGED <<ledger, stream, pipeline, disk, memory, history>>

\* What the scans found and nothing suppresses.
SignaturesToFetch == (UNION {poll.batches[a].found : a \in Address}) \ recent

IsBlocked(a, retrying) == poll.batches[a].found \cap retrying # {}

\* A transaction waits while an address that lists it retries another one.
IsReady(t, retrying) ==
    \A a \in Address : t \in poll.batches[a].found => ~IsBlocked(a, retrying)

\* Mutant: a poisoned answer does not hold the cursor.
RetryingTransientOnly(transient, poisoned, quarantined) == transient

\* What holds the cursors of its addresses back.
Retrying(transient, poisoned, quarantined) == transient \cup (poisoned \ quarantined)


\* `record_poison_failure`: the poisoned answers of one transaction add up.
PoisonCount(t) == Smaller(failures[t] + 1, MaxFailures)

\* Every discovered signature not suppressed is fetched.  An answer is decodable,
\* fails transiently, or is poisoned: MaxFailures poisoned answers quarantine it.
Fetch(transient) ==
    /\ pc = "fetch"
    /\ \E poisoned \in SUBSET ((SignaturesToFetch \ transient) \cap Suspect) :
       LET decoded     == SignaturesToFetch \ (transient \cup poisoned)
           counted     == [t \in Transaction |->
                             IF t \in poisoned THEN PoisonCount(t)
                             ELSE IF t \in decoded THEN 0 ELSE failures[t]]
           quarantined == {t \in poisoned : counted[t] = MaxFailures}
           retrying    == Retrying(transient, poisoned, quarantined)
       IN  /\ failures' = counted
           /\ recent' = recent \cup quarantined
           /\ poll' = [poll EXCEPT !.retrying = retrying,
                                   !.sending = {t \in decoded : IsReady(t, retrying)}]
    /\ pc' = "send"
    /\ UNCHANGED <<ledger, stream, pipeline, disk, cursors, processed, history>>

FetchTransactions == \E transient \in SUBSET SignaturesToFetch : Fetch(transient)

\* The updates are sent oldest slot first; each is suppressed from then on.
Send(t) ==
    /\ pc = "send"
    /\ t \in poll.sending
    /\ \A u \in poll.sending : SlotOf[t] <= SlotOf[u]
    /\ HasRoom
    /\ channel' = Append(channel, t)
    /\ recent' = recent \cup {t}
    /\ poll' = [poll EXCEPT !.sending = @ \ {t}]
    /\ UNCHANGED <<ledger, stream, inflight, logged, seen, disk, pc, cursors, failures, processed,
                   history>>

\* Mutant: every cursor advances.
EveryCursorAdvanced == [a \in Address |-> poll.batches[a].next]

\* Only a cursor none of whose signatures is being retried advances.
AdvancedCursors ==
    [a \in Address |-> IF IsBlocked(a, poll.retrying) THEN cursors[a] ELSE poll.batches[a].next]

FinishPoll ==
    /\ pc = "send"
    /\ poll.sending = {}
    /\ cursors' = AdvancedCursors
    /\ recent' = {t \in recent :
                    SlotOf[t] > UnreachableBelow(LowestCursor(cursors'), ReplayWindow)}
    /\ poll' = NewPoll(0)
    /\ pc' = "save"
    /\ UNCHANGED <<ledger, stream, pipeline, disk, failures, processed, history>>

\* `wait_with_recovery_disabled`: polling ends until the process restarts, and nothing
\* is recorded for it any more.  Any failed load of the checkpoint, any head below a
\* cursor and any scan whose history is gone may be the one too many.
Park ==
    /\ \/ pc = "boot"
       \/ pc = "begin" /\ cursors # NoCursors
       \/ pc = "discover"
    /\ pc' = "parked"
    /\ delivered' = {}
    /\ poll' = NewPoll(0)
    /\ UNCHANGED <<ledger, streamed, forwarding, pipeline, disk, memory, history>>

-------------------------------------------------------------------------------
(* The process dies at any moment; the files survive.  A new stream starts at    *)
(* the live edge.                                                                *)
Crash ==
    /\ crashes < CrashLimit
    /\ crashes' = crashes + 1
    /\ streamed' = {t \in Transaction : SlotOf[t] <= head}
    /\ forwarding' = {} /\ delivered' = {}
    /\ channel' = <<>> /\ inflight' = {} /\ logged' = FALSE /\ seen' = {}
    /\ pc' = "boot"
    /\ cursors' = NoCursors /\ recent' = {} /\ failures' = NoFailures
    /\ processed' = NoProgress
    /\ poll' = NewPoll(0)
    /\ origin' = IF checkpoint = NoProgress THEN Nothing ELSE origin
    /\ UNCHANGED <<ledger, disk, emitted, settled, reached, replayed>>

Pipeline == Dequeue \/ LogRecords \/ Ship

Poller ==
    \/ StartFresh
    \/ LoadCheckpoint
    \/ SaveCheckpoint
    \/ BeginPoll
    \/ BeginPollFails
    \/ Discover
    \/ DiscoverFails
    \/ FetchTransactions
    \/ \E t \in Transaction : Send(t)
    \/ FinishPoll
    \/ Park

Next ==
    \/ AdvanceHead
    \/ \E t \in Transaction : Forward(t) \/ Expire(t)
    \/ RecordDelivery
    \/ Pipeline
    \/ Poller
    \/ Crash

\* The chain moves on, the pipeline works its channel off, and the poller's loop goes
\* on until it parks: its requests and its sends are bounded by timeouts and by the
\* pipeline.
Fairness == WF_vars(AdvanceHead) /\ WF_vars(Pipeline) /\ WF_vars(Poller)

Spec == Init /\ [][Next]_vars /\ Fairness

-------------------------------------------------------------------------------
(* Properties. *)

\* The transactions the poller answers for: above the floor of its first scan.
Tracked(t) == origin # Nothing /\ SlotOf[t] > origin

\* A scan from one of these cursors, whose floor is that far below it, lists t.
StillListed(t, cs, depth) ==
    \E a \in AddressesOf[t] : cs[a] = Nothing \/ SlotOf[t] + depth > cs[a]

\* Nothing on disk suppresses t, and a restart from the stored cursors lists it.
Owed(t) ==
    /\ t \notin checkpoint.recent \cup journal.entries
    /\ StillListed(t, checkpoint.cursors, 2 * ReplayWindow)

\* Whatever a crash loses is rediscovered: a transaction is logged or durably
\* quarantined, or the checkpoint and the journal do not suppress it and a restart
\* from the stored cursors lists it (README, "replays that transaction instead of
\* skipping it ... never loss").
NothingIsLost ==
    checkpoint # NoProgress =>
    \A t \in Transaction :
        Tracked(t) => t \in emitted \cup checkpoint.quarantined \/ Owed(t)

\* In memory: a transaction is logged, on its way through the pipeline or
\* quarantined, or the next scan of a poller that polls lists it and fetches it.
NothingIsForgotten ==
    pc \notin {"boot", "parked"} =>
    \A t \in Transaction :
        Tracked(t) =>
            \/ t \in emitted \cup Quarantined \cup ToSet(channel) \cup inflight
            \/ t \notin recent /\ StillListed(t, cursors, ReplayWindow)

\* The slot up to which suppression may have been dropped: two windows below the
\* highest cursor a checkpoint has held.
Dropped(slot) == slot + 2 * ReplayWindow <= reached

\* A journaled transaction above that slot stays suppressed by the journal or the
\* checkpoint, through every prune, compaction and crash.
SettledIsSuppressed ==
    \A t \in settled :
        ~Dropped(SlotOf[t]) => t \in checkpoint.recent \cup journal.entries

\* So its records are not logged again: two windows of suppression cover the two
\* rewinds of a restart (rpc_polling.rs, unreachable_below).
ReplayOnlyOfDropped == \A t \in replayed : Dropped(SlotOf[t])

\* No journaled transaction is logged twice, whatever its slot: shipped.rs has "a
\* restart cannot replay it" and "below the replay floor the poller cannot
\* rediscover the transaction".
NeverReplayed == replayed = {}

\* What a crash at this moment would make of t.
FateOf(t) ==
    IF t \in settled THEN "settled"
    ELSE IF t \in emitted THEN "logged"
    ELSE IF checkpoint = NoProgress THEN "open"
    ELSE IF ~Tracked(t) THEN "excused"
    ELSE IF t \in checkpoint.quarantined THEN "quarantined"
    ELSE IF Owed(t) THEN "owed" ELSE "lost"

\* The poller, its stream and its files keep the promise of recovery.
Promise == INSTANCE AtLeastOnce WITH
    Horizon   <- 2 * ReplayWindow,
    fate      <- [t \in Transaction |-> FateOf(t)],
    committed <- checkpoint # NoProgress,
    mark      <- reached,
    repeated  <- replayed

\* Each step does to every transaction at most what recovery allows: none that is owed
\* is passed over for good, none is excused after the first checkpoint, and no settled
\* one is logged again within two windows of what the checkpoints have reached.
ImplementsAtLeastOnce == Promise!Spec

\* A step in which the endpoint, if it is asked, answers: from any replica, and with
\* any answer that is no transient failure.
Answers ==
    /\ ~BeginPollFails
    /\ ~DiscoverFails
    /\ FetchTransactions => Fetch({})

===============================================================================
