------------------------------- MODULE Backfill -------------------------------
(***************************************************************************)
(* The backfill command: one crawl per monitored address runs backwards    *)
(* through the endpoint's signatures and feeds transactions to the         *)
(* pipeline through a bounded channel; the pipeline's records are diverted *)
(* to the pusher, which keeps them until the pipeline has returned and     *)
(* then pushes them to Loki, oldest first, in batches.                     *)
(*                                                                         *)
(* The endpoint and Loki are external.  The failures of the endpoint and   *)
(* of the process are bounded together by FaultLimit.  The ledger's block  *)
(* times grow with its order, every answer of the endpoint lists the same  *)
(* ledger, and the only thing that changes during a backfill is that new   *)
(* transactions are confirmed at its head.                                 *)
(***************************************************************************)
EXTENDS Records

CONSTANTS
    Ledger,            \* transactions, oldest first: [calls, touches, time, listed]
    ConfirmedAtStart,  \* how many of them are confirmed when the command starts
    Settings,          \* what the command may find: [multisig : the section of the configuration,
                       \* limits : those Loki runs with, [reject, maxAge, retention]]
    Now, Since,        \* when the command starts, and how far back it is to go
    PageLimit,         \* SIGNATURE_PAGE_LIMIT
    FetchWindow,       \* CONCURRENT_TRANSACTION_FETCHES
    BatchLimit,        \* PUSH_BATCH_LIMIT
    PushAttempts,      \* PUSH_RATE_LIMIT_ATTEMPTS
    ChannelCapacity,   \* updates waiting for the pipeline
    OutOfOrderWindow,  \* how far behind a stream's newest entry Loki accepts one
    FaultLimit         \* bound: faults of the endpoint and of the process together

ASSUME BackfillAssumption ==
    /\ ConfirmedAtStart \in 0..Len(Ledger)
    /\ Now \in Nat /\ Since \in Nat
    /\ PageLimit \in Nat \ {0} /\ FetchWindow \in Nat \ {0}
    /\ BatchLimit \in Nat \ {0} /\ PushAttempts \in Nat \ {0}
    /\ ChannelCapacity \in Nat \ {0} /\ OutOfOrderWindow \in Nat /\ FaultLimit \in Nat

\* None of an Option<i64> or Option<Signature>.
Nothing == -1

Transaction == 1..Len(Ledger)
Address     == {"program", "state"}

\* A transaction is listed with its block time or without one.
ASSUME LedgerAssumption ==
    /\ Ledger \in Seq([calls : Seq(Instruction), touches : SUBSET Address, time : Nat,
                       listed : Nat \union {Nothing}])
    /\ \A t \in Transaction : Ledger[t].listed \in {Ledger[t].time, Nothing}
    /\ \A t, later \in Transaction : t <= later => Ledger[t].time <= Ledger[later].time

ASSUME SettingsAssumption ==
    \A s \in Settings :
        /\ s.multisig.version \in Version
        /\ s.limits \in [reject : BOOLEAN, maxAge : Nat, retention : Nat]

VARIABLES
    settings,      \* the configuration's multisig section and Loki's limits
    phase,         \* where the command is
    head,          \* how many transactions of the ledger are confirmed
    crawl,         \* the datasource of each address
    failures,      \* crawl_failures and Carbon's failed updates
    cancelled,     \* the cancellation token
    channel,       \* transactions on their way to the pipeline
    seen,          \* what the deduplication filters hold
    buffered,      \* what the pusher has received: of which updates, how many records
    batches,       \* the sorted records, once it begins to push
    pushed,        \* batches Loki has accepted
    attempt,       \* the attempt to push the next batch
    loki,          \* the entries of this run's stream
    faults         \* history: faults so far

crawling == <<crawl, channel, seen>>
pushing  == <<batches, pushed, attempt, loki>>
vars     == <<settings, phase, head, crawling, failures, cancelled, buffered, pushing, faults>>

multisig == settings.multisig
limits   == settings.limits

CutoffTime == Now - Since

Crawl == [pc : {"paging", "fetching", "done"},
          before : Transaction \union {Nothing},  \* the pagination cursor
          todo : Seq(Transaction),                \* the page's signatures not yet settled
          last : BOOLEAN]                         \* no page follows this one

TypeOK ==
    /\ settings \in Settings
    /\ phase \in {"starting", "crawling", "ordering", "pushing", "complete", "refused", "aborted",
                  "interrupted"}
    /\ head \in ConfirmedAtStart..Len(Ledger)
    /\ crawl \in [Address -> Crawl]
    /\ failures \in [crawl : Nat, update : Nat]
    /\ cancelled \in BOOLEAN
    /\ channel \in Seq([tx : Transaction, time : Nat \union {Nothing}])
    /\ Len(channel) <= ChannelCapacity
    /\ seen \subseteq Transaction
    /\ pushed \in 0..Len(batches)
    /\ attempt \in 1..PushAttempts
    /\ faults \in 0..FaultLimit

NewCrawl == [pc |-> "paging", before |-> Nothing, todo |-> <<>>, last |-> FALSE]

Init ==
    /\ settings \in Settings
    /\ phase = "starting"
    /\ head = ConfirmedAtStart
    /\ crawl = [a \in Address |-> NewCrawl]
    /\ failures = [crawl |-> 0, update |-> 0]
    /\ cancelled = FALSE
    /\ channel = <<>> /\ seen = {}
    /\ buffered = <<>> /\ batches = <<>> /\ pushed = 0 /\ attempt = 1 /\ loki = {}
    /\ faults = 0

Fault == faults < FaultLimit /\ faults' = faults + 1

-------------------------------------------------------------------------------
(* Starting. *)

\* Mutant: only the age limit is read.
AgeLimit(config) == IF config.reject THEN config.maxAge ELSE Now

\* `loki_backfill_limit`: how far back Loki takes samples and keeps them; a
\* retention of zero keeps them for ever.
LokiLimit(config) ==
    LET age == IF config.reject THEN config.maxAge ELSE Now
    IN IF config.retention # 0 /\ config.retention < age THEN config.retention ELSE age

Starts == Since <= LokiLimit(limits) /\ Verified(multisig)

Start ==
    /\ phase = "starting"
    /\ phase' = IF Starts THEN "crawling" ELSE "refused"
    /\ UNCHANGED <<settings, head, crawling, failures, cancelled, buffered, pushing, faults>>

-------------------------------------------------------------------------------
(* The crawl of an address. *)

Confirmed(a, limit) ==
    Only([i \in 1..limit |-> limit + 1 - i], {t \in Transaction : a \in Ledger[t].touches})

\* One page of getSignaturesForAddress, newest first, strictly older than `before`.
Page(a, before) ==
    LET listed == Confirmed(a, IF before = Nothing THEN head ELSE before - 1)
    IN SubSeq(listed, 1, IF Len(listed) < PageLimit THEN Len(listed) ELSE PageLimit)

BeyondCutoff(t) == Ledger[t].listed # Nothing /\ Ledger[t].listed < CutoffTime

\* `select_signatures`: those before the first that lies beyond the cutoff.
SelectSignatures(page) ==
    LET beyond == {i \in 1..Len(page) : BeyondCutoff(page[i])}
        first  == IF beyond = {} THEN Len(page) + 1
                  ELSE CHOOSE i \in beyond : \A j \in beyond : i <= j
    IN [signatures |-> SubSeq(page, 1, first - 1), reachedCutoff |-> beyond # {}]

IsLastPage(page, selected) == selected.reachedCutoff \/ Len(page) < PageLimit

Crawling(a, pc) == phase = "crawling" /\ crawl[a].pc = pc

Finish(a) == crawl' = [crawl EXCEPT ![a] = [NewCrawl EXCEPT !.pc = "done"]]

CursorAfter(selected) == Last(selected.signatures)

FetchPage(a) ==
    /\ Crawling(a, "paging") /\ ~cancelled
    /\ \E page \in {Page(a, crawl[a].before)} :
       \E selected \in {SelectSignatures(page)} :
         IF selected.signatures = <<>> THEN Finish(a)
         ELSE crawl' = [crawl EXCEPT ![a] =
                  [@ EXCEPT !.pc = "fetching", !.before = CursorAfter(selected),
                            !.todo = selected.signatures, !.last = IsLastPage(page, selected)]]
    /\ UNCHANGED <<settings, phase, head, failures, cancelled, channel, seen, buffered, pushing, faults>>

\* The loop looks at the token only between two pages.
StopCrawl(a) ==
    /\ Crawling(a, "paging") /\ cancelled
    /\ Finish(a)
    /\ UNCHANGED <<settings, phase, head, failures, cancelled, channel, seen, buffered, pushing, faults>>

\* The page cannot be read, or holds a signature that does not parse: the crawl ends.
PageFails(a) ==
    /\ Crawling(a, "paging") /\ ~cancelled
    /\ Fault
    /\ Finish(a)
    /\ failures' = [failures EXCEPT !.crawl = @ + 1]
    /\ UNCHANGED <<settings, phase, head, cancelled, channel, seen, buffered, pushing>>

\* The fetches under way are those of the first signatures not yet settled.
InFlight(a) == {i \in 1..Len(crawl[a].todo) : i <= FetchWindow}

Settled(a, i) == [crawl EXCEPT ![a].todo = RemoveAt(@, i)]

\* Mutant: one update more than the channel holds.
HasRoomForOneMore == Len(channel) <= ChannelCapacity

HasRoom == Len(channel) < ChannelCapacity

\* A fetch answers, in any order, and its update is sent; the transaction may lack
\* a block time.
FetchTransaction(a) ==
    /\ Crawling(a, "fetching")
    /\ HasRoom
    /\ \E i \in InFlight(a) :
           LET t == crawl[a].todo[i]
           IN /\ \/ channel' = Append(channel, [tx |-> t, time |-> Ledger[t].time]) /\ UNCHANGED faults
                 \/ Fault /\ channel' = Append(channel, [tx |-> t, time |-> Nothing])
              /\ crawl' = Settled(a, i)
    /\ UNCHANGED <<settings, phase, head, failures, cancelled, seen, buffered, pushing>>

\* Mutant: a transaction that cannot be converted is left out.
FailuresAreSkipped == failures

CountFailure == [failures EXCEPT !.crawl = @ + 1]

\* The last of TRANSACTION_FETCH_ATTEMPTS transient errors, a permanent one, or an
\* answer that is no whole transaction; earlier attempts leave no trace.
FetchFails(a) ==
    /\ Crawling(a, "fetching")
    /\ Fault
    /\ \E i \in InFlight(a) : crawl' = Settled(a, i)
    /\ failures' = CountFailure
    /\ UNCHANGED <<settings, phase, head, cancelled, channel, seen, buffered, pushing>>

\* The page is done.
TurnPage(a) ==
    /\ Crawling(a, "fetching")
    /\ crawl[a].todo = <<>>
    /\ IF crawl[a].last THEN Finish(a)
       ELSE crawl' = [crawl EXCEPT ![a] = [@ EXCEPT !.pc = "paging"]]
    /\ UNCHANGED <<settings, phase, head, failures, cancelled, channel, seen, buffered, pushing, faults>>

\* The chain moves on.
NewTransaction ==
    /\ phase = "crawling" /\ head < Len(Ledger)
    /\ head' = head + 1
    /\ UNCHANGED <<settings, phase, crawling, failures, cancelled, buffered, pushing, faults>>

-------------------------------------------------------------------------------
(* The pipeline, whose records go to the pusher. *)

RecordsOf == [m \in {s.multisig : s \in Settings} |->
                 [t \in Transaction |-> TransactionRecords(t, Ledger[t].calls, m)]]

\* The first `count` records of an update, as lines.
Lines(update, count) ==
    LET records == RecordsOf[multisig][update.tx]
    IN [i \in 1..count |-> [time |-> update.time, record |-> records[i]]]

\* An update leaves the channel.  The filters let its instructions pass unless they
\* have seen them; one that cannot be processed ends the update.
ProcessUpdate ==
    /\ phase = "crawling" /\ channel # <<>>
    /\ channel' = Tail(channel)
    /\ LET update == Head(channel)
           count  == IF update.tx \in seen THEN 0 ELSE Len(RecordsOf[multisig][update.tx])
           Keep(n) == buffered' = IF n = 0 THEN buffered
                                  ELSE Append(buffered, [update |-> update, count |-> n])
       IN /\ seen' = seen \union {update.tx}
          /\ \/ Keep(count) /\ UNCHANGED <<failures, faults>>
             \/ /\ Fault
                /\ \E n \in 0..count - 1 : Keep(n)
                /\ failures' = [failures EXCEPT !.update = @ + 1]
    /\ UNCHANGED <<settings, phase, head, crawl, cancelled, pushing>>

\* The filters forget an entry after fifteen minutes.
Expire ==
    /\ phase = "crawling"
    /\ Fault
    /\ \E t \in seen : seen' = seen \ {t}
    /\ UNCHANGED <<settings, phase, head, crawl, failures, cancelled, channel, buffered, pushing>>

\* Ctrl-C, which the pipeline turns into a cancellation.
Cancel ==
    /\ phase = "crawling" /\ ~cancelled
    /\ Fault
    /\ cancelled' = TRUE
    /\ UNCHANGED <<settings, phase, head, crawling, failures, buffered, pushing>>

-------------------------------------------------------------------------------
(* The end of `run_backfill` and the pusher. *)

\* Every sender is gone and the channel is drained.
PipelineReturned == channel = <<>> /\ \A a \in Address : crawl[a].pc = "done"

\* Mutant: failures to process an update are not looked at.
CrawlIsWhole == ~cancelled /\ failures.crawl = 0

MayPush == ~cancelled /\ failures.crawl = 0 /\ failures.update = 0

\* The pusher is aborted, or told that no more records follow.
Decide ==
    /\ phase = "crawling" /\ PipelineReturned
    /\ phase' = IF MayPush THEN "ordering" ELSE "aborted"
    /\ UNCHANGED <<settings, head, crawling, failures, cancelled, buffered, pushing, faults>>

Chunks(lines) ==
    [i \in 1..(Len(lines) + BatchLimit - 1) \div BatchLimit |->
        SubSeq(lines, (i - 1) * BatchLimit + 1,
               IF i * BatchLimit < Len(lines) THEN i * BatchLimit ELSE Len(lines))]

\* Mutant: the records stay in the order they were logged.
AsLogged(updates) == updates

Latest == IF Ledger = <<>> THEN 0 ELSE Last(Ledger).time

\* The stable sort by block time: the updates of each time, whose records all have it,
\* after those of the one before.
ByBlockTime(updates) ==
    LET Of(time) == Only(updates, {kept \in ToSet(updates) : kept.update.time = time})
    IN FlattenSeq([i \in 1..Latest + 1 |-> Of(i - 1)])

AllLines(updates) == FlattenSeq([i \in DOMAIN updates |-> Lines(updates[i].update, updates[i].count)])

\* A record without a block time ends the pusher before it pushes any.
OrderRecords ==
    /\ phase = "ordering"
    /\ IF \E i \in DOMAIN buffered : buffered[i].update.time = Nothing
       THEN phase' = "aborted" /\ UNCHANGED <<batches, buffered>>
       ELSE /\ phase' = "pushing"
            /\ \E sorted \in {ByBlockTime(buffered)} : batches' = Chunks(AllLines(sorted))
            /\ buffered' = <<>>
    /\ UNCHANGED <<settings, head, crawling, failures, cancelled, pushed, attempt, loki, faults>>

Batch == batches[pushed + 1]

\* Whether Loki finds an entry too far behind the newest one it has of the stream.
TooFarBehind ==
    \E i \in DOMAIN Batch : \E newer \in loki \union ToSet(SubSeq(Batch, 1, i - 1)) :
        Batch[i].time + OutOfOrderWindow < newer.time

\* Whether Loki finds an entry older than it takes.
TooOld == limits.reject /\ \E e \in ToSet(Batch) : Now - e.time > limits.maxAge

\* `flush`: the next batch is accepted.
PushBatch ==
    /\ phase = "pushing" /\ pushed < Len(batches)
    /\ ~TooFarBehind /\ ~TooOld
    /\ loki' = loki \union ToSet(Batch)
    /\ pushed' = pushed + 1
    /\ attempt' = 1
    /\ UNCHANGED <<settings, phase, head, crawling, failures, cancelled, buffered, batches, faults>>

\* Mutant: a batch that is still over the limit is passed over.
PassOver == pushed' = pushed + 1 /\ attempt' = 1 /\ UNCHANGED phase

GiveUp == phase' = "interrupted" /\ UNCHANGED <<pushed, attempt>>

\* Loki is over its rate limit; the batch is sent again unless the attempts are used up.
PushLimited ==
    /\ phase = "pushing" /\ pushed < Len(batches)
    /\ IF attempt = PushAttempts THEN GiveUp
       ELSE attempt' = attempt + 1 /\ UNCHANGED <<phase, pushed>>
    /\ UNCHANGED <<settings, head, crawling, failures, cancelled, buffered, batches, loki, faults>>

\* Loki rejects the batch, or the connection breaks before or after it is stored.
PushFails ==
    /\ phase = "pushing" /\ pushed < Len(batches)
    /\ loki' \in {loki, loki \union ToSet(Batch)}
    /\ phase' = "interrupted"
    /\ UNCHANGED <<settings, head, crawling, failures, cancelled, buffered, batches, pushed, attempt, faults>>

Done ==
    /\ phase = "pushing" /\ pushed = Len(batches)
    /\ phase' = "complete"
    /\ UNCHANGED <<settings, head, crawling, failures, cancelled, buffered, pushing, faults>>

\* The process is killed.
Kill ==
    /\ phase \in {"starting", "crawling", "ordering", "pushing"}
    /\ Fault
    /\ phase' = IF phase = "pushing" THEN "interrupted" ELSE "aborted"
    /\ UNCHANGED <<settings, head, crawling, failures, cancelled, buffered, pushing>>

-------------------------------------------------------------------------------
Command == Start \/ Decide \/ OrderRecords \/ Done \/ PushBatch \/ PushLimited \/ PushFails
Step(a) ==
    \/ FetchPage(a) \/ StopCrawl(a) \/ PageFails(a)
    \/ FetchTransaction(a) \/ FetchFails(a) \/ TurnPage(a)

Progress == Command \/ ProcessUpdate \/ \E a \in Address : Step(a)

Next == Progress \/ Expire \/ Cancel \/ NewTransaction \/ Kill

\* As long as something can be done, something is: requests are answered, a failed
\* one with an error, and the runtime runs one of its tasks.  The endpoint's client
\* has a timeout; Loki's has none and is assumed to answer.
Fairness == WF_vars(Progress)

Spec == Init /\ [][Next]_vars /\ Fairness

-------------------------------------------------------------------------------
(* Properties. *)

InWindow(t) == t <= ConfirmedAtStart /\ Ledger[t].time >= CutoffTime /\ Ledger[t].touches # {}

Collected == ToSet(FlattenSeq(batches))

\* Nothing is pushed unless every transaction of the window, of either address, has
\* been crawled, fetched, converted and processed: "all-or-nothing" (README.md:563).
PushedOnlyIfWhole ==
    phase \in {"pushing", "interrupted", "complete"} =>
        \A t \in Transaction : InWindow(t) =>
            \A record \in ToSet(RecordsOf[multisig][t]) :
                [time |-> Ledger[t].time, record |-> record] \in Collected

\* What a reader of the ledger expects to find of a transaction, as far as the
\* generated decoder knows it: every instruction of the program, every event under
\* the instruction that emitted it, and every action on the configured multisig.
Expected(t) ==
    LET calls == {ix \in ToSet(Ledger[t].calls) : Decodes(ix)}
        Of(p) == {ix \in calls : ix.program = p}
        Emitted(ix) == ToSet(ix.logs) \union
            {child.payload : child \in {c \in Of(ix.program) : c.kind = "cpi_event" /\ Front(c.path) = ix.path}}
        Events == UNION {{<<ix.path, e>> : e \in Emitted(ix) \ {"garbage"}} :
                            ix \in {i \in Of("monitored") : i.kind # "cpi_event"}}
        Activity == UNION {{<<ix.path, action>> : action \in ToSet(Actions(multisig.version, ix))} :
                            ix \in {i \in Of(multisig.version) : MatchesState(multisig, i)}}
    IN {<<ix.path, ix.kind>> : ix \in Of("monitored")} \union Events \union Activity

\* Loki keeps one of two equal lines of the run's stream; still every occurrence of
\* an instruction, event or action in the window can be told from every other when
\* the backfill is complete (instructions.rs:15).
EveryOccurrenceIsArchived ==
    phase = "complete" =>
        \A t \in Transaction : InWindow(t) =>
            {<<e.record.path, e.record.name>> : e \in
                {l \in loki : l.record.signature = t /\ l.record.kind # "event_decode_failure"}}
            = Expected(t)

\* Loki never finds an entry too far behind those pushed before it, however the
\* crawls and fetches interleaved (backfill.rs:132).
NeverTooFarBehind == phase = "pushing" /\ pushed < Len(batches) => ~TooFarBehind

\* Every record of the window is one that Loki, as configured, takes and keeps at
\* the time the command starts (backfill.rs:76).
NothingIsTooOld ==
    phase \in {"pushing", "interrupted", "complete"} =>
        \A e \in Collected : Ledger[e.record.signature].listed # Nothing =>
            /\ limits.reject => Now - e.time <= limits.maxAge
            /\ limits.retention # 0 => Now - e.time <= limits.retention

Recordable ==
    UNION {ToSet(RecordsOf[s.multisig][t]) : t \in Transaction, s \in Settings}

StatusOf ==
    CASE phase \in {"starting", "crawling", "ordering"} -> "collecting"
      [] phase = "pushing"             -> "storing"
      [] phase \in {"refused", "aborted"} -> "aborted"
      [] OTHER                         -> phase

\* The command keeps the promise of a backfill.
Promise == INSTANCE Archive WITH
    Entry  <- [time : Nat, record : Recordable],
    TimeOf <- LAMBDA e : e.time,
    status <- StatusOf,
    wanted <- IF phase \in {"pushing", "interrupted", "complete"} THEN Collected ELSE {},
    stored <- loki

\* Whatever fails, it ends, and it ends in one of three ways: nothing is stored,
\* everything is, or the push broke off and what is stored is the oldest part.
ImplementsPromise == Promise!Spec
===============================================================================
