----------------------------- MODULE RecoveryGate -----------------------------
(***************************************************************************)
(* When RPC recovery runs and when it disables itself: the start of the     *)
(* poller (genesis hash, bounded attempts to load the checkpoint), the two  *)
(* trackers that count what polls observed, and the park that stops the     *)
(* recording of stream deliveries while the rest of the process runs on.    *)
(*                                                                          *)
(* The endpoint is external: a load-balanced provider, each request of      *)
(* which may fail, answer with an implausible head or with a history that   *)
(* no longer reaches the cursor.  The minute between two boundary checks is *)
(* the flag `due`.                                                          *)
(***************************************************************************)
EXTENDS Naturals, Sequences, FiniteSets

CONSTANTS
    LoadAttempts,  \* CHECKPOINT_LOAD_ATTEMPTS
    DisableAfter,  \* RECOVERY_DISABLE_AFTER_CONSECUTIVE
    PollLimit,     \* bound: polls of one process
    DeliveryLimit, \* bound: deliveries waiting for the poller
    RestartLimit   \* bound: restarts of the process

ASSUME GateAssumption ==
    /\ LoadAttempts \in Nat \ {0} /\ DisableAfter \in Nat \ {0}
    /\ PollLimit \in Nat /\ DeliveryLimit \in Nat /\ RestartLimit \in Nat

VARIABLES
    file,      \* durable: the checkpoint file, "absent", "own", "foreign" or "corrupt"
    pc,        \* where the poller is
    attempts,  \* failed loads of the checkpoint
    cursors,   \* whether every address has a cursor
    due,       \* whether the history boundary must be checked
    gaps,      \* history_gaps.consecutive
    ahead,     \* cursors_ahead.consecutive
    poll,      \* what the running poll has observed
    recording, \* DeliveredSignatures.recording
    recorder,  \* the forwarding task: "idle", or "sending" past its check of the flag
    delivered, \* deliveries the poller has not taken
    outcomes,  \* history: what the polls of this process observed, in order
    restarts   \* history: restarts so far

loader    == <<file, attempts, restarts>>
trackers  == <<gaps, ahead>>
delivery  == <<recording, recorder, delivered>>
vars      == <<loader, pc, cursors, due, trackers, poll, delivery, outcomes>>

Observation == [head : {"unread", "ahead", "plausible"}, history : {"unread", "gap", "verified"}]
Outcome     == [head : {"unread", "ahead", "plausible"}, history : {"unread", "gap", "verified"},
                finished : BOOLEAN]

NothingSeen == [head |-> "unread", history |-> "unread"]

TypeOK ==
    /\ file \in {"absent", "own", "foreign", "corrupt"}
    /\ pc \in {"genesis", "loading", "waiting", "idle", "head", "boundary", "discover", "finish",
               "stopping", "parked"}
    /\ attempts \in 0..LoadAttempts
    /\ cursors \in BOOLEAN /\ due \in BOOLEAN
    /\ gaps \in 0..DisableAfter /\ ahead \in 0..DisableAfter
    /\ poll \in Observation
    /\ recording \in BOOLEAN
    /\ recorder \in {"idle", "sending"}
    /\ delivered \in Nat
    /\ outcomes \in Seq(Outcome)
    /\ restarts \in Nat

Init ==
    /\ file \in {"absent", "own", "foreign", "corrupt"}
    /\ pc = "genesis"
    /\ attempts = 0
    /\ cursors = FALSE /\ due = TRUE
    /\ gaps = 0 /\ ahead = 0
    /\ poll = NothingSeen
    /\ recording = TRUE /\ recorder = "idle" /\ delivered = 0
    /\ outcomes = <<>>
    /\ restarts = 0

-------------------------------------------------------------------------------
(* The forwarding task of the primary stream. *)

\* Mutant: the flag is not read.
RecordsAnyway == TRUE

MayRecord == recording

\* An update has been sent to the pipeline; the flag is read before its delivery
\* is recorded.
ReadFlag ==
    /\ recorder = "idle"
    /\ delivered < DeliveryLimit
    /\ recorder' = IF MayRecord THEN "sending" ELSE "idle"
    /\ UNCHANGED <<loader, pc, cursors, due, trackers, poll, recording, delivered, outcomes>>

RecordDelivery ==
    /\ recorder = "sending"
    /\ recorder' = "idle"
    /\ delivered' = delivered + 1
    /\ UNCHANGED <<loader, pc, cursors, due, trackers, poll, recording, outcomes>>

-------------------------------------------------------------------------------
(* Parking: the flag is cleared, then what waits is dropped. *)

Park == pc' = "stopping" /\ recording' = FALSE /\ UNCHANGED <<recorder, delivered>>

DropDeliveries ==
    /\ pc = "stopping"
    /\ pc' = "parked"
    /\ delivered' = 0
    /\ UNCHANGED <<loader, cursors, due, trackers, poll, recording, recorder, outcomes>>

-------------------------------------------------------------------------------
(* Starting. *)

\* The genesis hash is asked for until the endpoint answers.
ReadGenesis ==
    /\ pc = "genesis"
    /\ pc' \in {"loading", "genesis"}
    /\ UNCHANGED <<loader, cursors, due, trackers, poll, delivery, outcomes>>

\* Mutant: a checkpoint of another target is taken for one of this target.
IsAnyTargets == file \in {"own", "foreign"}

IsOwn == file = "own"

\* A missing checkpoint starts fresh; a corrupt one is moved aside first.
LoadCheckpoint ==
    /\ pc = "loading"
    /\ \/ file = "absent" /\ UNCHANGED <<file, cursors>>
       \/ file = "corrupt" /\ file' = "absent" /\ UNCHANGED cursors
       \/ IsOwn /\ cursors' = TRUE /\ UNCHANGED file
    /\ pc' = "idle"
    /\ UNCHANGED <<attempts, restarts, due, trackers, poll, delivery, outcomes>>

\* A checkpoint of another deployment target parks recovery at once.
LoadMismatch ==
    /\ pc = "loading"
    /\ file = "foreign" /\ ~IsOwn
    /\ Park
    /\ UNCHANGED <<loader, cursors, due, trackers, poll, outcomes>>

\* Mutant: the failed attempt is not counted.
SameAttempt == attempts

NextAttempt == attempts + 1

\* Mutant: one attempt too many.
TriedOnceMore == attempts' > LoadAttempts

TriedEnough == attempts' >= LoadAttempts

\* The file cannot be read, or moved aside, or its directory not synced after the
\* move; a few attempts are made.
LoadFails ==
    /\ pc = "loading"
    /\ \/ file # "absent" /\ UNCHANGED file
       \/ file = "corrupt" /\ file' = "absent"
    /\ attempts' = NextAttempt
    /\ IF TriedEnough THEN Park ELSE pc' = "waiting" /\ UNCHANGED delivery
    /\ UNCHANGED <<restarts, cursors, due, trackers, poll, outcomes>>

\* One poll interval later.
RetryLoad ==
    /\ pc = "waiting"
    /\ pc' = "loading"
    /\ UNCHANGED <<loader, cursors, due, trackers, poll, delivery, outcomes>>

-------------------------------------------------------------------------------
(* The loop. *)

\* The checkpoint is saved if a save is due and all cursors are known; then the
\* poll takes the deliveries, before its first request.
BeginPoll ==
    /\ pc = "idle"
    /\ Len(outcomes) < PollLimit
    /\ pc' = "head"
    /\ file' \in IF cursors THEN {file, "own"} ELSE {file}
    /\ poll' = NothingSeen
    /\ delivered' = 0
    /\ UNCHANGED <<attempts, restarts, cursors, due, trackers, recording, recorder, outcomes>>

\* Mutant: only a poll that saw nothing wrong at all forgets a gap.
GapsNeverForgotten(seen, finished) == IF seen.history = "gap" THEN gaps + 1 ELSE gaps

\* A finished poll that verified the boundary forgets the gaps.
GapsAfter(seen, finished) ==
    IF seen.history = "gap" THEN gaps + 1
    ELSE IF finished /\ seen.history = "verified" THEN 0 ELSE gaps

\* Any finished poll read a plausible head.
AheadAfter(seen, finished) ==
    IF seen.head = "ahead" THEN ahead + 1 ELSE IF finished THEN 0 ELSE ahead

\* How the loop takes the end of a poll.
EndPoll(seen, finished) ==
    /\ outcomes' = Append(outcomes, [head |-> seen.head, history |-> seen.history,
                                     finished |-> finished])
    /\ gaps' = GapsAfter(seen, finished)
    /\ ahead' = AheadAfter(seen, finished)
    /\ poll' = NothingSeen
    /\ IF \/ seen.history = "gap" /\ gaps' >= DisableAfter
          \/ seen.head = "ahead" /\ ahead' >= DisableAfter
         THEN Park
         ELSE pc' = "idle" /\ UNCHANGED delivery

\* The confirmed head: implausible only for a cursor that exists; a plausible one
\* gives every address a cursor.
ReadHead ==
    /\ pc = "head"
    /\ \/ /\ cursors
          /\ EndPoll([poll EXCEPT !.head = "ahead"], FALSE)
          /\ UNCHANGED cursors
       \/ /\ poll' = [poll EXCEPT !.head = "plausible"]
          /\ pc' = IF due THEN "boundary" ELSE "discover"
          /\ cursors' = TRUE
          /\ UNCHANGED <<trackers, delivery, outcomes>>
    /\ UNCHANGED <<loader, due>>

\* The boundary check that is due once a minute; it is recorded before its answer
\* is judged.
CheckBoundary ==
    /\ pc = "boundary"
    /\ due' = FALSE
    /\ \/ EndPoll([poll EXCEPT !.history = "gap"], FALSE)
       \/ /\ poll' = [poll EXCEPT !.history = "verified"]
          /\ pc' = "discover"
          /\ UNCHANGED <<trackers, delivery, outcomes>>
    /\ UNCHANGED <<loader, cursors>>

\* Every scan reached its floor, or one did not and the boundary explains it, or
\* the boundary shows that the history is gone.
Discover ==
    /\ pc = "discover"
    /\ \/ pc' = "finish" /\ UNCHANGED <<trackers, poll, delivery, outcomes>>
       \/ /\ poll' = [poll EXCEPT !.history = "verified"]
          /\ pc' = "finish"
          /\ UNCHANGED <<trackers, delivery, outcomes>>
       \/ EndPoll([poll EXCEPT !.history = "gap"], FALSE)
    /\ UNCHANGED <<loader, cursors, due>>

FinishPoll ==
    /\ pc = "finish"
    /\ EndPoll(poll, TRUE)
    /\ UNCHANGED <<loader, cursors, due>>

\* Any request of the poll fails, or a send finds the pipeline closed.
PollFails ==
    /\ pc \in {"head", "boundary", "discover", "finish"}
    /\ EndPoll(poll, FALSE)
    /\ UNCHANGED <<loader, cursors, due>>

\* A minute has passed since the last check.
CheckFallsDue ==
    /\ pc = "idle"
    /\ ~due
    /\ due' = TRUE
    /\ UNCHANGED <<loader, pc, cursors, trackers, poll, delivery, outcomes>>

\* The process dies and starts again.
Restart ==
    /\ restarts < RestartLimit
    /\ restarts' = restarts + 1
    /\ pc' = "genesis"
    /\ attempts' = 0
    /\ cursors' = FALSE /\ due' = TRUE
    /\ gaps' = 0 /\ ahead' = 0
    /\ poll' = NothingSeen
    /\ recording' = TRUE /\ recorder' = "idle" /\ delivered' = 0
    /\ outcomes' = <<>>
    /\ UNCHANGED file

Load == LoadCheckpoint \/ LoadMismatch \/ LoadFails

Next ==
    \/ ReadFlag
    \/ RecordDelivery
    \/ DropDeliveries
    \/ ReadGenesis
    \/ Load
    \/ RetryLoad
    \/ BeginPoll
    \/ ReadHead
    \/ CheckBoundary
    \/ Discover
    \/ FinishPoll
    \/ PollFails
    \/ CheckFallsDue
    \/ Restart

\* The loop that loads the checkpoint always runs its next attempt (the runtime keeps
\* the task scheduled and the sleep ends), whatever the attempt's outcome.
Spec == Init /\ [][Next]_vars /\ WF_vars(Load) /\ WF_vars(RetryLoad)

-------------------------------------------------------------------------------
(* Properties. *)

\* The polls since the last one that is evidence against a gap, or against a cursor
\* ahead of the head.
Since(Recovers(_)) ==
    {i \in 1..Len(outcomes) : \A j \in i..Len(outcomes) : ~Recovers(outcomes[j])}

VerifiedBoundary(o) == o.finished /\ o.history = "verified"

GapsSeen  == {i \in Since(VerifiedBoundary) : outcomes[i].history = "gap"}
AheadSeen == {i \in Since(LAMBDA o : o.finished) : outcomes[i].head = "ahead"}

Running == pc \in {"idle", "head", "boundary", "discover", "finish"}

Disabled == pc \in {"stopping", "parked"} /\ outcomes # <<>>

\* Recovery that has begun to poll disables itself exactly when DisableAfter polls
\* saw a gap with no finished poll that verified the boundary among them, or as many
\* saw a cursor ahead of the head with no finished poll among them: never earlier,
\* and never later, however requests fail in between.
DisabledOnEvidence ==
    LET enough == Cardinality(GapsSeen) >= DisableAfter \/ Cardinality(AheadSeen) >= DisableAfter
    IN  (Disabled => enough) /\ (Running => ~enough)

\* While recovery is disabled deliveries do not pile up: at most the one whose
\* task had read the flag before it was cleared is left (delivered.rs, "the
\* undrained deliveries would only grow").
NothingPilesUpWhenParked ==
    pc = "parked" => delivered + (IF recorder = "sending" THEN 1 ELSE 0) <= 1

\* The checkpoint of another deployment target is never overwritten or moved, in
\* any process that runs on its directory.
ForeignCheckpointIsKept == [][file = "foreign" => file' = "foreign"]_vars

\* Loading the checkpoint ends, whatever fails: recovery polls or is disabled.
LoadIsDecided == pc = "loading" ~> pc \notin {"loading", "waiting"}

\* A cursor counts as ahead of the head only on consecutive observations: the last
\* DisableAfter polls that read the head all found it implausible (runtime.rs,
\* "recovery disables itself after {RECOVERY_DISABLE_AFTER_CONSECUTIVE} consecutive
\* observations").
AheadOnConsecutiveObservations ==
    LET read == SelectSeq(outcomes, LAMBDA o : o.head # "unread")
    IN  Disabled /\ outcomes[Len(outcomes)].head = "ahead" =>
          \A i \in 0..(DisableAfter - 1) : i < Len(read) => read[Len(read) - i].head = "ahead"
===============================================================================
