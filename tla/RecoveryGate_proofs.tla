-------------------------- MODULE RecoveryGate_proofs --------------------------
(***************************************************************************)
(* Recovery disables itself exactly on enough evidence, and a park leaves  *)
(* nothing that grows, for every number of attempts and observations and   *)
(* however many polls and restarts there are.                              *)
(***************************************************************************)
EXTENDS RecoveryGate, FiniteSetTheorems, TLAPS

Starting == pc \in {"genesis", "loading", "waiting"}
Stopped  == pc \in {"stopping", "parked"}
Enough   == gaps >= DisableAfter \/ ahead >= DisableAfter

\* The trackers count what the polls observed since the evidence against it.
TrackersCount ==
    /\ IsFiniteSet(GapsSeen) /\ gaps = Cardinality(GapsSeen)
    /\ IsFiniteSet(AheadSeen) /\ ahead = Cardinality(AheadSeen)

\* The phase agrees with the trackers, and an observation that ends a poll is never
\* kept by one that runs.
PhaseAgrees ==
    /\ Starting => attempts < LoadAttempts /\ outcomes = <<>>
    /\ Running => ~Enough
    /\ Stopped /\ outcomes # <<>> => Enough
    /\ poll.head # "ahead" /\ poll.history # "gap"

\* The flag is down once recovery is parked, and what was then on its way is all
\* that can still arrive.
DeliveriesStop ==
    /\ Stopped => ~recording
    /\ NothingPilesUpWhenParked

\* No poll runs while the checkpoint file is another target's.
ForeignNeverPolls == file = "foreign" => ~Running

IInv == TypeOK /\ TrackersCount /\ PhaseAgrees /\ DeliveriesStop /\ ForeignNeverPolls

-------------------------------------------------------------------------------
(* What one more outcome does to the evidence. *)

\* An outcome that is evidence against a gap clears the count; another one adds
\* itself exactly if it is a gap.
LEMMA GapsOfOneMore ==
    ASSUME TypeOK, NEW o \in Outcome, outcomes' = Append(outcomes, o)
    PROVE  GapsSeen' = IF VerifiedBoundary(o) THEN {}
                       ELSE IF o.history = "gap" THEN GapsSeen \cup {Len(outcomes) + 1}
                       ELSE GapsSeen
  <1> DEFINE n == Len(outcomes)
  <1>1. /\ n \in Nat /\ Len(outcomes') = n + 1
        /\ outcomes'[n + 1] = o
        /\ \A i \in 1..n : outcomes'[i] = outcomes[i]
    BY DEF TypeOK
  <1>2. GapsSeen = {i \in 1..n : /\ \A j \in i..n : ~VerifiedBoundary(outcomes[j])
                                 /\ outcomes[i].history = "gap"}
    BY DEF GapsSeen, Since
  <1>3. GapsSeen' = {i \in 1..n + 1 : /\ \A j \in i..n + 1 : ~VerifiedBoundary(outcomes'[j])
                                      /\ outcomes'[i].history = "gap"}
    BY <1>1 DEF GapsSeen, Since, VerifiedBoundary
  <1>4. CASE VerifiedBoundary(o)
    BY <1>1, <1>3, <1>4
  <1>5. CASE ~VerifiedBoundary(o)
    <2>1. \A i \in 1..n : (\A j \in i..n + 1 : ~VerifiedBoundary(outcomes'[j]))
                          <=> (\A j \in i..n : ~VerifiedBoundary(outcomes[j]))
      <3> SUFFICES ASSUME NEW i \in 1..n
                   PROVE  (\A j \in i..n + 1 : ~VerifiedBoundary(outcomes'[j]))
                          <=> (\A j \in i..n : ~VerifiedBoundary(outcomes[j]))
        OBVIOUS
      <3>1. i..n + 1 = (i..n) \cup {n + 1} /\ i..n \subseteq 1..n
        BY <1>1
      <3> QED
        BY <3>1, <1>1, <1>5
    <2>2. \A j \in n + 1..n + 1 : ~VerifiedBoundary(outcomes'[j])
      BY <1>1, <1>5
    <2>3. 1..n + 1 = (1..n) \cup {n + 1}
      BY <1>1
    <2> QED
      BY <1>1, <1>2, <1>3, <1>5, <2>1, <2>2, <2>3
  <1> QED
    BY <1>4, <1>5

\* The same for a cursor ahead of the head, where any finished poll is evidence
\* against it.
LEMMA AheadOfOneMore ==
    ASSUME TypeOK, NEW o \in Outcome, outcomes' = Append(outcomes, o)
    PROVE  AheadSeen' = IF o.finished THEN {}
                        ELSE IF o.head = "ahead" THEN AheadSeen \cup {Len(outcomes) + 1}
                        ELSE AheadSeen
  <1> DEFINE n == Len(outcomes)
  <1>1. /\ n \in Nat /\ Len(outcomes') = n + 1
        /\ outcomes'[n + 1] = o
        /\ \A i \in 1..n : outcomes'[i] = outcomes[i]
    BY DEF TypeOK
  <1>2. AheadSeen = {i \in 1..n : /\ \A j \in i..n : ~outcomes[j].finished
                                  /\ outcomes[i].head = "ahead"}
    BY DEF AheadSeen, Since
  <1>3. AheadSeen' = {i \in 1..n + 1 : /\ \A j \in i..n + 1 : ~outcomes'[j].finished
                                       /\ outcomes'[i].head = "ahead"}
    BY <1>1 DEF AheadSeen, Since
  <1>4. CASE o.finished
    BY <1>1, <1>3, <1>4
  <1>5. CASE ~o.finished
    <2>1. \A i \in 1..n : (\A j \in i..n + 1 : ~outcomes'[j].finished)
                          <=> (\A j \in i..n : ~outcomes[j].finished)
      <3> SUFFICES ASSUME NEW i \in 1..n
                   PROVE  (\A j \in i..n + 1 : ~outcomes'[j].finished)
                          <=> (\A j \in i..n : ~outcomes[j].finished)
        OBVIOUS
      <3>1. i..n + 1 = (i..n) \cup {n + 1} /\ i..n \subseteq 1..n
        BY <1>1
      <3> QED
        BY <3>1, <1>1, <1>5
    <2>2. \A j \in n + 1..n + 1 : ~outcomes'[j].finished
      BY <1>1, <1>5
    <2>3. 1..n + 1 = (1..n) \cup {n + 1}
      BY <1>1
    <2> QED
      BY <1>1, <1>2, <1>3, <1>5, <2>1, <2>2, <2>3
  <1> QED
    BY <1>4, <1>5

LEMMA PositionsAreNew == TypeOK => Len(outcomes) + 1 \notin GapsSeen \cup AheadSeen
  <1> SUFFICES ASSUME TypeOK PROVE Len(outcomes) + 1 \notin GapsSeen \cup AheadSeen
    OBVIOUS
  <1>1. Len(outcomes) \in Nat
    BY DEF TypeOK
  <1> QED
    BY <1>1 DEF GapsSeen, AheadSeen, Since

-------------------------------------------------------------------------------
(* The invariant is inductive. *)

LEMMA InitEstablishes == Init => IInv
  <1> SUFFICES ASSUME Init PROVE IInv
    OBVIOUS
  <1>1. TypeOK
    <2>1. <<>> \in Seq(Outcome) /\ NothingSeen \in Observation
      BY DEF Observation, NothingSeen
    <2>2. 0 \in 0..LoadAttempts /\ 0 \in 0..DisableAfter /\ 0 \in Nat
      BY GateAssumption
    <2> QED
      BY <2>1, <2>2, ZenonT(30) DEF Init, TypeOK
  <1>2. GapsSeen = {} /\ AheadSeen = {}
    BY DEF Init, GapsSeen, AheadSeen, Since
  <1>3. TrackersCount
    BY <1>2, FS_EmptySet DEF Init, TrackersCount
  <1>4. PhaseAgrees /\ DeliveriesStop /\ ForeignNeverPolls
    BY GateAssumption DEF Init, PhaseAgrees, Starting, Running, Stopped, NothingSeen,
       DeliveriesStop, NothingPilesUpWhenParked, ForeignNeverPolls
  <1> QED
    BY <1>1, <1>3, <1>4 DEF IInv

\* Steps that end no poll leave the evidence as it is.
LEMMA SameOutcomes ==
    ASSUME TrackersCount, UNCHANGED <<outcomes, gaps, ahead>>
    PROVE  TrackersCount'
  BY DEF TrackersCount, GapsSeen, AheadSeen, Since, VerifiedBoundary

\* The end of a poll, however it ends: the trackers count its outcome, and recovery
\* is parked by it exactly if that makes enough.
LEMMA EndPollPreserves ==
    ASSUME IInv, Running, NEW seen \in Observation, NEW finished \in BOOLEAN,
           finished => seen.head # "ahead" /\ seen.history # "gap",
           EndPoll(seen, finished)
    PROVE  /\ TrackersCount'
           /\ gaps' \in 0..DisableAfter /\ ahead' \in 0..DisableAfter
           /\ outcomes' \in Seq(Outcome) /\ outcomes' # <<>>
           /\ \/ pc' = "idle" /\ ~Enough' /\ UNCHANGED delivery
              \/ pc' = "stopping" /\ Enough' /\ ~recording' /\ UNCHANGED <<recorder, delivered>>
           /\ poll' = NothingSeen
  <1> DEFINE o == [head |-> seen.head, history |-> seen.history, finished |-> finished]
  <1>1. o \in Outcome /\ outcomes' = Append(outcomes, o)
    BY DEF Observation, Outcome, EndPoll
  <1>2. TypeOK /\ TrackersCount /\ ~Enough
    BY DEF IInv, PhaseAgrees
  <1>3. /\ gaps \in Nat /\ ahead \in Nat /\ DisableAfter \in Nat
        /\ gaps < DisableAfter /\ ahead < DisableAfter
    BY <1>2, GateAssumption DEF TypeOK, Enough
  <1>4. IsFiniteSet(GapsSeen') /\ gaps' = Cardinality(GapsSeen')
    <2>1. GapsSeen' = IF VerifiedBoundary(o) THEN {}
                      ELSE IF o.history = "gap" THEN GapsSeen \cup {Len(outcomes) + 1}
                      ELSE GapsSeen
      BY <1>1, <1>2, GapsOfOneMore
    <2>2. gaps' = IF o.history = "gap" THEN gaps + 1
                  ELSE IF VerifiedBoundary(o) THEN 0 ELSE gaps
      BY DEF EndPoll, GapsAfter, VerifiedBoundary
    <2>3. ~(VerifiedBoundary(o) /\ o.history = "gap")
      BY DEF VerifiedBoundary
    <2> QED
      BY <1>2, <2>1, <2>2, <2>3, PositionsAreNew, FS_EmptySet, FS_AddElement
      DEF TrackersCount
  <1>5. IsFiniteSet(AheadSeen') /\ ahead' = Cardinality(AheadSeen')
    <2>1. AheadSeen' = IF o.finished THEN {}
                       ELSE IF o.head = "ahead" THEN AheadSeen \cup {Len(outcomes) + 1}
                       ELSE AheadSeen
      BY <1>1, <1>2, AheadOfOneMore
    <2>2. ahead' = IF o.head = "ahead" THEN ahead + 1 ELSE IF o.finished THEN 0 ELSE ahead
      BY DEF EndPoll, AheadAfter
    <2>3. ~(o.finished /\ o.head = "ahead")
      OBVIOUS
    <2> QED
      BY <1>2, <2>1, <2>2, <2>3, PositionsAreNew, FS_EmptySet, FS_AddElement
      DEF TrackersCount
  <1>6. gaps' \in 0..DisableAfter /\ ahead' \in 0..DisableAfter
    BY <1>3 DEF EndPoll, GapsAfter, AheadAfter
  <1>7. outcomes' \in Seq(Outcome) /\ outcomes' # <<>>
    BY <1>1, <1>2 DEF TypeOK
  <1>8. \/ pc' = "idle" /\ ~Enough' /\ UNCHANGED delivery
        \/ pc' = "stopping" /\ Enough' /\ ~recording' /\ UNCHANGED <<recorder, delivered>>
    BY <1>3, <1>6 DEF EndPoll, GapsAfter, AheadAfter, Enough, Park
  <1> QED
    BY <1>4, <1>5, <1>6, <1>7, <1>8 DEF TrackersCount, EndPoll

\* The steps of the poller while it starts.
LEMMA StartPreserves ==
    IInv /\ (ReadGenesis \/ LoadCheckpoint \/ LoadMismatch \/ LoadFails \/ RetryLoad) => IInv'
  <1> SUFFICES ASSUME IInv,
                      ReadGenesis \/ LoadCheckpoint \/ LoadMismatch \/ LoadFails \/ RetryLoad
               PROVE  IInv'
    OBVIOUS
  <1> USE DEF IInv
  <1>1. UNCHANGED <<outcomes, gaps, ahead, poll, delivered, recorder>>
    BY DEF ReadGenesis, LoadCheckpoint, LoadMismatch, LoadFails, RetryLoad, Park, trackers,
       delivery
  <1>2. Starting /\ outcomes = <<>> /\ attempts < LoadAttempts
    BY DEF ReadGenesis, LoadCheckpoint, LoadMismatch, LoadFails, RetryLoad, PhaseAgrees, Starting
  <1>3. TypeOK'
    <2>1. attempts' \in 0..LoadAttempts
      BY <1>2, GateAssumption DEF TypeOK, ReadGenesis, LoadCheckpoint, LoadMismatch, LoadFails,
         RetryLoad, NextAttempt, loader
    <2>2. recording' \in BOOLEAN /\ cursors' \in BOOLEAN
      BY DEF TypeOK, ReadGenesis, LoadCheckpoint, LoadMismatch, LoadFails, RetryLoad, Park, delivery
    <2>3. /\ pc' \in {"genesis", "loading", "waiting", "idle", "stopping"}
          /\ file' \in {file, "absent"}
          /\ UNCHANGED <<due, restarts>>
      BY DEF ReadGenesis, LoadCheckpoint, LoadMismatch, LoadFails, RetryLoad, Park, loader
    <2> QED
      BY <1>1, <2>1, <2>2, <2>3 DEF TypeOK
  <1>4. TrackersCount'
    BY <1>1, SameOutcomes
  <1>5. gaps = 0 /\ ahead = 0
    BY <1>2, FS_EmptySet DEF TrackersCount, GapsSeen, AheadSeen, Since
  <1>6. PhaseAgrees'
    BY <1>1, <1>2, <1>5, GateAssumption DEF TypeOK, PhaseAgrees, Starting, Running, Stopped, Enough,
       ReadGenesis, LoadCheckpoint, LoadMismatch, LoadFails, RetryLoad, Park, NextAttempt,
       TriedEnough, loader, delivery
  <1>7. DeliveriesStop'
    BY <1>1, <1>2 DEF DeliveriesStop, NothingPilesUpWhenParked, Starting, Stopped,
       ReadGenesis, LoadCheckpoint, LoadMismatch, LoadFails, RetryLoad, Park, delivery
  <1>8. ForeignNeverPolls'
    BY <1>2, GateAssumption DEF ForeignNeverPolls, Running, Starting,
       ReadGenesis, LoadCheckpoint, LoadMismatch, LoadFails, RetryLoad, Park, IsOwn, loader
  <1> QED
    BY <1>3, <1>4, <1>6, <1>7, <1>8

\* The steps of a poll that do not end it, and the start of one.
LEMMA PollPreserves ==
    ASSUME IInv, Running, pc' \in {"idle", "head", "boundary", "discover", "finish"},
           UNCHANGED <<outcomes, gaps, ahead, recording, recorder, attempts, restarts>>,
           poll' \in Observation, poll'.head # "ahead", poll'.history # "gap",
           delivered' \in Nat, cursors' \in BOOLEAN, due' \in BOOLEAN,
           file' \in {file, "own"}
    PROVE  IInv'
  <1>1. TypeOK'
    BY DEF IInv, TypeOK
  <1>2. TrackersCount'
    BY SameOutcomes DEF IInv
  <1>3. PhaseAgrees'
    BY DEF IInv, PhaseAgrees, Starting, Running, Stopped, Enough
  <1>4. DeliveriesStop'
    BY DEF IInv, DeliveriesStop, NothingPilesUpWhenParked, Stopped
  <1>5. ForeignNeverPolls'
    BY DEF IInv, ForeignNeverPolls
  <1> QED
    BY <1>1, <1>2, <1>3, <1>4, <1>5 DEF IInv

\* The steps that end one.
LEMMA LastStepPreserves ==
    ASSUME IInv, Running, NEW seen \in Observation, NEW finished \in BOOLEAN,
           finished => seen.head # "ahead" /\ seen.history # "gap",
           EndPoll(seen, finished),
           UNCHANGED <<file, attempts, restarts>>, cursors' \in BOOLEAN, due' \in BOOLEAN
    PROVE  IInv'
  <1>1. /\ TrackersCount'
        /\ gaps' \in 0..DisableAfter /\ ahead' \in 0..DisableAfter
        /\ outcomes' \in Seq(Outcome) /\ outcomes' # <<>>
        /\ \/ pc' = "idle" /\ ~Enough' /\ UNCHANGED delivery
           \/ pc' = "stopping" /\ Enough' /\ ~recording' /\ UNCHANGED <<recorder, delivered>>
        /\ poll' = NothingSeen
    BY EndPollPreserves
  <1>2. NothingSeen \in Observation /\ NothingSeen.head # "ahead" /\ NothingSeen.history # "gap"
    BY DEF NothingSeen, Observation
  <1>3. recording' \in BOOLEAN /\ UNCHANGED <<recorder, delivered>>
    BY <1>1 DEF EndPoll, Park, delivery, IInv, TypeOK
  <1>4. TypeOK'
    BY <1>1, <1>2, <1>3 DEF IInv, TypeOK
  <1>5. PhaseAgrees'
    BY <1>1, <1>2 DEF PhaseAgrees, Starting, Running, Stopped
  <1>6. DeliveriesStop'
    BY <1>1, <1>3 DEF IInv, DeliveriesStop, NothingPilesUpWhenParked, Stopped, Running, delivery
  <1>7. ForeignNeverPolls'
    BY DEF IInv, ForeignNeverPolls
  <1> QED
    BY <1>1, <1>4, <1>5, <1>6, <1>7 DEF IInv

\* Every step of a poll, and the start of one.
LEMMA PollStepPreserves ==
    IInv /\ (BeginPoll \/ ReadHead \/ CheckBoundary \/ Discover \/ FinishPoll \/ PollFails
              \/ CheckFallsDue) => IInv'
  <1> SUFFICES ASSUME IInv,
                      \/ BeginPoll \/ ReadHead \/ CheckBoundary \/ Discover
                      \/ FinishPoll \/ PollFails \/ CheckFallsDue
               PROVE  IInv'
    OBVIOUS
  <1> USE DEF loader, trackers, delivery
  <1>0. /\ poll \in Observation /\ poll.head # "ahead" /\ poll.history # "gap"
        /\ cursors \in BOOLEAN /\ due \in BOOLEAN /\ delivered \in Nat
        /\ NothingSeen \in Observation
        /\ NothingSeen.head # "ahead" /\ NothingSeen.history # "gap"
    BY DEF IInv, TypeOK, PhaseAgrees, NothingSeen, Observation
  <1>1. CASE BeginPoll
    <2>1. Running /\ pc' = "head" /\ poll' = NothingSeen /\ delivered' = 0
          /\ file' \in {file, "own"}
      BY <1>1 DEF BeginPoll, Running
    <2> QED
      BY <1>0, <1>1, <2>1, PollPreserves DEF BeginPoll
  <1>2. CASE ReadHead
    <2>1. Running
      BY <1>2 DEF ReadHead, Running
    <2>2. CASE EndPoll([poll EXCEPT !.head = "ahead"], FALSE) /\ UNCHANGED cursors
      <3>1. [poll EXCEPT !.head = "ahead"] \in Observation
        BY <1>0 DEF Observation
      <3> QED
        BY <1>0, <1>2, <2>1, <2>2, <3>1, LastStepPreserves DEF ReadHead
    <2>3. CASE /\ poll' = [poll EXCEPT !.head = "plausible"]
               /\ pc' = IF due THEN "boundary" ELSE "discover"
               /\ cursors' = TRUE
               /\ UNCHANGED <<trackers, delivery, outcomes>>
      <3>1. poll' \in Observation /\ poll'.head # "ahead" /\ poll'.history # "gap"
        BY <1>0, <2>3 DEF Observation
      <3> QED
        BY <1>0, <1>2, <2>1, <2>3, <3>1, PollPreserves DEF ReadHead
    <2> QED
      BY <1>2, <2>2, <2>3 DEF ReadHead
  <1>3. CASE CheckBoundary
    <2>1. Running /\ due' \in BOOLEAN /\ UNCHANGED <<loader, cursors>>
      BY <1>3 DEF CheckBoundary, Running
    <2>2. CASE EndPoll([poll EXCEPT !.history = "gap"], FALSE)
      <3>1. [poll EXCEPT !.history = "gap"] \in Observation
        BY <1>0 DEF Observation
      <3> QED
        BY <1>0, <2>1, <2>2, <3>1, LastStepPreserves
    <2>3. CASE /\ poll' = [poll EXCEPT !.history = "verified"]
               /\ pc' = "discover"
               /\ UNCHANGED <<trackers, delivery, outcomes>>
      <3>1. poll' \in Observation /\ poll'.head # "ahead" /\ poll'.history # "gap"
        BY <1>0, <2>3 DEF Observation
      <3> QED
        BY <1>0, <2>1, <2>3, <3>1, PollPreserves
    <2> QED
      BY <1>3, <2>2, <2>3 DEF CheckBoundary
  <1>4. CASE Discover
    <2>1. Running /\ UNCHANGED <<loader, cursors, due>>
      BY <1>4 DEF Discover, Running
    <2>2. CASE EndPoll([poll EXCEPT !.history = "gap"], FALSE)
      <3>1. [poll EXCEPT !.history = "gap"] \in Observation
        BY <1>0 DEF Observation
      <3> QED
        BY <1>0, <2>1, <2>2, <3>1, LastStepPreserves
    <2>3. CASE /\ poll' \in {poll, [poll EXCEPT !.history = "verified"]}
               /\ pc' = "finish"
               /\ UNCHANGED <<trackers, delivery, outcomes>>
      <3>1. poll' \in Observation /\ poll'.head # "ahead" /\ poll'.history # "gap"
        BY <1>0, <2>3 DEF Observation
      <3> QED
        BY <1>0, <2>1, <2>3, <3>1, PollPreserves
    <2> QED
      BY <1>4, <2>2, <2>3 DEF Discover
  <1>5. CASE FinishPoll
    BY <1>0, <1>5, LastStepPreserves DEF FinishPoll, Running
  <1>6. CASE PollFails
    BY <1>0, <1>6, LastStepPreserves DEF PollFails, Running
  <1>7. CASE CheckFallsDue
    <2>1. Running /\ pc' = pc /\ pc = "idle" /\ due' = TRUE
      BY <1>7 DEF CheckFallsDue, Running
    <2> QED
      BY <1>0, <1>7, <2>1, PollPreserves DEF CheckFallsDue
  <1> QED
    BY <1>1, <1>2, <1>3, <1>4, <1>5, <1>6, <1>7

\* The forwarding task, the end of a park and a restart.
LEMMA OtherPreserves ==
    IInv /\ (ReadFlag \/ RecordDelivery \/ DropDeliveries \/ Restart) => IInv'
  <1> SUFFICES ASSUME IInv, ReadFlag \/ RecordDelivery \/ DropDeliveries \/ Restart
               PROVE  IInv'
    OBVIOUS
  <1> USE DEF loader, trackers, delivery
  <1>1. CASE ReadFlag
    <2>1. UNCHANGED <<outcomes, gaps, ahead, poll, delivered, recording, pc, file, attempts, cursors,
                      due, restarts>>
          /\ recorder = "idle" /\ recorder' \in {"idle", "sending"}
          /\ (recorder' = "sending" => recording)
      BY <1>1 DEF ReadFlag, MayRecord
    <2>2. TypeOK' /\ PhaseAgrees' /\ ForeignNeverPolls'
      BY <2>1 DEF IInv, TypeOK, PhaseAgrees, Starting, Running, Stopped, Enough,
         ForeignNeverPolls
    <2>3. TrackersCount'
      BY <2>1, SameOutcomes DEF IInv
    <2>4. DeliveriesStop'
      BY <2>1 DEF IInv, DeliveriesStop, NothingPilesUpWhenParked, Stopped
    <2> QED
      BY <2>2, <2>3, <2>4 DEF IInv
  <1>2. CASE RecordDelivery
    <2>1. UNCHANGED <<outcomes, gaps, ahead, poll, recording, pc, file, attempts, cursors,
                      due, restarts>>
          /\ recorder = "sending" /\ recorder' = "idle" /\ delivered' = delivered + 1
      BY <1>2 DEF RecordDelivery
    <2>2. TypeOK' /\ PhaseAgrees' /\ ForeignNeverPolls'
      BY <2>1 DEF IInv, TypeOK, PhaseAgrees, Starting, Running, Stopped, Enough,
         ForeignNeverPolls
    <2>3. TrackersCount'
      BY <2>1, SameOutcomes DEF IInv
    <2>4. DeliveriesStop'
      BY <2>1 DEF IInv, TypeOK, DeliveriesStop, NothingPilesUpWhenParked, Stopped
    <2> QED
      BY <2>2, <2>3, <2>4 DEF IInv
  <1>3. CASE DropDeliveries
    <2>1. UNCHANGED <<outcomes, gaps, ahead, poll, recording, recorder, file, attempts, cursors,
                      due, restarts>>
          /\ pc = "stopping" /\ pc' = "parked" /\ delivered' = 0
      BY <1>3 DEF DropDeliveries
    <2>2. TypeOK' /\ PhaseAgrees' /\ ForeignNeverPolls'
      BY <2>1 DEF IInv, TypeOK, PhaseAgrees, Starting, Running, Stopped, Enough,
         ForeignNeverPolls
    <2>3. TrackersCount'
      BY <2>1, SameOutcomes DEF IInv
    <2>4. DeliveriesStop'
      BY <2>1 DEF IInv, DeliveriesStop, NothingPilesUpWhenParked, Stopped
    <2> QED
      BY <2>2, <2>3, <2>4 DEF IInv
  <1>4. CASE Restart
    <2>1. /\ restarts' = restarts + 1 /\ pc' = "genesis" /\ attempts' = 0
          /\ cursors' = FALSE /\ due' = TRUE /\ gaps' = 0 /\ ahead' = 0
          /\ poll' = NothingSeen /\ recording' = TRUE /\ recorder' = "idle"
          /\ delivered' = 0 /\ outcomes' = <<>> /\ file' = file
      BY <1>4 DEF Restart
    <2>2. TypeOK'
      <3>1. <<>> \in Seq(Outcome) /\ NothingSeen \in Observation
        BY DEF Observation, NothingSeen
      <3>2. 0 \in 0..LoadAttempts /\ 0 \in 0..DisableAfter /\ 0 \in Nat
            /\ restarts + 1 \in Nat
        BY GateAssumption DEF IInv, TypeOK
      <3>3. file \in {"absent", "own", "foreign", "corrupt"}
        BY DEF IInv, TypeOK
      <3> QED
        BY <2>1, <3>1, <3>2, <3>3, ZenonT(30) DEF TypeOK
    <2>3. TrackersCount'
      <3>1. GapsSeen' = {} /\ AheadSeen' = {}
        BY <2>1 DEF GapsSeen, AheadSeen, Since
      <3> QED
        BY <2>1, <3>1, FS_EmptySet DEF TrackersCount
    <2>4. PhaseAgrees' /\ DeliveriesStop' /\ ForeignNeverPolls'
      BY <2>1, GateAssumption DEF PhaseAgrees, Starting, Running, Stopped, NothingSeen,
         DeliveriesStop, NothingPilesUpWhenParked, ForeignNeverPolls
    <2> QED
      BY <2>2, <2>3, <2>4 DEF IInv
  <1> QED
    BY <1>1, <1>2, <1>3, <1>4

LEMMA StutteringPreserves == IInv /\ UNCHANGED vars => IInv'
  <1> SUFFICES ASSUME IInv, UNCHANGED vars PROVE IInv'
    OBVIOUS
  <1> USE DEF vars, loader, trackers, delivery
  <1>1. TypeOK' /\ PhaseAgrees' /\ DeliveriesStop' /\ ForeignNeverPolls'
    BY DEF IInv, TypeOK, PhaseAgrees, Starting, Running, Stopped, Enough, DeliveriesStop,
       NothingPilesUpWhenParked, ForeignNeverPolls
  <1>2. TrackersCount'
    BY SameOutcomes DEF IInv
  <1> QED
    BY <1>1, <1>2 DEF IInv

LEMMA NextPreserves == IInv /\ [Next]_vars => IInv'
  BY StartPreserves, PollStepPreserves, OtherPreserves, StutteringPreserves DEF Next, Load

LEMMA Invariance == Spec => []IInv
  BY InitEstablishes, NextPreserves, PTL DEF Spec

-------------------------------------------------------------------------------
(* The theorems. *)

\* The state stays well formed: no tracker ever counts past the number that
\* disables recovery, and no load is tried more often than allowed.
THEOREM TypeCorrect == Spec => []TypeOK
  <1>1. IInv => TypeOK
    BY DEF IInv
  <1> QED
    BY <1>1, Invariance, PTL

\* Recovery that has begun to poll is disabled exactly when the observations are
\* enough: never earlier, and never later, however many polls fail in between.
THEOREM DisablesOnEvidence == Spec => []DisabledOnEvidence
  <1>1. IInv => DisabledOnEvidence
    BY DEF IInv, TrackersCount, PhaseAgrees, DisabledOnEvidence, Disabled, Stopped, Enough
  <1> QED
    BY <1>1, Invariance, PTL

\* A parked recovery holds at most one delivery, the one whose task had read the
\* flag before it was cleared.
THEOREM ParkedIsBounded == Spec => []NothingPilesUpWhenParked
  <1>1. IInv => NothingPilesUpWhenParked
    BY DEF IInv, DeliveriesStop
  <1> QED
    BY <1>1, Invariance, PTL

\* No process ever overwrites or moves the checkpoint of another deployment target.
THEOREM ForeignIsKept == Spec => ForeignCheckpointIsKept
  <1>1. IInv /\ [Next]_vars => [file = "foreign" => file' = "foreign"]_vars
    <2> SUFFICES ASSUME IInv, Next, file = "foreign" PROVE file' = "foreign"
      OBVIOUS
    <2>1. ~Running
      BY DEF IInv, ForeignNeverPolls
    <2> USE DEF loader
    <2>2. CASE ReadFlag \/ RecordDelivery \/ DropDeliveries \/ Restart \/ CheckFallsDue
      BY <2>2 DEF ReadFlag, RecordDelivery, DropDeliveries, Restart, CheckFallsDue
    <2>3. CASE ReadGenesis \/ Load \/ RetryLoad
      BY <2>3 DEF ReadGenesis, Load, LoadCheckpoint, LoadMismatch, LoadFails, RetryLoad, IsOwn
    <2>4. CASE BeginPoll \/ ReadHead \/ CheckBoundary \/ Discover \/ FinishPoll \/ PollFails
      BY <2>1, <2>4 DEF BeginPoll, ReadHead, CheckBoundary, Discover, FinishPoll, PollFails,
         Running
    <2> QED
      BY <2>2, <2>3, <2>4 DEF Next
  <1> QED
    BY <1>1, Invariance, PTL DEF Spec, ForeignCheckpointIsKept
===============================================================================
