------------------------------ MODULE AtLeastOnce ------------------------------
(***************************************************************************)
(* What recovery promises of each transaction, whatever its poller, stream *)
(* and files do to keep it.  From the first checkpoint on, a transaction   *)
(* is owed until its records are logged or its quarantine is on disk, and  *)
(* it is never passed over.  A settled one is not logged again before the  *)
(* checkpoints are a whole horizon past it.                                *)
(***************************************************************************)
EXTENDS Naturals

CONSTANTS
    Transaction,
    SlotOf,      \* SlotOf[t]: the slot of transaction t
    Horizon      \* how far a checkpoint must be past a settled transaction

VARIABLES
    fate,       \* fate[t]: what has become of transaction t
    committed,  \* whether there is a checkpoint
    mark,       \* the highest slot a checkpoint has reached
    repeated    \* settled transactions that were logged again

vars == <<fate, committed, mark, repeated>>

\* "open" before a checkpoint says whether it is owed, "excused" when it is older than
\* what recovery answers for, "settled" once a restart knows that it was logged.
Fates == {"open", "excused", "owed", "quarantined", "logged", "settled"}

Pending == {"owed", "quarantined"}

Init ==
    /\ fate = [t \in Transaction |-> "open"]
    /\ committed = FALSE /\ mark = 0 /\ repeated = {}

\* The horizon of a settled transaction has been passed.
Aged(t) == SlotOf[t] + Horizon <= mark

Log(ts) ==
    /\ \A t \in ts : fate[t] = "settled" => Aged(t)
    /\ fate' = [t \in Transaction |-> IF t \in ts /\ fate[t] # "settled" THEN "logged" ELSE fate[t]]
    /\ repeated' = repeated \cup {t \in ts : fate[t] = "settled"}
    /\ UNCHANGED <<committed, mark>>

Settle(ts) ==
    /\ \A t \in ts : fate[t] \in {"logged", "settled"}
    /\ fate' = [t \in Transaction |-> IF t \in ts THEN "settled" ELSE fate[t]]
    /\ UNCHANGED <<committed, mark, repeated>>

\* Where a checkpoint may take a transaction.
Outcomes(before) ==
    IF before = "open" THEN Pending \cup {"excused"}
    ELSE IF before \in Pending THEN Pending ELSE {before}

Commit ==
    /\ committed' = TRUE
    /\ mark' \in Nat /\ mark <= mark'
    /\ fate' \in [Transaction -> Fates]
    /\ \A t \in Transaction : fate'[t] \in Outcomes(fate[t])
    /\ UNCHANGED repeated

\* A restart that finds no checkpoint does not trust what it finds settled.
StartOver ==
    /\ ~committed
    /\ fate' = [t \in Transaction |-> IF fate[t] = "settled" THEN "logged" ELSE fate[t]]
    /\ UNCHANGED <<committed, mark, repeated>>

Next ==
    \/ \E ts \in SUBSET Transaction : Log(ts) \/ Settle(ts)
    \/ Commit
    \/ StartOver

Spec == Init /\ [][Next]_vars
===============================================================================
