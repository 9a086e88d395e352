------------------------------- MODULE Archive --------------------------------
(***************************************************************************)
(* What one backfill promises, whatever it does to keep it: it either ends *)
(* with nothing stored, or it first knows everything there is to store and *)
(* then stores it oldest first, and it says "complete" only when all of it *)
(* is there.  A backfill that has begun to store can still break off; it   *)
(* is the one case that leaves a part behind.                              *)
(***************************************************************************)
EXTENDS Naturals

CONSTANTS
    Entry,     \* what can be stored
    TimeOf(_)  \* the time of an entry

VARIABLES
    status,  \* "collecting", "storing", "complete", "aborted" or "interrupted"
    wanted,  \* everything to store, known once storing begins
    stored   \* what has been stored

vars == <<status, wanted, stored>>

Undecided == {"collecting", "storing"}
Statuses  == Undecided \union {"complete", "aborted", "interrupted"}

TypeOK ==
    /\ status \in Statuses
    /\ wanted \subseteq Entry
    /\ stored \subseteq wanted

Init == status = "collecting" /\ wanted = {} /\ stored = {}

\* The attempt is given up before anything is stored.
Abort ==
    /\ status = "collecting"
    /\ status' = "aborted"
    /\ UNCHANGED <<wanted, stored>>

\* Everything has been collected.
Begin ==
    /\ status = "collecting"
    /\ status' = "storing"
    /\ wanted' \in SUBSET Entry
    /\ UNCHANGED stored

\* What is stored is never newer than what is still missing.
OldestFirst(done) == \A e \in done, f \in wanted \ done : TimeOf(e) <= TimeOf(f)

\* Some more is stored; the attempt may break off with it.
Store ==
    /\ status = "storing"
    /\ stored \subseteq stored' /\ stored' \subseteq wanted
    /\ OldestFirst(stored')
    /\ status' \in {"storing", "interrupted"}
    /\ UNCHANGED wanted

\* The last of it is stored.
Complete ==
    /\ status = "storing"
    /\ status' = "complete"
    /\ stored' = wanted
    /\ UNCHANGED wanted

Next == Abort \/ Begin \/ Store \/ Complete

\* An attempt does not stay undecided.
Spec == Init /\ [][Next]_vars /\ <>(status \notin Undecided)
===============================================================================
