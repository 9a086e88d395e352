------------------------------ MODULE ScanAtOnce -------------------------------
(***************************************************************************)
(* What the discovery of one address promises to the poll around it: that  *)
(* however many pages a scan takes, from however many replicas and while   *)
(* the ledger grows and its history is pruned, it is as good as one look   *)
(* at the address, taken at the moment it is committed.                    *)
(***************************************************************************)
EXTENDS AddressScan

CONSTANT Transaction  \* the transactions that touch the address

VARIABLES
    head,            \* the head of the ledger
    firstAvailable,  \* the oldest slot of the endpoint's history
    cursor,          \* the slot the address is scanned up to
    accounted,       \* what the scans have found and the poll has taken over
    stored           \* both, as they were last saved

vars == <<head, firstAvailable, cursor, accounted, stored>>

Init ==
    /\ head \in Nat /\ firstAvailable \in Nat
    /\ cursor = SaturatingSub(head, ReplayWindow)
    /\ accounted = {}
    /\ stored = [cursor |-> cursor, accounted |-> {}]

\* The ledger grows, and its history is pruned.
Age ==
    /\ head <= head' /\ firstAvailable <= firstAvailable'
    /\ UNCHANGED <<cursor, accounted, stored>>

Available == {t \in Transaction : firstAvailable <= SlotOf[t]}

\* A poll that read the head as `h` finds all that no replica may omit and that the
\* endpoint still has, and nothing that no replica can show.
Finds(h, found) ==
    /\ ~CursorAheadOfHead(cursor, h, ReplayWindow)
    /\ MustFind(Available, cursor, h) \subseteq found
    /\ found \subseteq MayFind(Transaction, cursor, h, head)

Scan ==
    /\ UNCHANGED <<head, firstAvailable, stored>>
    /\ \E found \in SUBSET Transaction :
         /\ accounted' = accounted \cup found
         /\ \E h \in 0..head : Finds(h, found) /\ cursor' = CursorAfterScan(cursor, h, found)

\* Something found is still to be retried: the cursor stays.
ScanBlocked ==
    /\ UNCHANGED <<head, firstAvailable, cursor, stored>>
    /\ \E found \in SUBSET Transaction :
         /\ \E retrying \in found :
            \E done \in SUBSET (found \ {retrying}) : accounted' = accounted \cup done
         /\ \E h \in 0..head : Finds(h, found)

Save ==
    /\ stored' = [cursor |-> cursor, accounted |-> accounted]
    /\ UNCHANGED <<head, firstAvailable, cursor, accounted>>

\* A restart goes back to what was saved, and one window further.
Restart ==
    /\ cursor' = SaturatingSub(stored.cursor, ReplayWindow)
    /\ stored.accounted \subseteq accounted' /\ accounted' \subseteq accounted
    /\ UNCHANGED <<head, firstAvailable, stored>>

Next == Age \/ Save \/ Restart \/ Scan \/ ScanBlocked

Spec == Init /\ [][Next]_vars
===============================================================================
