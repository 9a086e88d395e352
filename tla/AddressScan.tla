----------------------------- MODULE AddressScan ------------------------------
(***************************************************************************)
(* What one scan of an address comes to, however many pages it takes: each *)
(* page is answered by a replica of its own, so no single listing need     *)
(* hold all that was found.  Module Discovery reads the pages.             *)
(***************************************************************************)
EXTENDS SlotArithmetic, FiniteSetsExt

CONSTANTS
    SlotOf,        \* SlotOf[t]: the slot of transaction t
    ReplayWindow,  \* datasource.replay_window_slots
    ReplicaSkew,   \* REPLICA_SKEW_SLOTS
    IndexLag,      \* slots before a replica's address index must show a transaction
    ReplicaLead    \* slots a replica may be ahead of the head the poll read

AboveFloor(touching, cursor) ==
    {t \in touching : SlotOf[t] > ReplayFloor(cursor, ReplayWindow)}

\* What no replica that may answer a poll at `h` omits.
MustFind(touching, cursor, h) ==
    {t \in AboveFloor(touching, cursor) :
        SlotOf[t] + IndexLag <= MinContextSlot(h, ReplicaSkew, ReplayWindow)}

\* What some replica may show while the ledger is at `now`.
MayFind(touching, cursor, h, now) ==
    {t \in AboveFloor(touching, cursor) : SlotOf[t] <= Smaller(now, h + ReplicaLead)}

\* The head the poll read, or the newest slot found if that is higher.  A lagging head
\* leaves a cursor with nothing found where it was.
CursorAfterScan(cursor, h, found) ==
    Larger(h, IF found = {} THEN cursor ELSE Max({SlotOf[t] : t \in found}))
===============================================================================
