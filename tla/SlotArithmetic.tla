---------------------------- MODULE SlotArithmetic ----------------------------
(***************************************************************************)
(* The slot arithmetic of the RPC poller.  Slots are u64 in the code; every *)
(* subtraction saturates at zero, and the sums stay far below 2^64 (a slot  *)
(* plus a window of at most 100000), so the naturals model them.            *)
(***************************************************************************)
EXTENDS Integers

\* None of an Option<u64> or Option<Signature>, and a missing map entry.
Nothing == -1

Larger(a, b)  == IF a >= b THEN a ELSE b
Smaller(a, b) == IF a <= b THEN a ELSE b

\* u64::saturating_sub.
SaturatingSub(a, b) == IF a >= b THEN a - b ELSE 0

\* Discovery re-reads everything above this slot on every poll.
ReplayFloor(cursor, window) == SaturatingSub(cursor, window)

\* Mutant: the whole window granted as skew, so nothing is left for the index latency.
MinContextSlotWithoutRoom(headSlot, skew, window) == SaturatingSub(headSlot, window)

\* The oldest state a replica may answer discovery from.  The skew is capped by
\* the window, and head_slot itself is never demanded.
MinContextSlot(headSlot, skew, window) ==
    SaturatingSub(headSlot, Smaller(skew, window))

\* Mutant: only the load's rewind counted, not the one discovery adds.
UnreachableBelowOneWindow(slot, window) == SaturatingSub(slot, window)

\* Suppression below this slot is dropped: a restart rewinds the stored cursor
\* by one window and discovery rewinds by another.
UnreachableBelow(slot, window) == SaturatingSub(slot, 2 * window)

\* A cursor further past the reported head than one window is implausible.
CursorAheadOfHead(cursor, headSlot, window) == cursor > headSlot + window
===============================================================================
