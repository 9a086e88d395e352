----------------------------- MODULE MCDiscovery -----------------------------
(* Three transactions, two of them in one slot, so that a page may end between *)
(* the two; every slot number up to HeadLimit.                                  *)
EXTENDS Discovery

MCTransaction == 1..3
MCSlotOf == [t \in MCTransaction |-> IF t = 1 THEN 2 ELSE 3]
===============================================================================
