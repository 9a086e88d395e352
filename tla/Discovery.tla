------------------------------- MODULE Discovery -------------------------------
(***************************************************************************)
(* How the poller discovers the signatures of one monitored address: the    *)
(* page loop of discover_signatures, the history-boundary check that        *)
(* follows a scan which ended early, and the cursor the scan commits.       *)
(*                                                                          *)
(* The endpoint is external.  It is a set of replicas behind one address:   *)
(* each request is answered by a replica that may lag (min_context_slot     *)
(* bounds by how much), may run ahead of the slot the poll read first, and  *)
(* may expose a transaction in its address index only IndexLag slots after  *)
(* the transaction's own slot.  Its history is pruned from below.           *)
(*                                                                          *)
(* Transactions are numbered in ledger order, so "newest first" is the      *)
(* order of the numbers and `before` is a number.                           *)
(***************************************************************************)
EXTENDS SlotArithmetic, FiniteSets

CONSTANTS
    Transaction,    \* the transactions that touch the address, in ledger order
    SlotOf,         \* SlotOf[t]: the slot of transaction t
    ReplayWindow,   \* datasource.replay_window_slots
    ReplicaSkew,    \* REPLICA_SKEW_SLOTS
    PageLimit,      \* SIGNATURE_PAGE_LIMIT
    IndexLag,       \* slots before a replica's address index must show a transaction
    ReplicaLead,    \* slots a replica may be ahead of the head the poll read
    HeadLimit,      \* bound: the last slot of the ledger
    RestartLimit    \* bound: restarts of the indexer

ASSUME TransactionAssumption ==
    /\ Transaction \subseteq Nat
    /\ SlotOf \in [Transaction -> Nat]
    /\ \A t, u \in Transaction : t < u => SlotOf[t] <= SlotOf[u]

ASSUME WindowAssumption ==
    /\ ReplayWindow \in Nat \ {0}
    /\ ReplicaSkew \in Nat
    /\ PageLimit \in Nat \ {0}

\* What min_context_slot's "room left" has to hold: the tolerated skew, the
\* index latency and a replica's lead fit in one replay window.
ASSUME RoomAssumption ==
    /\ IndexLag \in Nat
    /\ ReplicaLead \in Nat
    /\ Smaller(ReplicaSkew, ReplayWindow) + IndexLag + ReplicaLead <= ReplayWindow

ASSUME BoundAssumption == HeadLimit \in Nat /\ RestartLimit \in Nat

VARIABLES
    head,           \* the confirmed head of the ledger
    firstAvailable, \* the endpoint's oldest slot, getFirstAvailableBlock
    cursor,         \* AddressCursor.scanned_slot
    accounted,      \* transactions queued, absorbed or quarantined
    stored,         \* durable: the checkpoint's cursor and what it accounts for
    pc,             \* "idle", "page", "boundary" or "commit"
    scan,           \* the running scan: head_slot, before, signatures, newest_slot
    origin,         \* history: the floor of the very first scan
    evicted,        \* history: pruned by the endpoint after the cursor had passed
    restarts        \* history: restarts so far

network == <<head, firstAvailable, evicted>>
vars    == <<network, cursor, accounted, stored, pc, scan, origin, restarts>>

Scan == [head : Nat, before : Nat \cup {Nothing}, found : SUBSET Transaction,
         newest : Nat \cup {Nothing}]

NewScan(h) == [head |-> h, before |-> Nothing, found |-> {}, newest |-> Nothing]

TypeOK ==
    /\ head \in Nat
    /\ firstAvailable \in Nat
    /\ cursor \in Nat
    /\ accounted \subseteq Transaction
    /\ stored \in [cursor : Nat, accounted : SUBSET Transaction]
    /\ pc \in {"idle", "page", "boundary", "commit"}
    /\ scan \in Scan
    /\ origin \in Nat
    /\ evicted \subseteq Transaction
    /\ restarts \in Nat

\* The first poll has just installed the cursor, one window behind the head,
\* and the endpoint still has everything above the floor of that poll.
Init ==
    /\ head \in 0..HeadLimit
    /\ cursor = SaturatingSub(head, ReplayWindow)
    /\ origin = ReplayFloor(cursor, ReplayWindow)
    /\ firstAvailable \in 0..origin
    /\ accounted = {}
    /\ stored = [cursor |-> cursor, accounted |-> {}]
    /\ pc = "idle"
    /\ scan = NewScan(0)
    /\ evicted = {}
    /\ restarts = 0

-------------------------------------------------------------------------------
(* The endpoint. *)

AdvanceHead ==
    /\ head < HeadLimit
    /\ head' = head + 1
    /\ UNCHANGED <<firstAvailable, evicted, cursor, accounted, stored, pc, scan, origin, restarts>>

\* Mutant: the newest slot listed, even when there is none.
NewestListed == scan.newest

\* Mutant: with nothing listed, the head whatever the cursor was.
NextCursorAtHead == Larger(scan.head, IF scan.newest = Nothing THEN scan.head ELSE scan.newest)

\* The head the poll read, or the newest slot listed if that is higher.  A lagging
\* head leaves a cursor with nothing to list where it was.
NextCursor == Larger(scan.head, IF scan.newest = Nothing THEN cursor ELSE scan.newest)

\* The slots a poll has passed, or is about to pass on a boundary it has already
\* checked.
Passed(slot) == slot <= IF pc = "commit" THEN Larger(cursor, NextCursor) ELSE cursor

\* The endpoint drops its oldest slot, at any moment.
PruneHistory ==
    /\ firstAvailable < head
    /\ firstAvailable' = firstAvailable + 1
    /\ evicted' = evicted \cup
         {t \in Transaction : SlotOf[t] <= firstAvailable /\ Passed(SlotOf[t])}
    /\ UNCHANGED <<head, cursor, accounted, stored, pc, scan, origin, restarts>>

Available(t) == firstAvailable <= SlotOf[t]

\* What a replica whose state is at slot v lists: everything its index must
\* have caught up with, and any part of what it may already show.
Listings(v) ==
    {shown \in SUBSET {t \in Transaction : Available(t) /\ SlotOf[t] <= v} :
        \A t \in Transaction : Available(t) /\ SlotOf[t] + IndexLag <= v => t \in shown}

\* getSignaturesForAddress over what a replica shows: at most PageLimit entries,
\* newest first; a short page is everything there is.
IsPage(page, shown) ==
    /\ page \subseteq shown
    /\ Cardinality(page) <= PageLimit
    /\ \A t \in page, u \in shown \ page : u < t
    /\ Cardinality(page) < PageLimit => page = shown

-------------------------------------------------------------------------------
(* The poll. *)

\* get_slot answers h, possibly from a lagging backend; a cursor implausibly far
\* ahead of it fails the poll before anything is read.
BeginScan ==
    /\ pc = "idle"
    /\ \E h \in 0..head :
         /\ ~CursorAheadOfHead(cursor, h, ReplayWindow)
         /\ scan' = NewScan(h)
    /\ pc' = "page"
    /\ UNCHANGED <<network, cursor, accounted, stored, origin, restarts>>

Floor == ReplayFloor(cursor, ReplayWindow)

\* append_signature_page keeps the entries above the floor; one at or below it
\* ends the scan.
Kept(page) == {t \in page : SlotOf[t] > Floor}

\* newest_slot is the first entry ever kept.
IsNewest(slot, kept) ==
    IF scan.newest # Nothing \/ kept = {}
      THEN slot = scan.newest
      ELSE \E t \in kept : slot = SlotOf[t] /\ \A u \in kept : SlotOf[u] <= slot

IsPageEnd(t, page) == t \in page /\ \A u \in page : t <= u

\* Mutant: each page replaces what the ones before it had.
AppendPageOver(page, newest) ==
    \/ Kept(page) # page /\ pc' = "commit"
       /\ scan' = [scan EXCEPT !.found = Kept(page), !.newest = newest]
    \/ Kept(page) = page /\ Cardinality(page) < PageLimit /\ pc' = "boundary"
       /\ scan' = [scan EXCEPT !.found = page, !.newest = newest]
    \/ Kept(page) = page /\ Cardinality(page) = PageLimit /\ UNCHANGED pc
       /\ \E end \in page :
            IsPageEnd(end, page)
            /\ scan' = [scan EXCEPT !.found = page, !.newest = newest, !.before = end]

\* What a page does to the scan: it reaches the floor, or is the last there is, or
\* is full and the next one starts before its end.
AppendPage(page, newest) ==
    \/ /\ Kept(page) # page
       /\ pc' = "commit"
       /\ scan' = [scan EXCEPT !.found = @ \cup Kept(page), !.newest = newest]
    \/ /\ Kept(page) = page
       /\ Cardinality(page) < PageLimit
       /\ pc' = "boundary"
       /\ scan' = [scan EXCEPT !.found = @ \cup page, !.newest = newest]
    \/ /\ Kept(page) = page
       /\ Cardinality(page) = PageLimit
       /\ UNCHANGED pc
       /\ \E end \in page :
            /\ IsPageEnd(end, page)
            /\ scan' = [scan EXCEPT !.found = @ \cup page, !.newest = newest, !.before = end]

\* One getSignaturesForAddress call.  The replica's state is no older than
\* min_context_slot (the endpoint refuses otherwise) and no further than
\* ReplicaLead ahead of the head this poll read.
FetchPage ==
    /\ pc = "page"
    /\ \E v \in MinContextSlot(scan.head, ReplicaSkew, ReplayWindow)
                  .. Smaller(head, scan.head + ReplicaLead) :
       \E listing \in Listings(v) :
       LET shown == {t \in listing : scan.before = Nothing \/ t < scan.before}
       IN  \E page \in SUBSET shown, newest \in {SlotOf[t] : t \in shown} \cup {scan.newest} :
             /\ IsPage(page, shown)
             /\ IsNewest(newest, Kept(page))
             /\ AppendPage(page, newest)
    /\ UNCHANGED <<network, cursor, accounted, stored, origin, restarts>>

EndScan == pc' = "idle" /\ scan' = NewScan(0)

\* The scan ended without reaching its floor: either the address has no older
\* history or the endpoint no longer has it.
BoundaryAccepts == firstAvailable <= cursor + 1

CheckBoundary ==
    /\ pc = "boundary"
    /\ IF BoundaryAccepts THEN pc' = "commit" /\ UNCHANGED scan ELSE EndScan
    /\ UNCHANGED <<network, cursor, accounted, stored, origin, restarts>>

\* Every discovered signature is queued, already recorded or quarantined.
CommitScan ==
    /\ pc = "commit"
    /\ accounted' = accounted \cup scan.found
    /\ cursor' = NextCursor
    /\ EndScan
    /\ UNCHANGED <<network, stored, origin, restarts>>

\* A signature of the batch is being retried: the cursor stays, and what is not
\* deferred with it is accounted for.
CommitBlocked ==
    /\ pc = "commit"
    /\ \E retrying \in scan.found :
       \E done \in SUBSET (scan.found \ {retrying}) : accounted' = accounted \cup done
    /\ EndScan
    /\ UNCHANGED <<network, cursor, stored, origin, restarts>>

\* Any request of the poll may fail; nothing it read is kept.
ScanFails ==
    /\ pc # "idle"
    /\ EndScan
    /\ UNCHANGED <<network, cursor, accounted, stored, origin, restarts>>

\* The checkpoint is saved between polls, from a drained pipeline.
SaveCursor ==
    /\ pc = "idle"
    /\ stored' = [cursor |-> cursor, accounted |-> accounted]
    /\ UNCHANGED <<network, cursor, accounted, pc, scan, origin, restarts>>

\* The process restarts: the load rewinds the stored cursor by one window, and of
\* what was queued since the save only part was processed.
Restart ==
    /\ restarts < RestartLimit
    /\ restarts' = restarts + 1
    /\ cursor' = SaturatingSub(stored.cursor, ReplayWindow)
    /\ \E done \in SUBSET (accounted \ stored.accounted) :
         accounted' = stored.accounted \cup done
    /\ EndScan
    /\ UNCHANGED <<network, stored, origin>>

Next ==
    \/ AdvanceHead
    \/ PruneHistory
    \/ BeginScan
    \/ FetchPage
    \/ CheckBoundary
    \/ CommitScan
    \/ CommitBlocked
    \/ ScanFails
    \/ SaveCursor
    \/ Restart

Spec == Init /\ [][Next]_vars

-------------------------------------------------------------------------------
(* Properties. *)

\* The transactions the indexer answers for and that no later scan can list:
\* their slot is at or below the floor of the next one.
OutOfReach(t) == SlotOf[t] > origin /\ SlotOf[t] <= Floor

\* A transaction out of reach has been queued, absorbed or quarantined, unless
\* the endpoint pruned it after the cursor had passed it.  This is what lets
\* discovery commit head_slot although the replica that answered omitted the
\* newest slots (signatures.rs, min_context_slot).
NothingOutOfReachIsMissed ==
    \A t \in Transaction : OutOfReach(t) => t \in accounted \cup evicted

\* The same without the exemption, for transactions newer than the very first
\* cursor: a gap the endpoint's retention opened is always reported, never passed
\* in silence (README, "RPC recovery disables itself instead of silently creating
\* a gap").
NoSilentGap ==
    \A t \in Transaction :
        OutOfReach(t) /\ SlotOf[t] > origin + ReplayWindow => t \in accounted

\* A lagging backend pulls the cursor of a running process back by less than one
\* replay window, so the next scan lists nothing at or below two windows under the
\* cursor, where suppression has been dropped.
CursorRegressesLessThanOneWindow ==
    [][restarts' = restarts => cursor' > cursor - ReplayWindow]_vars

\* The pages of a scan, each from a replica of its own, come to one look at the address
\* at the moment of the commit: nothing lies between two pages, and the cursor follows
\* what was found.  This is how RpcPolling takes an address (signatures.rs,
\* discover_signatures).
AtOnce == INSTANCE ScanAtOnce

ImplementsScanAtOnce == AtOnce!Spec
===============================================================================
