--------------------------- MODULE Discovery_proofs ---------------------------
(***************************************************************************)
(* Discovery loses nothing, for every ledger, window, page limit, latency    *)
(* and skew that leave room in the window (RoomAssumption).                  *)
(***************************************************************************)
EXTENDS Discovery, TLAPS

\* The transactions the indexer answers for.
Tracked(t) == SlotOf[t] > origin

\* A cursor's promise: what lies at or below the floor of its next scan is in
\* `done`, or was pruned after a cursor had passed it.
Covers(slot, done) ==
    \A t \in Transaction :
        Tracked(t) /\ SlotOf[t] <= ReplayFloor(slot, ReplayWindow) => t \in done \cup evicted

\* What the endpoint has pruned at or below a passed slot is in hand or evicted.
PrunedIsKnown ==
    \A t \in Transaction :
        Tracked(t) /\ SlotOf[t] < firstAvailable /\ Passed(SlotOf[t])
            => t \in accounted \cup evicted

\* The part of the address's history the running scan has already read.
InScope(t) == pc = "page" => scan.before # Nothing /\ t >= scan.before

\* Of that part, everything every replica must show has been found.
ScanIsComplete ==
    pc # "idle" =>
    \A t \in Transaction :
        /\ SlotOf[t] > Floor
        /\ SlotOf[t] + IndexLag <= MinContextSlot(scan.head, ReplicaSkew, ReplayWindow)
        /\ InScope(t)
        /\ Available(t)
        => t \in scan.found

ScanIsPlausible ==
    pc # "idle" =>
        /\ scan.newest <= scan.head + ReplicaLead
        /\ scan.newest # Nothing => scan.newest > Floor

IInv ==
    /\ TypeOK
    /\ stored.accounted \subseteq accounted
    /\ Covers(cursor, accounted)
    /\ Covers(stored.cursor, stored.accounted)
    /\ PrunedIsKnown
    /\ ScanIsComplete
    /\ ScanIsPlausible

-------------------------------------------------------------------------------
(* Arithmetic. *)

\* A slot above zero lies at or below the floor of a cursor exactly when the
\* cursor is a window past it (replay_floor's saturation changes nothing).
LEMMA FloorReach ==
    ASSUME NEW s \in Nat, NEW c \in Nat, s > 0
    PROVE  s <= ReplayFloor(c, ReplayWindow) <=> s + ReplayWindow <= c
  BY WindowAssumption DEF ReplayFloor, SaturatingSub

\* The room the replay window leaves: a slot one window below a cursor that a
\* poll at head h may commit is old enough for every replica that answered it.
LEMMA WindowLeavesRoom ==
    ASSUME NEW s \in Nat, NEW h \in Nat, s + ReplayWindow <= h + ReplicaLead
    PROVE  s + IndexLag <= MinContextSlot(h, ReplicaSkew, ReplayWindow)
  BY WindowAssumption, RoomAssumption DEF MinContextSlot, SaturatingSub, Smaller

LEMMA FloorIsSlot ==
    ASSUME NEW c \in Nat
    PROVE  /\ ReplayFloor(c, ReplayWindow) \in Nat
           /\ ReplayFloor(c, ReplayWindow) <= c
  BY WindowAssumption DEF ReplayFloor, SaturatingSub

LEMMA SlotType == \A t \in Transaction : SlotOf[t] \in Nat /\ t \in Nat
  BY TransactionAssumption

\* A poll commits the head it read or the newest slot it listed.
LEMMA NextCursorType ==
    ASSUME TypeOK
    PROVE  NextCursor \in Nat /\ NextCursor >= scan.head
  BY DEF TypeOK, Scan, NextCursor, Larger, Nothing

-------------------------------------------------------------------------------
(* The invariant is inductive. *)

LEMMA InitEstablishes == Init => IInv
  <1> SUFFICES ASSUME Init PROVE IInv
    OBVIOUS
  <1>1. head \in Nat /\ cursor \in Nat /\ origin \in Nat
    BY BoundAssumption, WindowAssumption DEF Init, ReplayFloor, SaturatingSub
  <1>2. TypeOK
    BY <1>1 DEF Init, TypeOK, NewScan, Scan, Nothing
  <1>3. Covers(cursor, accounted) /\ Covers(stored.cursor, stored.accounted)
    BY <1>1, SlotType DEF Init, Covers, Tracked
  <1>4. PrunedIsKnown
    BY <1>1, SlotType DEF Init, PrunedIsKnown, Tracked
  <1> QED
    BY <1>2, <1>3, <1>4 DEF Init, IInv, ScanIsComplete, ScanIsPlausible

LEMMA AdvanceHeadPreserves == IInv /\ AdvanceHead => IInv'
  <1> SUFFICES ASSUME IInv, AdvanceHead PROVE IInv'
    OBVIOUS
  <1>1. TypeOK'
    BY DEF IInv, TypeOK, AdvanceHead
  <1>2. UNCHANGED <<firstAvailable, evicted, cursor, accounted, stored, pc, scan, origin>>
    BY DEF AdvanceHead
  <1> QED
    BY <1>1, <1>2 DEF IInv, Covers, Tracked, PrunedIsKnown, Passed, NextCursor,
       ScanIsComplete, ScanIsPlausible, InScope, Available, Floor

LEMMA PruneHistoryPreserves == IInv /\ PruneHistory => IInv'
  <1> SUFFICES ASSUME IInv, PruneHistory PROVE IInv'
    OBVIOUS
  <1> USE DEF IInv
  <1>1. TypeOK'
    BY DEF TypeOK, PruneHistory
  <1>2. /\ evicted \subseteq evicted'
        /\ firstAvailable \in Nat /\ firstAvailable' = firstAvailable + 1
        /\ UNCHANGED <<cursor, accounted, stored, pc, scan, origin>>
    BY DEF PruneHistory, TypeOK
  <1>3. Covers(cursor, accounted)' /\ Covers(stored.cursor, stored.accounted)'
    BY <1>2 DEF Covers, Tracked
  <1>4. PrunedIsKnown'
    <2> SUFFICES ASSUME NEW t \in Transaction, Tracked(t), SlotOf[t] < firstAvailable + 1,
                        Passed(SlotOf[t])
                 PROVE  t \in accounted \cup evicted'
      BY <1>2 DEF PrunedIsKnown, Tracked, Passed, NextCursor
    <2>1. SlotOf[t] <= firstAvailable
      BY <1>2, SlotType
    <2> QED
      BY <2>1 DEF PruneHistory
  <1>5. ScanIsComplete'
    <2>1. \A t \in Transaction : Available(t)' => Available(t)
      BY <1>2, SlotType DEF Available
    <2> QED
      BY <1>2, <2>1 DEF ScanIsComplete, Tracked, InScope, Floor
  <1>6. ScanIsPlausible'
    BY <1>2 DEF ScanIsPlausible, Floor
  <1> QED
    BY <1>1, <1>2, <1>3, <1>4, <1>5, <1>6

LEMMA BeginScanPreserves == IInv /\ BeginScan => IInv'
  <1> SUFFICES ASSUME IInv, BeginScan PROVE IInv'
    OBVIOUS
  <1> USE DEF IInv
  <1>1. PICK h \in 0..head : /\ ~CursorAheadOfHead(cursor, h, ReplayWindow)
                            /\ scan' = NewScan(h)
    BY DEF BeginScan
  <1>2. /\ pc = "idle" /\ pc' = "page"
        /\ UNCHANGED <<head, firstAvailable, evicted, cursor, accounted, stored, origin, restarts>>
    BY DEF BeginScan, network
  <1>3. h \in Nat /\ scan'.head = h /\ scan'.before = Nothing /\ scan'.newest = Nothing
    BY <1>1 DEF NewScan, TypeOK
  <1>4. TypeOK'
    BY <1>1, <1>2, <1>3 DEF TypeOK, NewScan, Scan
  <1>5. Covers(cursor, accounted)' /\ Covers(stored.cursor, stored.accounted)'
    BY <1>2 DEF Covers, Tracked
  <1>6. PrunedIsKnown'
    BY <1>2 DEF PrunedIsKnown, Tracked, Passed
  <1>7. ScanIsComplete'
    BY <1>2, <1>3 DEF ScanIsComplete, InScope
  <1>8. ScanIsPlausible'
    BY <1>1, <1>2, <1>3, RoomAssumption DEF ScanIsPlausible, Nothing
  <1> QED
    BY <1>2, <1>4, <1>5, <1>6, <1>7, <1>8

\* What a scan needs of what a replica shows is kept, unless the page is full and
\* ends above it.
LEMMA PageKeepsWhatItPasses ==
    ASSUME TypeOK,
           NEW shown \in SUBSET Transaction, NEW page \in SUBSET shown, IsPage(page, shown),
           NEW t \in shown, SlotOf[t] > Floor, t \notin Kept(page)
    PROVE  /\ ~(Cardinality(page) < PageLimit)
           /\ Kept(page) = page
           /\ \A u \in page : t < u
  <1>1. t \notin page
    BY DEF Kept
  <1>2. \A u \in page : t < u
    BY <1>1 DEF IsPage
  <1>3. ~(Cardinality(page) < PageLimit)
    BY <1>1 DEF IsPage
  <1>4. \A u \in page : SlotOf[u] > Floor
    <2> SUFFICES ASSUME NEW u \in page PROVE SlotOf[u] > Floor
      OBVIOUS
    <2>1. SlotOf[t] <= SlotOf[u]
      BY <1>2, TransactionAssumption
    <2>2. Floor \in Nat
      BY FloorIsSlot DEF TypeOK, Floor
    <2> QED
      BY <2>1, <2>2, SlotType
  <1>5. Kept(page) = page
    BY <1>4 DEF Kept
  <1> QED
    BY <1>2, <1>3, <1>5

LEMMA FetchPagePreserves == IInv /\ FetchPage => IInv'
  <1> SUFFICES ASSUME IInv, FetchPage PROVE IInv'
    OBVIOUS
  <1> USE DEF IInv
  <1>1. /\ pc = "page"
        /\ UNCHANGED <<head, firstAvailable, evicted, cursor, accounted, stored, origin, restarts>>
    BY DEF FetchPage, network
  <1> DEFINE bound == MinContextSlot(scan.head, ReplicaSkew, ReplayWindow)
             answer(listing) == {t \in listing : scan.before = Nothing \/ t < scan.before}
  <1>2. PICK v \in bound .. Smaller(head, scan.head + ReplicaLead) :
          \E listing \in Listings(v) :
          \E page \in SUBSET answer(listing),
             newest \in {SlotOf[t] : t \in answer(listing)} \cup {scan.newest} :
             IsPage(page, answer(listing)) /\ IsNewest(newest, Kept(page)) /\ AppendPage(page, newest)
    BY DEF FetchPage
  <1>3. PICK listing \in Listings(v) :
          \E page \in SUBSET answer(listing),
             newest \in {SlotOf[t] : t \in answer(listing)} \cup {scan.newest} :
             IsPage(page, answer(listing)) /\ IsNewest(newest, Kept(page)) /\ AppendPage(page, newest)
    BY <1>2
  <1>4. PICK page \in SUBSET answer(listing),
             newest \in {SlotOf[t] : t \in answer(listing)} \cup {scan.newest} :
             IsPage(page, answer(listing)) /\ IsNewest(newest, Kept(page)) /\ AppendPage(page, newest)
    BY <1>3
  <1>5. /\ scan \in Scan /\ firstAvailable \in Nat /\ cursor \in Nat /\ head \in Nat
        /\ bound \in Nat /\ Floor \in Nat /\ Floor <= cursor /\ v \in Int
        /\ v <= scan.head + ReplicaLead
    BY <1>2, WindowAssumption, RoomAssumption
       DEF TypeOK, Scan, MinContextSlot, SaturatingSub, Smaller, Floor, ReplayFloor
  <1>6. /\ listing \subseteq {t \in Transaction : Available(t) /\ SlotOf[t] <= v}
        /\ \A t \in Transaction : Available(t) /\ SlotOf[t] + IndexLag <= v => t \in listing
        /\ page \subseteq answer(listing) /\ answer(listing) \subseteq listing
        /\ page \subseteq Transaction /\ Kept(page) \subseteq page
    BY <1>3, <1>4 DEF Listings, Kept
  <1>7. /\ newest \in Nat \cup {Nothing}
        /\ newest <= scan.head + ReplicaLead
        /\ newest # Nothing => newest > Floor
    <2>1. CASE newest = scan.newest
      BY <2>1, <1>1, <1>5 DEF ScanIsPlausible, Scan
    <2>2. CASE newest # scan.newest
      <3>1. PICK t \in Kept(page) : newest = SlotOf[t]
        BY <2>2, <1>4 DEF IsNewest
      <3>2. t \in Transaction /\ SlotOf[t] <= v /\ SlotOf[t] > Floor
        BY <1>4, <1>6 DEF Kept
      <3> QED
        BY <3>1, <3>2, <1>2, <1>5, SlotType, RoomAssumption DEF Scan
    <2> QED
      BY <2>1, <2>2
  <1>8. /\ scan'.head = scan.head /\ scan'.newest = newest
        /\ scan'.found = scan.found \cup Kept(page)
        /\ pc' \in {"page", "boundary", "commit"}
    BY <1>1, <1>4, <1>5 DEF AppendPage, Scan
  <1>9. TypeOK'
    <2>1. scan' \in Scan
      BY <1>4, <1>5, <1>6, <1>7, SlotType DEF AppendPage, Scan
    <2> QED
      BY <2>1, <1>1, <1>8 DEF TypeOK
  <1>10. Covers(cursor, accounted)' /\ Covers(stored.cursor, stored.accounted)'
    BY <1>1 DEF Covers, Tracked
  <1>11. PrunedIsKnown'
    \* a scan that reaches its floor saw a slot at or below it: nothing above is pruned
    <2>1. CASE pc' # "commit"
      BY <2>1, <1>1 DEF PrunedIsKnown, Tracked, Passed
    <2>2. CASE pc' = "commit"
      <3>1. PICK u \in page : SlotOf[u] <= Floor
        BY <2>2, <1>1, <1>4, <1>5, <1>6, SlotType DEF AppendPage, Kept
      <3>2. firstAvailable <= SlotOf[u]
        BY <1>6 DEF Available
      <3>3. \A t \in Transaction : SlotOf[t] < firstAvailable => SlotOf[t] <= cursor
        BY <3>1, <3>2, <1>5, <1>6, SlotType
      <3> QED
        BY <3>3, <1>1 DEF PrunedIsKnown, Tracked, Passed
    <2> QED
      BY <2>1, <2>2
  <1>12. ScanIsComplete'
    <2> SUFFICES ASSUME NEW t \in Transaction, SlotOf[t] > Floor,
                        SlotOf[t] + IndexLag <= bound, InScope(t)', Available(t)
                 PROVE  t \in scan.found \cup Kept(page)
      BY <1>1, <1>8 DEF ScanIsComplete, Floor, Available
    <2>1. CASE scan.before # Nothing /\ t >= scan.before
      BY <2>1, <1>1 DEF ScanIsComplete, InScope
    <2>2. CASE ~(scan.before # Nothing /\ t >= scan.before)
      <3> SUFFICES ASSUME t \notin Kept(page) PROVE FALSE
        OBVIOUS
      <3>1. t \in answer(listing)
        <4>1. SlotOf[t] + IndexLag <= v
          BY <1>2, <1>5, SlotType, RoomAssumption
        <4>2. t \in listing
          BY <4>1, <1>6
        <4>3. scan.before = Nothing \/ t < scan.before
          BY <2>2, <1>5, SlotType DEF Scan
        <4> QED
          BY <4>2, <4>3
      <3>2. /\ ~(Cardinality(page) < PageLimit)
            /\ Kept(page) = page
            /\ \A u \in page : t < u
        <4>1. answer(listing) \in SUBSET Transaction
          BY <1>6
        <4> HIDE DEF answer
        <4> QED
          BY <1>4, <3>1, <4>1, PageKeepsWhatItPasses
      <3>3. PICK end \in page : scan' = [scan EXCEPT !.found = @ \cup page, !.newest = newest,
                                                   !.before = end]
        BY <1>4, <3>2 DEF AppendPage
      <3>4. pc' = "page" /\ scan'.before = end /\ end \in Nat /\ t \in Nat /\ t < end
        BY <1>1, <1>4, <1>5, <1>6, <3>2, <3>3, SlotType DEF AppendPage, Scan
      <3> QED
        BY <3>4 DEF InScope, Nothing
    <2> QED
      BY <2>1, <2>2
  <1>13. ScanIsPlausible'
    BY <1>1, <1>7, <1>8 DEF ScanIsPlausible, Floor
  <1> QED
    BY <1>1, <1>9, <1>10, <1>11, <1>12, <1>13

LEMMA CheckBoundaryPreserves == IInv /\ CheckBoundary => IInv'
  <1> SUFFICES ASSUME IInv, CheckBoundary PROVE IInv'
    OBVIOUS
  <1> USE DEF IInv
  <1>1. /\ pc = "boundary"
        /\ UNCHANGED <<head, firstAvailable, evicted, cursor, accounted, stored, origin, restarts>>
    BY DEF CheckBoundary, network
  <1>2. Covers(cursor, accounted)' /\ Covers(stored.cursor, stored.accounted)'
    BY <1>1 DEF Covers, Tracked
  <1>3. CASE BoundaryAccepts
    <2>1. pc' = "commit" /\ UNCHANGED scan
      BY <1>3 DEF CheckBoundary
    <2>2. TypeOK'
      BY <1>1, <2>1 DEF TypeOK
    <2>3. PrunedIsKnown'
      <3>1. \A t \in Transaction : SlotOf[t] < firstAvailable => SlotOf[t] <= cursor
        BY <1>3, SlotType DEF BoundaryAccepts, TypeOK
      <3> QED
        BY <3>1, <1>1 DEF PrunedIsKnown, Tracked, Passed
    <2> QED
      BY <1>1, <1>2, <2>1, <2>2, <2>3
         DEF ScanIsComplete, ScanIsPlausible, Tracked, InScope, Floor, Available
  <1>4. CASE ~BoundaryAccepts
    <2>1. pc' = "idle" /\ scan' = NewScan(0)
      BY <1>4 DEF CheckBoundary, EndScan
    <2>2. TypeOK'
      BY <1>1, <2>1 DEF TypeOK, NewScan, Scan
    <2> QED
      BY <1>1, <1>2, <2>1, <2>2
         DEF PrunedIsKnown, Passed, Tracked, ScanIsComplete, ScanIsPlausible
  <1> QED
    BY <1>3, <1>4

\* What a commit moves the cursor past is old enough for every replica that
\* answered the scan, so the scan found it, or the endpoint pruned it before.
LEMMA CommitCovers ==
    ASSUME IInv, pc = "commit"
    PROVE  \A t \in Transaction :
             Tracked(t) /\ SlotOf[t] <= ReplayFloor(NextCursor, ReplayWindow)
                => t \in accounted \cup scan.found \cup evicted
  <1> SUFFICES ASSUME NEW t \in Transaction, Tracked(t),
                      SlotOf[t] <= ReplayFloor(NextCursor, ReplayWindow)
               PROVE  t \in accounted \cup scan.found \cup evicted
    OBVIOUS
  <1> USE DEF IInv
  <1>1. /\ NextCursor \in Nat /\ cursor \in Nat /\ firstAvailable \in Nat
        /\ scan \in Scan /\ origin \in Nat /\ SlotOf[t] \in Nat /\ SlotOf[t] > 0
    BY NextCursorType, SlotType DEF TypeOK, Tracked
  <1>2. SlotOf[t] + ReplayWindow <= NextCursor
    BY <1>1, FloorReach
  <1>3. CASE SlotOf[t] <= Floor
    BY <1>3 DEF Covers, Floor
  <1>4. CASE SlotOf[t] > Floor /\ Available(t)
    <2>1. ~(SlotOf[t] + ReplayWindow <= cursor)
      BY <1>1, <1>4, FloorReach, FloorIsSlot DEF Floor
    <2>2. NextCursor <= cursor \/ NextCursor <= scan.head + ReplicaLead
      BY <1>1, RoomAssumption DEF NextCursor, Larger, ScanIsPlausible, Scan
    <2>3. SlotOf[t] + ReplayWindow <= scan.head + ReplicaLead
      BY <2>1, <2>2, <1>1, <1>2, WindowAssumption, RoomAssumption DEF Scan
    <2>4. SlotOf[t] + IndexLag <= MinContextSlot(scan.head, ReplicaSkew, ReplayWindow)
      BY <2>3, <1>1, WindowLeavesRoom DEF Scan
    <2> QED
      BY <2>4, <1>4 DEF ScanIsComplete, InScope
  <1>5. CASE ~Available(t)
    <2>1. SlotOf[t] < firstAvailable
      BY <1>5, <1>1 DEF Available
    <2>2. SlotOf[t] <= Larger(cursor, NextCursor)
      BY <1>1, <1>2, WindowAssumption DEF Larger
    <2> QED
      BY <2>1, <2>2 DEF PrunedIsKnown, Passed
  <1> QED
    BY <1>1, <1>3, <1>4, <1>5, FloorIsSlot DEF Floor

LEMMA CommitScanPreserves == IInv /\ CommitScan => IInv'
  <1> SUFFICES ASSUME IInv, CommitScan PROVE IInv'
    OBVIOUS
  <1> USE DEF IInv
  <1>1. /\ pc = "commit" /\ pc' = "idle" /\ scan' = NewScan(0)
        /\ accounted' = accounted \cup scan.found /\ cursor' = NextCursor
        /\ UNCHANGED <<head, firstAvailable, evicted, stored, origin, restarts>>
    BY DEF CommitScan, EndScan, network
  <1>2. TypeOK'
    BY <1>1, NextCursorType DEF TypeOK, NewScan, Scan
  <1>3. Covers(cursor, accounted)'
    BY <1>1, CommitCovers DEF Covers, Tracked
  <1>4. Covers(stored.cursor, stored.accounted)' /\ (stored.accounted \subseteq accounted)'
    BY <1>1 DEF Covers, Tracked
  <1>5. PrunedIsKnown'
    <2>1. \A slot \in Nat : slot <= NextCursor => slot <= Larger(cursor, NextCursor)
      BY NextCursorType DEF TypeOK, Larger
    <2> QED
      BY <2>1, <1>1, SlotType DEF PrunedIsKnown, Tracked, Passed
  <1> QED
    BY <1>1, <1>2, <1>3, <1>4, <1>5 DEF ScanIsComplete, ScanIsPlausible

LEMMA CommitBlockedPreserves == IInv /\ CommitBlocked => IInv'
  <1> SUFFICES ASSUME IInv, CommitBlocked PROVE IInv'
    OBVIOUS
  <1> USE DEF IInv
  <1>1. /\ pc = "commit" /\ pc' = "idle" /\ scan' = NewScan(0)
        /\ accounted \subseteq accounted' /\ accounted' \subseteq accounted \cup scan.found
        /\ UNCHANGED <<head, firstAvailable, evicted, cursor, stored, origin, restarts>>
    BY DEF CommitBlocked, EndScan, network
  <1>2. TypeOK'
    BY <1>1 DEF TypeOK, NewScan, Scan
  <1>3. /\ Covers(cursor, accounted)' /\ Covers(stored.cursor, stored.accounted)'
        /\ (stored.accounted \subseteq accounted)'
    BY <1>1 DEF Covers, Tracked
  <1>4. PrunedIsKnown'
    <2>1. \A slot \in Nat : slot <= cursor => slot <= Larger(cursor, NextCursor)
      BY NextCursorType DEF TypeOK, Larger
    <2> QED
      BY <2>1, <1>1, SlotType DEF PrunedIsKnown, Tracked, Passed
  <1> QED
    BY <1>1, <1>2, <1>3, <1>4 DEF ScanIsComplete, ScanIsPlausible

LEMMA ScanFailsPreserves == IInv /\ ScanFails => IInv'
  <1> SUFFICES ASSUME IInv, ScanFails PROVE IInv'
    OBVIOUS
  <1> USE DEF IInv
  <1>1. /\ pc' = "idle" /\ scan' = NewScan(0)
        /\ UNCHANGED <<head, firstAvailable, evicted, cursor, accounted, stored, origin, restarts>>
    BY DEF ScanFails, EndScan, network
  <1>2. TypeOK'
    BY <1>1 DEF TypeOK, NewScan, Scan
  <1>3. Covers(cursor, accounted)' /\ Covers(stored.cursor, stored.accounted)'
    BY <1>1 DEF Covers, Tracked
  <1>4. PrunedIsKnown'
    <2>1. \A slot \in Nat : slot <= cursor => slot <= Larger(cursor, NextCursor)
      BY NextCursorType DEF TypeOK, Larger
    <2> QED
      BY <2>1, <1>1, SlotType DEF PrunedIsKnown, Tracked, Passed
  <1> QED
    BY <1>1, <1>2, <1>3, <1>4 DEF ScanIsComplete, ScanIsPlausible

LEMMA SaveCursorPreserves == IInv /\ SaveCursor => IInv'
  <1> SUFFICES ASSUME IInv, SaveCursor PROVE IInv'
    OBVIOUS
  <1> USE DEF IInv
  <1>1. /\ pc = "idle" /\ stored' = [cursor |-> cursor, accounted |-> accounted]
        /\ UNCHANGED <<head, firstAvailable, evicted, cursor, accounted, pc, scan, origin, restarts>>
    BY DEF SaveCursor, network
  <1>2. TypeOK'
    BY <1>1 DEF TypeOK
  <1>3. /\ Covers(cursor, accounted)' /\ Covers(stored.cursor, stored.accounted)'
        /\ (stored.accounted \subseteq accounted)'
    BY <1>1 DEF Covers, Tracked
  <1> QED
    BY <1>1, <1>2, <1>3
       DEF PrunedIsKnown, Tracked, Passed, ScanIsComplete, ScanIsPlausible

\* The rewound cursor is covered by the checkpoint alone, and so is everything the
\* endpoint has pruned below it.
LEMMA RestartPreserves == IInv /\ Restart => IInv'
  <1> SUFFICES ASSUME IInv, Restart PROVE IInv'
    OBVIOUS
  <1> USE DEF IInv
  <1>1. /\ pc' = "idle" /\ scan' = NewScan(0) /\ restarts' = restarts + 1
        /\ cursor' = ReplayFloor(stored.cursor, ReplayWindow)
        /\ stored.accounted \subseteq accounted' /\ accounted' \subseteq accounted
        /\ UNCHANGED <<head, firstAvailable, evicted, stored, origin>>
    BY DEF Restart, EndScan, network, ReplayFloor
  <1>2. stored.cursor \in Nat /\ cursor' \in Nat
    BY <1>1, FloorIsSlot DEF TypeOK
  <1>3. TypeOK'
    BY <1>1, <1>2 DEF TypeOK, NewScan, Scan
  <1>4. \A t \in Transaction :
          Tracked(t) /\ SlotOf[t] <= cursor' => t \in stored.accounted \cup evicted
    BY <1>1 DEF Covers
  <1>5. Covers(stored.cursor, stored.accounted)'
    BY <1>1 DEF Covers, Tracked
  <1>6. Covers(cursor, accounted)'
    <2>1. ReplayFloor(cursor', ReplayWindow) \in Nat /\ ReplayFloor(cursor', ReplayWindow) <= cursor'
      BY <1>2, FloorIsSlot
    <2>2. \A t \in Transaction :
            SlotOf[t] <= ReplayFloor(cursor', ReplayWindow) => SlotOf[t] <= cursor'
      BY <2>1, <1>2, SlotType
    <2> QED
      BY <2>2, <1>1, <1>4 DEF Covers, Tracked
  <1>7. PrunedIsKnown'
    BY <1>1, <1>4 DEF PrunedIsKnown, Tracked, Passed
  <1> QED
    BY <1>1, <1>3, <1>5, <1>6, <1>7 DEF ScanIsComplete, ScanIsPlausible

LEMMA StepPreserves == IInv /\ [Next]_vars => IInv'
  <1> SUFFICES ASSUME IInv, [Next]_vars PROVE IInv'
    OBVIOUS
  <1>1. CASE UNCHANGED vars
    BY <1>1 DEF vars, network, IInv, TypeOK, Covers, Tracked, PrunedIsKnown, Passed, NextCursor,
       ScanIsComplete, ScanIsPlausible, InScope, Available, Floor
  <1> QED
    BY <1>1, AdvanceHeadPreserves, PruneHistoryPreserves, BeginScanPreserves, FetchPagePreserves,
       CheckBoundaryPreserves, CommitScanPreserves, CommitBlockedPreserves, ScanFailsPreserves,
       SaveCursorPreserves, RestartPreserves DEF Next

LEMMA Invariance == Spec => []IInv
  BY InitEstablishes, StepPreserves, PTL DEF Spec

-------------------------------------------------------------------------------
(* The pages of a scan come to one look at the address. *)

\* A scan that is still reading pages has found nothing below the end of its last.
FoundAbovePageEnd ==
    pc = "page" => \A t \in scan.found : scan.before # Nothing /\ t >= scan.before

\* newest_slot, taken from the first entry kept, is the greatest slot of all.
NewestIsGreatest ==
    IF scan.found = {}
      THEN scan.newest = Nothing
      ELSE /\ \E t \in scan.found : scan.newest = SlotOf[t]
           /\ \A t \in scan.found : SlotOf[t] <= scan.newest

\* What the scan has found, some replica may show; the head it read was plausible
\* and has been reached.
ScanIsOneLook ==
    pc # "idle" =>
        /\ scan.head <= head
        /\ ~CursorAheadOfHead(cursor, scan.head, ReplayWindow)
        /\ \A t \in scan.found :
             SlotOf[t] > Floor /\ SlotOf[t] <= Smaller(head, scan.head + ReplicaLead)
        /\ FoundAbovePageEnd
        /\ NewestIsGreatest

\* What a FetchPage step reads and does, without the replica that answered.
LEMMA PageIsRead ==
    ASSUME TypeOK, FetchPage
    PROVE  \E page \in SUBSET Transaction, newest \in Nat \cup {Nothing} :
             /\ \A t \in page : /\ SlotOf[t] <= Smaller(head, scan.head + ReplicaLead)
                                /\ scan.before = Nothing \/ t < scan.before
             /\ IsNewest(newest, Kept(page))
             /\ AppendPage(page, newest)
  <1> DEFINE bound == MinContextSlot(scan.head, ReplicaSkew, ReplayWindow)
             top == Smaller(head, scan.head + ReplicaLead)
             answer(listing) == {t \in listing : scan.before = Nothing \/ t < scan.before}
  <1>1. PICK v \in bound .. top : \E listing \in Listings(v) :
          \E page \in SUBSET answer(listing),
             newest \in {SlotOf[t] : t \in answer(listing)} \cup {scan.newest} :
             IsPage(page, answer(listing)) /\ IsNewest(newest, Kept(page)) /\ AppendPage(page, newest)
    BY DEF FetchPage
  <1>2. PICK listing \in Listings(v) :
          \E page \in SUBSET answer(listing),
             newest \in {SlotOf[t] : t \in answer(listing)} \cup {scan.newest} :
             IsPage(page, answer(listing)) /\ IsNewest(newest, Kept(page)) /\ AppendPage(page, newest)
    BY <1>1
  <1>3. PICK page \in SUBSET answer(listing),
             newest \in {SlotOf[t] : t \in answer(listing)} \cup {scan.newest} :
             IsPage(page, answer(listing)) /\ IsNewest(newest, Kept(page)) /\ AppendPage(page, newest)
    BY <1>2
  <1>4. listing \subseteq Transaction /\ \A t \in listing : SlotOf[t] <= v
    BY <1>2 DEF Listings
  <1>5. page \subseteq listing /\ \A t \in page : scan.before = Nothing \/ t < scan.before
    BY <1>3
  <1>6. v \in Int /\ v <= top /\ top \in Int
    BY <1>1, RoomAssumption DEF TypeOK, Scan, MinContextSlot, SaturatingSub, Smaller
  <1>7. \A t \in page : SlotOf[t] <= top
    <2> HIDE DEF top
    <2> QED
      BY <1>4, <1>5, <1>6, SlotType
  <1>8. newest \in Nat \cup {Nothing}
    BY <1>3, <1>4, SlotType DEF TypeOK, Scan
  <1>9. page \in SUBSET Transaction
    BY <1>4, <1>5
  <1> HIDE DEF answer
  <1> QED
    BY <1>3, <1>5, <1>7, <1>8, <1>9

\* Each page lies below the ones before it: the newest entry stays the newest.
LEMMA FetchPageIsOneLook == IInv /\ ScanIsOneLook /\ FetchPage => ScanIsOneLook'
  <1> SUFFICES ASSUME IInv, ScanIsOneLook, FetchPage PROVE ScanIsOneLook'
    OBVIOUS
  <1>1. /\ pc = "page" /\ UNCHANGED <<head, cursor>>
    BY DEF FetchPage, network
  <1>2. PICK page \in SUBSET Transaction, newest \in Nat \cup {Nothing} :
             /\ \A t \in page : /\ SlotOf[t] <= Smaller(head, scan.head + ReplicaLead)
                                /\ scan.before = Nothing \/ t < scan.before
             /\ IsNewest(newest, Kept(page))
             /\ AppendPage(page, newest)
    BY PageIsRead DEF IInv
  <1>3. scan \in Scan /\ Kept(page) \subseteq page
    BY DEF IInv, TypeOK, Kept
  <1>4. /\ scan'.head = scan.head /\ scan'.newest = newest
        /\ scan'.found = scan.found \cup Kept(page)
        /\ pc' \in {"page", "boundary", "commit"}
    BY <1>1, <1>2, <1>3 DEF AppendPage, Scan
  <1>5. \A t \in scan'.found :
          SlotOf[t] > Floor /\ SlotOf[t] <= Smaller(head, scan.head + ReplicaLead)
    BY <1>1, <1>2, <1>3, <1>4 DEF ScanIsOneLook, Kept
  <1>6. FoundAbovePageEnd'
    <2> SUFFICES ASSUME pc' = "page", NEW t \in scan'.found
                 PROVE  scan'.before # Nothing /\ t >= scan'.before
      BY DEF FoundAbovePageEnd
    <2>1. PICK end \in page :
            /\ IsPageEnd(end, page)
            /\ scan' = [scan EXCEPT !.found = @ \cup page, !.newest = newest, !.before = end]
      BY <1>2 DEF AppendPage
    <2>2. scan'.before = end /\ end \in Nat /\ t \in Nat
      BY <2>1, <1>2, <1>3, <1>4, SlotType DEF Scan
    <2>3. t \in page \/ t \in scan.found
      BY <1>3, <1>4
    <2>4. CASE t \in page
      BY <2>1, <2>2, <2>4 DEF IsPageEnd, Nothing
    <2>5. CASE t \in scan.found
      <3>1. scan.before # Nothing /\ scan.before \in Nat /\ t >= scan.before
        BY <2>5, <1>1, <1>3 DEF ScanIsOneLook, FoundAbovePageEnd, Scan
      <3>2. end < scan.before
        BY <3>1, <1>2
      <3> QED
        BY <3>1, <3>2, <2>2 DEF Nothing
    <2> QED
      BY <2>3, <2>4, <2>5
  <1>7. NewestIsGreatest'
    <2>1. CASE scan.newest = Nothing
      <3>1. scan.found = {}
        BY <2>1, <1>1, <1>3, SlotType DEF ScanIsOneLook, NewestIsGreatest, Scan, Nothing
      <3>2. scan'.found = Kept(page)
        BY <3>1, <1>4
      <3>3. CASE Kept(page) = {}
        BY <3>2, <3>3, <2>1, <1>2, <1>4 DEF NewestIsGreatest, IsNewest
      <3>4. CASE Kept(page) # {}
        BY <3>2, <3>4, <2>1, <1>2, <1>4 DEF NewestIsGreatest, IsNewest
      <3> QED
        BY <3>3, <3>4
    <2>2. CASE scan.newest # Nothing
      <3>1. newest = scan.newest
        BY <2>2, <1>2 DEF IsNewest
      <3>2. PICK u \in scan.found : scan.newest = SlotOf[u] /\ \A t \in scan.found : SlotOf[t] <= scan.newest
        BY <2>2, <1>1 DEF ScanIsOneLook, NewestIsGreatest
      <3>3. /\ u \in Transaction /\ u \in Nat /\ scan.before \in Nat /\ u >= scan.before
            /\ scan.before # Nothing
        BY <1>1, <1>3, <3>2, SlotType DEF ScanIsOneLook, FoundAbovePageEnd, Scan
      <3>4. ASSUME NEW t \in page PROVE SlotOf[t] <= newest
        <4>1. t < scan.before
          BY <3>3, <1>2
        <4>2. t \in Transaction /\ t \in Nat /\ SlotOf[t] \in Nat
          BY SlotType
        <4>3. t < u
          BY <4>1, <4>2, <3>3
        <4> QED
          BY <4>2, <4>3, <3>1, <3>2, <3>3, TransactionAssumption
      <3>5. \A t \in scan'.found : SlotOf[t] <= newest
        BY <3>1, <3>2, <3>4, <1>3, <1>4
      <3>6. u \in scan'.found
        BY <1>4
      <3> QED
        BY <3>1, <3>2, <3>5, <3>6, <1>4 DEF NewestIsGreatest
    <2> QED
      BY <2>1, <2>2
  <1> QED
    BY <1>1, <1>4, <1>5, <1>6, <1>7 DEF ScanIsOneLook, Floor

LEMMA StepIsOneLook == IInv /\ ScanIsOneLook /\ [Next]_vars => ScanIsOneLook'
  <1> SUFFICES ASSUME IInv, ScanIsOneLook, [Next]_vars, pc' # "idle" PROVE ScanIsOneLook'
    BY DEF ScanIsOneLook
  <1>1. CASE AdvanceHead
    <2>1. /\ head' = head + 1 /\ head \in Nat /\ ReplicaLead \in Nat /\ scan \in Scan
          /\ UNCHANGED <<cursor, pc, scan>>
      BY <1>1, RoomAssumption DEF AdvanceHead, IInv, TypeOK
    <2>2. \A s \in Nat : s <= Smaller(head, scan.head + ReplicaLead)
                           => s <= Smaller(head', scan.head + ReplicaLead)
      BY <2>1 DEF Smaller, Scan
    <2>3. \A t \in scan.found : SlotOf[t] \in Nat
      BY <2>1, SlotType DEF Scan
    <2>4. scan.head <= head => scan.head <= head'
      BY <2>1 DEF Scan
    <2> QED
      BY <2>1, <2>2, <2>3, <2>4
         DEF ScanIsOneLook, FoundAbovePageEnd, NewestIsGreatest, Floor
  <1>2. CASE PruneHistory \/ UNCHANGED vars
    <2>1. UNCHANGED <<head, cursor, pc, scan>>
      BY <1>2 DEF PruneHistory, vars, network
    <2> QED
      BY <2>1 DEF ScanIsOneLook, FoundAbovePageEnd, NewestIsGreatest, Floor
  <1>3. CASE BeginScan
    <2>1. PICK h \in 0..head : ~CursorAheadOfHead(cursor, h, ReplayWindow) /\ scan' = NewScan(h)
      BY <1>3 DEF BeginScan
    <2>2. UNCHANGED <<head, cursor>> /\ head \in Nat
      BY <1>3 DEF BeginScan, network, IInv, TypeOK
    <2> QED
      BY <2>1, <2>2 DEF ScanIsOneLook, FoundAbovePageEnd, NewestIsGreatest, NewScan
  <1>4. CASE FetchPage
    BY <1>4, FetchPageIsOneLook
  <1>5. CASE CheckBoundary
    <2>1. /\ pc = "boundary" /\ pc' = "commit" /\ UNCHANGED <<head, cursor, scan>>
      BY <1>5 DEF CheckBoundary, EndScan, network
    <2> QED
      BY <2>1 DEF ScanIsOneLook, FoundAbovePageEnd, NewestIsGreatest, Floor
  <1>6. CASE CommitScan \/ CommitBlocked \/ ScanFails \/ SaveCursor \/ Restart
    BY <1>6 DEF CommitScan, CommitBlocked, ScanFails, SaveCursor, Restart, EndScan
  <1> QED
    BY <1>1, <1>2, <1>3, <1>4, <1>5, <1>6 DEF Next

\* The abstract scan reckons slots as the poll does.
LEMMA SameArithmetic ==
    /\ \A a, b : /\ AtOnce!Larger(a, b) = Larger(a, b)
                 /\ AtOnce!Smaller(a, b) = Smaller(a, b)
                 /\ AtOnce!SaturatingSub(a, b) = SaturatingSub(a, b)
                 /\ AtOnce!ReplayFloor(a, b) = ReplayFloor(a, b)
    /\ \A h, skew, window :
         /\ AtOnce!MinContextSlot(h, skew, window) = MinContextSlot(h, skew, window)
         /\ AtOnce!CursorAheadOfHead(h, skew, window) = CursorAheadOfHead(h, skew, window)
  BY DEF AtOnce!Larger, Larger, AtOnce!Smaller, Smaller, AtOnce!SaturatingSub, SaturatingSub,
     AtOnce!ReplayFloor, ReplayFloor, AtOnce!MinContextSlot, MinContextSlot,
     AtOnce!CursorAheadOfHead, CursorAheadOfHead

\* The running maximum of newest_slot is the maximum of what was found.
LEMMA CursorFollowsFound ==
    ASSUME IInv, ScanIsOneLook, pc = "commit"
    PROVE  NextCursor = AtOnce!CursorAfterScan(cursor, scan.head, scan.found)
  <1> DEFINE slots == {SlotOf[t] : t \in scan.found}
  <1>1. scan \in Scan /\ NewestIsGreatest
    BY DEF IInv, TypeOK, ScanIsOneLook
  <1>2. CASE scan.found = {}
    BY <1>1, <1>2, SameArithmetic DEF NextCursor, NewestIsGreatest, AtOnce!CursorAfterScan
  <1>3. CASE scan.found # {}
    <2>1. scan.newest \in slots /\ slots \subseteq Nat /\ \A s \in slots : s <= scan.newest
      BY <1>1, <1>3, SlotType DEF NewestIsGreatest, Scan
    <2>2. scan.newest \in Nat /\ scan.newest # Nothing
      BY <2>1 DEF Nothing
    <2>3. AtOnce!Max(slots) = scan.newest
      <3> HIDE DEF slots
      <3>1. AtOnce!Max(slots) \in slots /\ \A y \in slots : AtOnce!Max(slots) >= y
        <4>1. \E x \in slots : \A y \in slots : x >= y
          BY <2>1
        <4> QED
          BY <4>1 DEF AtOnce!Max
      <3>2. ASSUME NEW m \in slots, \A y \in slots : m >= y PROVE m = scan.newest
        <4>1. m \in Nat /\ scan.newest \in Nat /\ m <= scan.newest /\ m >= scan.newest
          BY <2>1, <3>2
        <4> QED
          BY <4>1
      <3> QED
        BY <3>1, <3>2
    <2>4. AtOnce!CursorAfterScan(cursor, scan.head, scan.found)
            = Larger(scan.head, IF scan.found = {} THEN cursor ELSE AtOnce!Max(slots))
      BY SameArithmetic DEF AtOnce!CursorAfterScan
    <2> HIDE DEF slots
    <2> QED
      BY <2>2, <2>3, <2>4, <1>3 DEF NextCursor
  <1> QED
    BY <1>2, <1>3

\* At its end a scan has found all it had to and nothing it could not.
LEMMA CommitFinds ==
    ASSUME IInv, ScanIsOneLook, pc = "commit"
    PROVE  AtOnce!Finds(scan.head, scan.found)
  <1>1. scan.found \subseteq Transaction
    BY DEF IInv, TypeOK, Scan
  <1>2. AtOnce!MustFind(AtOnce!Available, cursor, scan.head) \subseteq scan.found
    BY SameArithmetic
       DEF AtOnce!MustFind, AtOnce!Available, AtOnce!AboveFloor, IInv, ScanIsComplete,
       InScope, Available, Floor
  <1>3. scan.found \subseteq AtOnce!MayFind(Transaction, cursor, scan.head, head)
    BY <1>1, SameArithmetic DEF AtOnce!MayFind, AtOnce!AboveFloor, ScanIsOneLook, Floor
  <1> QED
    BY <1>2, <1>3, SameArithmetic DEF AtOnce!Finds, ScanIsOneLook

LEMMA StepIsAtOnce == IInv /\ ScanIsOneLook /\ [Next]_vars => [AtOnce!Next]_(AtOnce!vars)
  <1> SUFFICES ASSUME IInv, ScanIsOneLook, [Next]_vars PROVE [AtOnce!Next]_(AtOnce!vars)
    OBVIOUS
  <1>1. CASE AdvanceHead \/ PruneHistory
    <2>1. AtOnce!Age
      BY <1>1 DEF AdvanceHead, PruneHistory, AtOnce!Age, IInv, TypeOK
    <2> QED
      BY <2>1 DEF AtOnce!Next
  <1>2. CASE BeginScan \/ FetchPage \/ CheckBoundary \/ ScanFails \/ UNCHANGED vars
    BY <1>2 DEF BeginScan, FetchPage, CheckBoundary, ScanFails, vars, network, AtOnce!vars
  <1>3. CASE CommitScan
    <2>1. pc = "commit" /\ scan.found \in SUBSET Transaction /\ scan.head \in 0..head
      BY <1>3 DEF CommitScan, IInv, TypeOK, Scan, ScanIsOneLook
    <2>2. AtOnce!Scan
      BY <1>3, <2>1, CommitFinds, CursorFollowsFound DEF CommitScan, network, AtOnce!Scan
    <2> QED
      BY <2>2 DEF AtOnce!Next
  <1>4. CASE CommitBlocked
    <2>1. pc = "commit" /\ scan.found \in SUBSET Transaction /\ scan.head \in 0..head
      BY <1>4 DEF CommitBlocked, IInv, TypeOK, Scan, ScanIsOneLook
    <2>2. AtOnce!ScanBlocked
      BY <1>4, <2>1, CommitFinds DEF CommitBlocked, network, AtOnce!ScanBlocked
    <2> QED
      BY <2>2 DEF AtOnce!Next
  <1>5. CASE SaveCursor
    <2>1. AtOnce!Save
      BY <1>5 DEF SaveCursor, network, AtOnce!Save
    <2> QED
      BY <2>1 DEF AtOnce!Next
  <1>6. CASE Restart
    <2>1. AtOnce!Restart
      BY <1>6, SameArithmetic DEF Restart, network, AtOnce!Restart, IInv
    <2> QED
      BY <2>1 DEF AtOnce!Next
  <1> QED
    BY <1>1, <1>2, <1>3, <1>4, <1>5, <1>6 DEF Next

-------------------------------------------------------------------------------
(* The results. *)

\* Every state of the scan is well typed, whatever the ledger and the endpoint.
THEOREM TypeCorrect == Spec => []TypeOK
  BY Invariance, PTL DEF IInv

\* The margin of min_context_slot suffices: whatever a later scan can no longer
\* list was found, or the endpoint pruned it after the cursor had passed it, across
\* lagging replicas, failed and blocked polls, saves and restarts.
THEOREM Coverage == Spec => []NothingOutOfReachIsMissed
  <1>1. IInv => NothingOutOfReachIsMissed
    BY DEF IInv, Covers, Tracked, NothingOutOfReachIsMissed, OutOfReach, Floor
  <1> QED
    BY <1>1, Invariance, PTL

\* A cursor falls only to a slot the scan listed, and a scan lists nothing at or
\* below its floor.
THEOREM BoundedRegression == Spec => CursorRegressesLessThanOneWindow
  <1> DEFINE Step == restarts' = restarts => cursor' > cursor - ReplayWindow
  <1>1. IInv /\ [Next]_vars => [Step]_vars
    <2> SUFFICES ASSUME IInv, Next, restarts' = restarts PROVE cursor' > cursor - ReplayWindow
      OBVIOUS
    <2>1. cursor \in Nat /\ restarts \in Nat /\ ReplayWindow \in Nat /\ ReplayWindow > 0
      BY WindowAssumption DEF IInv, TypeOK
    <2>2. CASE CommitScan
      <3>1. pc = "commit" /\ cursor' = NextCursor /\ scan \in Scan
        BY <2>2 DEF CommitScan, IInv, TypeOK
      <3>2. CASE scan.newest = Nothing
        BY <3>1, <3>2, <2>1 DEF NextCursor, Larger, Scan
      <3>3. CASE scan.newest # Nothing
        <4>1. scan.newest \in Nat /\ scan.newest > Floor /\ Floor >= cursor - ReplayWindow
              /\ Floor \in Nat
          BY <3>1, <3>3, <2>1 DEF IInv, ScanIsPlausible, Scan, Floor, ReplayFloor, SaturatingSub
        <4>2. cursor' >= scan.newest /\ cursor' \in Nat
          BY <3>1, <3>3, <4>1 DEF NextCursor, Larger, Scan
        <4> QED
          BY <4>1, <4>2, <2>1
      <3> QED
        BY <3>2, <3>3
    <2>3. CASE Restart
      BY <2>3, <2>1 DEF Restart
    <2>4. CASE ~CommitScan /\ ~Restart
      <3>1. cursor' = cursor
        BY <2>4 DEF Next, AdvanceHead, PruneHistory, BeginScan, FetchPage, CheckBoundary,
           CommitBlocked, ScanFails, SaveCursor
      <3> QED
        BY <3>1, <2>1
    <2> QED
      BY <2>2, <2>3, <2>4
  <1> QED
    BY <1>1, Invariance, PTL DEF Spec, CursorRegressesLessThanOneWindow

\* Page by page, from lagging and leading replicas, while the ledger grows and its
\* history is pruned, a scan is one look at the address: all that no replica may omit,
\* nothing that none can show, and the cursor at the newest slot found.
THEOREM ScansAtOnce == Spec => ImplementsScanAtOnce
  <1>1. Init => AtOnce!Init
    <2> SUFFICES ASSUME Init PROVE AtOnce!Init
      OBVIOUS
    <2>1. TypeOK
      BY InitEstablishes DEF IInv
    <2> QED
      BY <2>1, SameArithmetic DEF Init, TypeOK, AtOnce!Init
  <1>2. Init => ScanIsOneLook
    BY DEF Init, ScanIsOneLook
  <1> QED
    BY <1>1, <1>2, Invariance, StepIsOneLook, StepIsAtOnce, PTL
       DEF Spec, ImplementsScanAtOnce, AtOnce!Spec
===============================================================================
