--------------------------- MODULE CheckoutProofs ---------------------------
(***************************************************************************)
(* Proofs, for all values of the constants, of properties of               *)
(* CheckoutSafety that hold under any overlap of sessions.                 *)
(***************************************************************************)
EXTENDS CheckoutSafety, TLAPS

-----------------------------------------------------------------------------
(* Type correctness. *)

\* The steps that work on the item the session's loop is at.
ItemSteps ==
    {"addItem", "hold", "loadItem", "reserve", "compensate", "confirmItem", "release"}

\* Session c has a reservation whenever it is in a handler, and an item
\* whenever it is inside a loop.
OnCourse(c) ==
    /\ pc[c] \notin {"idle", "done"} => target[c] \in Reservations
    /\ pc[c] \in ItemSteps => at[c] \in Items

TypeInv == TypeOK /\ \A c \in Sessions : OnCourse(c)

USE DEF Sessions, Rows, database, locks, memory, cursor, outside

LEMMA RowTypes ==
    /\ NoResv \in ResvRow /\ NoItem \in ItemRow /\ NoStock \in StockRow
    /\ \A n \in Int, s \in StockRow :
          /\ HoldLocked(s, n) \in StockRow
          /\ ReleaseHold(s, n) \in StockRow
          /\ ConsumeHold(s, n) \in StockRow
  <1>1. NoResv \in ResvRow /\ NoItem \in ItemRow /\ NoStock \in StockRow
      BY DEF NoResv, ResvRow, NoItem, ItemRow, NoStock, FreshStock, StockRow
  <1>2. ASSUME NEW n \in Int, NEW s \in StockRow
        PROVE  /\ HoldLocked(s, n) \in StockRow
               /\ ReleaseHold(s, n) \in StockRow
               /\ ConsumeHold(s, n) \in StockRow
      BY DEF StockRow, HoldLocked, ReleaseHold, ConsumeHold
  <1> QED BY <1>1, <1>2

LEMMA InitType == Init => TypeInv
  <1> SUFFICES ASSUME Init PROVE TypeInv
      OBVIOUS
  <1>1. DatabaseOK
      BY RowTypes, CheckoutAssumption DEF Init, DatabaseOK, FreshStock, StockRow
  <1>2. LocksOK /\ CursorOK
      BY DEF Init, LocksOK, CursorOK
  <1>3. MemoryOK
      BY RowTypes DEF Init, MemoryOK
  <1>4. OutsideOK
      BY DEF Init, OutsideOK
  <1>5. /\ pc \in [Sessions -> Steps]
        /\ allConfirmed \in [Sessions -> BOOLEAN]
        /\ result \in [Sessions -> Answers]
      BY DEF Init, Steps, Answers
  <1>6. \A c \in Sessions : OnCourse(c)
      BY DEF Init, OnCourse, ItemSteps
  <1> QED BY <1>1, <1>2, <1>3, <1>4, <1>5, <1>6 DEF TypeInv, TypeOK

\* What each building block of the actions leaves well typed.
LEMMA EndTransactionType ==
    ASSUME TypeOK, NEW c \in Sessions, EndTransaction(c)
    PROVE  LocksOK' /\ MemoryOK'
  BY RowTypes DEF TypeOK, EndTransaction, LocksOK, MemoryOK

LEMMA CommitType ==
    ASSUME TypeOK, NEW c \in Sessions, NEW n \in [Reservations -> ResvRow], Commit(c, n)
    PROVE  DatabaseOK' /\ LocksOK' /\ MemoryOK'
  <1>1. LocksOK' /\ MemoryOK'
      BY EndTransactionType DEF Commit
  <1>2. \A i \in Items : FlushedItem(c, i) \in ItemRow
      BY DEF TypeOK, MemoryOK, DatabaseOK, FlushedItem, ItemRow
  <1>3. DatabaseOK'
      BY <1>2 DEF TypeOK, DatabaseOK, MemoryOK, Commit
  <1> QED BY <1>1, <1>3

LEMMA LeaveType ==
    ASSUME TypeInv, NEW c \in Sessions, NEW res \in Answers, Leave(c, res)
    PROVE  /\ CursorOK' /\ pc' \in [Sessions -> Steps]
           /\ allConfirmed' \in [Sessions -> BOOLEAN]
           /\ result' \in [Sessions -> Answers]
           /\ \A d \in Sessions : OnCourse(d)'
  <1>1. CursorOK'
      BY DEF TypeInv, TypeOK, CursorOK, Leave
  <1>2. /\ pc' \in [Sessions -> Steps]
        /\ allConfirmed' \in [Sessions -> BOOLEAN]
        /\ result' \in [Sessions -> Answers]
      BY DEF TypeInv, TypeOK, Leave, Steps, Answers
  <1>3. ASSUME NEW d \in Sessions PROVE OnCourse(d)'
    <2>1. CASE d = c
        BY <2>1 DEF TypeInv, TypeOK, Leave, OnCourse, ItemSteps
    <2>2. CASE d # c
        BY <2>2 DEF TypeInv, TypeOK, CursorOK, Leave, OnCourse, ItemSteps
    <2> QED BY <2>1, <2>2
  <1> QED BY <1>1, <1>2, <1>3

LEMMA RollbackType ==
    ASSUME TypeInv, NEW c \in Sessions, NEW res \in Answers, Rollback(c, res), OutsideOK'
    PROVE  TypeInv'
  <1>1. LocksOK' /\ MemoryOK'
      BY EndTransactionType DEF Rollback, TypeInv
  <1>2. DatabaseOK'
      BY DEF Rollback, database, DatabaseOK, TypeInv, TypeOK
  <1> QED BY <1>1, <1>2, LeaveType DEF TypeInv, TypeOK, Rollback

\* A step of a loop, in a session that stays on its reservation.
LEMMA VisitType ==
    ASSUME TypeInv, NEW c \in Sessions, NEW S \in SUBSET Items, NEW next \in SUBSET S,
           NEW body \in Steps \ {"idle"}, NEW after \in Steps \ ItemSteps,
           Visit(c, S, next, body, after),
           pc[c] \notin {"idle", "done"}, target' = target, batch' = batch
    PROVE  /\ pc' \in [Sessions -> Steps]
           /\ CursorOK'
           /\ \A d \in Sessions : OnCourse(d)'
  <1>0. target[c] \in Reservations
      BY DEF TypeInv, OnCourse
  <1>1. CASE S = {} /\ at' = [at EXCEPT ![c] = None] /\ Goto(c, after)
    <2>1. pc' \in [Sessions -> Steps] /\ CursorOK'
        BY <1>1 DEF TypeInv, TypeOK, CursorOK, Visit, Goto
    <2>2. \A d \in Sessions : OnCourse(d)'
        BY <1>0, <1>1 DEF TypeInv, TypeOK, CursorOK, Goto, OnCourse
    <2> QED BY <2>1, <2>2
  <1>2. CASE \E i \in next : at' = [at EXCEPT ![c] = i] /\ Goto(c, body)
    <2>1. pc' \in [Sessions -> Steps] /\ CursorOK'
        BY <1>2 DEF TypeInv, TypeOK, CursorOK, Visit, Goto
    <2>2. \A d \in Sessions : OnCourse(d)'
        BY <1>0, <1>2 DEF TypeInv, TypeOK, CursorOK, Goto, OnCourse
    <2> QED BY <2>1, <2>2
  <1> QED BY <1>1, <1>2 DEF Visit

\* A step straight on, in a session that stays on its reservation.
LEMMA GotoType ==
    ASSUME TypeInv, NEW c \in Sessions, NEW step \in Steps, Goto(c, step),
           pc[c] \notin {"idle", "done"}, target' = target, at' = at,
           step \in ItemSteps => pc[c] \in ItemSteps
    PROVE  /\ pc' \in [Sessions -> Steps]
           /\ \A d \in Sessions : OnCourse(d)'
  BY DEF TypeInv, TypeOK, CursorOK, Goto, OnCourse

LEMMA MemStockType ==
    ASSUME TypeOK, NEW c \in Sessions, NEW p \in Products
    PROVE  MemStock(c, p) \in StockRow
  BY DEF TypeOK, DatabaseOK, MemoryOK, MemStock

LEMMA LockStockType ==
    ASSUME TypeOK, NEW c \in Sessions, NEW p \in Products, NEW s \in StockRow,
           LockStock(c, p, s)
    PROVE  /\ holder' \in [Rows -> Sessions \cup {None}]
           /\ inv' \in [Sessions -> [Products -> StockRow]]
           /\ touched' \in [Sessions -> SUBSET Products]
  BY DEF TypeOK, LocksOK, MemoryOK, LockStock

LEMMA WriteItemType ==
    ASSUME TypeOK, NEW c \in Sessions, NEW i \in Items, NEW r \in ItemRow, WriteItem(c, i, r)
    PROVE  /\ attrs' \in [Sessions -> [Items -> ItemRow]]
           /\ dirty' \in [Sessions -> SUBSET Items]
  BY DEF TypeOK, MemoryOK, WriteItem

\* The provider's side of a hold after each call.
LEMMA UpstreamType ==
    ASSUME TypeOK, NEW i \in Items
    PROVE  /\ UpstreamReserved(i) \in [Refs -> {"none", "held", "confirmed", "released"}]
           /\ Fault => faults' \in Nat
           /\ \A c \in Sessions :
                 /\ UpstreamConfirmed(c, i) =>
                        upstream' \in [Refs -> {"none", "held", "confirmed", "released"}]
                 /\ UpstreamReleased(c, i) =>
                        /\ upstream' \in [Refs -> {"none", "held", "confirmed", "released"}]
                        /\ faults' \in Nat
  BY CheckoutAssumption
     DEF TypeOK, OutsideOK, UpstreamReserved, Fault, UpstreamConfirmed, UpstreamReleased

\* What a step on an item can count on.
LEMMA AtItem ==
    ASSUME TypeInv, NEW c \in Sessions, pc[c] \in ItemSteps
    PROVE  /\ at[c] \in Items
           /\ ProductOf[at[c]] \in Products
           /\ Qty[at[c]] \in Nat /\ Qty[at[c]] \in Int
           /\ MemStock(c, ProductOf[at[c]]) \in StockRow
           /\ pc[c] \notin {"idle", "done"} /\ target[c] \in Reservations
  <1>1. at[c] \in Items
      BY DEF TypeInv, OnCourse
  <1>2. ProductOf[at[c]] \in Products
      BY <1>1, CheckoutAssumption
  <1>3. Qty[at[c]] \in Nat /\ Qty[at[c]] \in Int
    <2> DEFINE q == Qty[at[c]]
    <2>1. Qty \in [Items -> Nat \ {0}]
        BY CheckoutAssumption
    <2>2. q \in Nat \ {0}
        BY <1>1, <2>1
    <2> HIDE DEF q
    <2>3. q \in Nat /\ q \in Int
        BY <2>2
    <2> QED BY <2>3 DEF q
  <1>4. pc[c] \notin {"idle", "done"} /\ target[c] \in Reservations
      BY DEF TypeInv, OnCourse, ItemSteps
  <1>5. MemStock(c, ProductOf[at[c]]) \in StockRow
      BY <1>2, MemStockType DEF TypeInv
  <1> QED BY <1>1, <1>2, <1>3, <1>4, <1>5

\* create_reservation, up to the first commit.
LEMMA CreateLocalType ==
    ASSUME TypeInv, NEW c \in Sessions,
           \/ \E r \in Reservations : CreateFind(c, r)
           \/ CreateInsert(c) \/ CreateAddItem(c) \/ CreateHold(c) \/ CreateCommitLocal(c)
    PROVE  TypeInv'
  <1>1. ASSUME NEW r \in Reservations, CreateFind(c, r) PROVE TypeInv'
    <2>1. CursorOK' /\ target'[c] = r
        BY <1>1 DEF CreateFind, TypeInv, TypeOK, CursorOK
    <2>2. /\ pc' \in [Sessions -> Steps]
          /\ pc'[c] \in {"insert", "done"}
          /\ \A d \in Sessions \ {c} : pc'[d] = pc[d]
          /\ result' \in [Sessions -> Answers]
        BY <1>1 DEF CreateFind, TypeInv, TypeOK, Goto, Steps, Answers
    <2>3. \A d \in Sessions : OnCourse(d)'
        BY <1>1, <2>1, <2>2 DEF CreateFind, TypeInv, TypeOK, CursorOK, OnCourse, ItemSteps
    <2> QED BY <1>1, <2>1, <2>2, <2>3
            DEF CreateFind, TypeInv, TypeOK, DatabaseOK, LocksOK, MemoryOK, OutsideOK
  <1>2. CASE CreateInsert(c)
    <2> DEFINE r == target[c]
    <2>1. r \in Reservations
        BY <1>2 DEF CreateInsert, TypeInv, OnCourse
    <2>2. OutsideOK'
        BY <1>2 DEF CreateInsert, TypeInv, TypeOK, OutsideOK
    <2>3. CASE Rollback(c, "integrityError")
        BY <2>2, <2>3, RollbackType DEF Answers
    <2>4. CASE /\ holder' = [holder EXCEPT ![r] = c]
               /\ Visit(c, Cart(r), FirstOf(Cart(r)), "addItem", "commitLocal")
               /\ UNCHANGED <<database, sharer, target, batch, memory, allConfirmed, result>>
      <3>1. /\ pc' \in [Sessions -> Steps] /\ CursorOK'
            /\ \A d \in Sessions : OnCourse(d)'
          BY <1>2, <2>4, VisitType DEF CreateInsert, Steps, ItemSteps, Cart, FirstOf
      <3> QED BY <2>1, <2>2, <2>4, <3>1
              DEF TypeInv, TypeOK, DatabaseOK, LocksOK, MemoryOK
    <2> QED BY <1>2, <2>3, <2>4 DEF CreateInsert
  <1>3. CASE CreateAddItem(c)
    <2> DEFINE i == at[c]
    <2>1. i \in Items /\ ProductOf[i] \in Products
        BY <1>3, AtItem DEF CreateAddItem, ItemSteps
    <2>2. attrs' \in [Sessions -> [Items -> ItemRow]] /\ dirty' \in [Sessions -> SUBSET Items]
        BY <1>3, <2>1, WriteItemType DEF CreateAddItem, TypeInv, ItemRow, ItemStatus
    <2>3. pc' \in [Sessions -> Steps] /\ \A d \in Sessions : OnCourse(d)'
        BY <1>3, GotoType DEF CreateAddItem, Steps, ItemSteps
    <2> QED BY <1>3, <2>1, <2>2, <2>3
            DEF CreateAddItem, TypeInv, TypeOK, DatabaseOK, LocksOK, CursorOK, MemoryOK, OutsideOK
  <1>4. CASE CreateHold(c)
    <2> DEFINE i == at[c]
               p == ProductOf[i]
               s == MemStock(c, p)
               rest == todo[c] \ {i}
    <2>1. i \in Items /\ p \in Products /\ Qty[i] \in Int /\ s \in StockRow
        BY <1>4, AtItem DEF CreateHold, ItemSteps
    <2>2. OutsideOK'
        BY <1>4 DEF CreateHold, TypeInv, TypeOK, OutsideOK
    <2>3. CASE Rollback(c, "failed")
        BY <2>2, <2>3, RollbackType DEF Answers
    <2>4. CASE /\ LockStock(c, p, HoldLocked(s, Qty[i]))
               /\ Visit(c, rest, FirstOf(rest), "addItem", "commitLocal")
               /\ UNCHANGED <<database, sharer, target, batch, row, attrs, dirty,
                              allConfirmed, result>>
      <3>1. /\ pc' \in [Sessions -> Steps] /\ CursorOK'
            /\ \A d \in Sessions : OnCourse(d)'
        <4>1. rest \in SUBSET Items /\ FirstOf(rest) \in SUBSET rest
            BY DEF TypeInv, TypeOK, CursorOK, FirstOf
        <4> QED BY <1>4, <2>4, <4>1, VisitType DEF CreateHold, Steps, ItemSteps
      <3>2. HoldLocked(s, Qty[i]) \in StockRow
          BY <2>1, RowTypes
      <3>3. /\ holder' \in [Rows -> Sessions \cup {None}]
            /\ inv' \in [Sessions -> [Products -> StockRow]]
            /\ touched' \in [Sessions -> SUBSET Products]
          BY <2>1, <2>4, <3>2, LockStockType DEF TypeInv
      <3> QED BY <2>2, <2>4, <3>1, <3>3
              DEF TypeInv, TypeOK, DatabaseOK, LocksOK, MemoryOK
    <2> QED BY <1>4, <2>3, <2>4 DEF CreateHold
  <1>5. CASE CreateCommitLocal(c)
    <2> DEFINE r == target[c]
               n == [resv EXCEPT ![r] = [status |-> "PENDING_LOCAL", version |-> 1]]
    <2>1. n \in [Reservations -> ResvRow]
        BY DEF TypeInv, TypeOK, DatabaseOK, ResvRow, ResvStatus
    <2>2. DatabaseOK' /\ LocksOK' /\ MemoryOK'
        BY <1>5, <2>1, CommitType DEF CreateCommitLocal, TypeInv
    <2>3. /\ pc' \in [Sessions -> Steps] /\ CursorOK'
          /\ \A d \in Sessions : OnCourse(d)'
        BY <1>5, VisitType DEF CreateCommitLocal, Steps, ItemSteps, Cart, FirstOf
    <2> QED BY <1>5, <2>2, <2>3 DEF CreateCommitLocal, TypeInv, TypeOK, OutsideOK
  <1> QED BY <1>1, <1>2, <1>3, <1>4, <1>5

LEMMA NextUpstreamType ==
    ASSUME TypeInv, NEW c \in Sessions, NEW mem, NextUpstream(c, mem),
           pc[c] \notin {"idle", "done"}, target' = target, batch' = batch
    PROVE  /\ pc' \in [Sessions -> Steps]
           /\ CursorOK'
           /\ \A d \in Sessions : OnCourse(d)'
  <1> DEFINE rest == todo[c] \ {at[c]}
             cart == Cart(target[c])
             held == {i \in cart : mem[i].status \in Holding}
  <1>1. /\ rest \in SUBSET Items /\ FirstOf(rest) \in SUBSET rest
        /\ held \in SUBSET Items /\ FirstOf(held) \in SUBSET held
      BY DEF TypeInv, TypeOK, CursorOK, FirstOf, Cart
  <1>2. CASE Visit(c, rest, FirstOf(rest), "loadItem", "markPending")
      BY <1>1, <1>2, VisitType DEF Steps, ItemSteps
  <1>3. CASE Visit(c, held, FirstOf(held), "compensate", "markCancelled")
      BY <1>1, <1>3, VisitType DEF Steps, ItemSteps
  <1>4. CASE Visit(c, {}, {}, "loadItem", "markPending")
      BY <1>4, VisitType DEF Steps, ItemSteps
  <1> QED BY <1>2, <1>3, <1>4 DEF NextUpstream

LEMMA ItemSetType ==
    ASSUME TypeInv, NEW c \in Sessions, NEW i \in Items, NEW new \in ItemStatus
    PROVE  [attrs[c][i] EXCEPT !.status = new] \in ItemRow
  <1>1. attrs[c][i] \in ItemRow
      BY DEF TypeInv, TypeOK, MemoryOK
  <1>2. \A r \in ItemRow : [r EXCEPT !.status = new] \in ItemRow
      BY DEF ItemRow
  <1> QED BY <1>1, <1>2

\* One round of a loop that releases items.
LEMMA ReleaseItemType ==
    ASSUME TypeInv, NEW c \in Sessions, pc[c] \in ItemSteps, ReleaseItem(c, at[c])
    PROVE  /\ holder' \in [Rows -> Sessions \cup {None}]
           /\ inv' \in [Sessions -> [Products -> StockRow]]
           /\ touched' \in [Sessions -> SUBSET Products]
           /\ attrs' \in [Sessions -> [Items -> ItemRow]]
           /\ dirty' \in [Sessions -> SUBSET Items]
           /\ upstream' \in [Refs -> {"none", "held", "confirmed", "released"}]
           /\ faults' \in Nat
  <1> DEFINE i == at[c]
             p == ProductOf[i]
             s == MemStock(c, p)
  <1>1. i \in Items /\ p \in Products /\ Qty[i] \in Int /\ s \in StockRow
      BY AtItem
  <1>2. ReleaseHold(s, Qty[i]) \in StockRow
      BY <1>1, RowTypes
  <1>3. /\ holder' \in [Rows -> Sessions \cup {None}]
        /\ inv' \in [Sessions -> [Products -> StockRow]]
        /\ touched' \in [Sessions -> SUBSET Products]
      BY <1>1, <1>2, LockStockType DEF ReleaseItem, TypeInv
  <1>4. [attrs[c][i] EXCEPT !.status = "RELEASED"] \in ItemRow
      BY <1>1, ItemSetType DEF ItemStatus
  <1>5. attrs' \in [Sessions -> [Items -> ItemRow]] /\ dirty' \in [Sessions -> SUBSET Items]
      BY <1>1, <1>4, WriteItemType DEF ReleaseItem, TypeInv
  <1> QED BY <1>1, <1>3, <1>5, UpstreamType DEF ReleaseItem, TypeInv

\* create_reservation, the calls to the providers and its ends.
LEMMA CreateUpstreamType ==
    ASSUME TypeInv, NEW c \in Sessions,
           \/ CreateLoadItem(c) \/ CreateReserve(c) \/ CreateCompensate(c)
           \/ CreateMarkCancelled(c) \/ CreateMarkPending(c)
    PROVE  TypeInv'
  <1> DEFINE i == at[c]
             p == ProductOf[i]
             s == MemStock(c, p)
  <1>1. CASE CreateLoadItem(c)
    <2>1. i \in Items /\ pc[c] \in ItemSteps /\ pc[c] \notin {"idle", "done"}
        BY <1>1, AtItem DEF CreateLoadItem, ItemSteps
    <2>2. attrs' \in [Sessions -> [Items -> ItemRow]]
        BY <1>1, <2>1 DEF CreateLoadItem, TypeInv, TypeOK, MemoryOK, DatabaseOK
    <2>3. /\ pc' \in [Sessions -> Steps] /\ CursorOK'
          /\ \A d \in Sessions : OnCourse(d)'
      <3>1. CASE Goto(c, "reserve") /\ UNCHANGED <<todo, at>>
        <4>1. pc' \in [Sessions -> Steps] /\ \A d \in Sessions : OnCourse(d)'
            BY <1>1, <2>1, <3>1, GotoType DEF CreateLoadItem, Steps
        <4> QED BY <1>1, <3>1, <4>1 DEF CreateLoadItem, TypeInv, TypeOK, CursorOK
      <3>2. CASE NextUpstream(c, attrs'[c])
          BY <1>1, <2>1, <3>2, NextUpstreamType DEF CreateLoadItem
      <3> QED BY <1>1, <3>1, <3>2 DEF CreateLoadItem
    <2> QED BY <1>1, <2>2, <2>3
            DEF CreateLoadItem, TypeInv, TypeOK, DatabaseOK, LocksOK, MemoryOK, OutsideOK
  <1>2. CASE CreateReserve(c)
    <2>1. /\ i \in Items /\ p \in Products /\ Qty[i] \in Int /\ s \in StockRow
          /\ pc[c] \notin {"idle", "done"}
        BY <1>2, AtItem DEF CreateReserve, ItemSteps
    <2>2. /\ pc' \in [Sessions -> Steps] /\ CursorOK'
          /\ \A d \in Sessions : OnCourse(d)'
        BY <1>2, <2>1, NextUpstreamType DEF CreateReserve
    <2>3. \E new \in StockRow, r \in ItemRow : LockStock(c, p, new) /\ WriteItem(c, i, r)
      <3>a. /\ [status |-> "HELD", ref |-> p \in Reservable] \in ItemRow
            /\ [status |-> "FAILED", ref |-> FALSE] \in ItemRow
          BY DEF ItemRow, ItemStatus
      <3>b. ReleaseHold(s, Qty[i]) \in StockRow
          BY <2>1, RowTypes
      <3>1. CASE /\ LockStock(c, p, s)
                 /\ WriteItem(c, i, [status |-> "HELD", ref |-> p \in Reservable])
          BY <2>1, <3>1, <3>a
      <3>2. CASE /\ LockStock(c, p, ReleaseHold(s, Qty[i]))
                 /\ WriteItem(c, i, [status |-> "FAILED", ref |-> FALSE])
          BY <3>2, <3>a, <3>b
      <3> QED BY <1>2, <3>1, <3>2 DEF CreateReserve
    <2>4. /\ holder' \in [Rows -> Sessions \cup {None}]
          /\ inv' \in [Sessions -> [Products -> StockRow]]
          /\ touched' \in [Sessions -> SUBSET Products]
        BY <2>1, <2>3, LockStockType DEF TypeInv
    <2>5. attrs' \in [Sessions -> [Items -> ItemRow]] /\ dirty' \in [Sessions -> SUBSET Items]
        BY <2>1, <2>3, WriteItemType DEF TypeInv
    <2>6. OutsideOK'
      <3>1. UpstreamReserved(i) \in [Refs -> {"none", "held", "confirmed", "released"}]
          BY <2>1, UpstreamType DEF TypeInv
      <3>2. Fault => faults' \in Nat
          BY <2>1, UpstreamType DEF TypeInv
      <3> QED BY <1>2, <3>1, <3>2 DEF CreateReserve, TypeInv, TypeOK, OutsideOK
    <2> QED BY <1>2, <2>2, <2>4, <2>5, <2>6
            DEF CreateReserve, TypeInv, TypeOK, DatabaseOK, LocksOK, MemoryOK
  <1>3. CASE CreateCompensate(c)
    <2>1. pc[c] \in ItemSteps /\ pc[c] \notin {"idle", "done"}
        BY <1>3 DEF CreateCompensate, ItemSteps
    <2>2. /\ pc' \in [Sessions -> Steps] /\ CursorOK'
          /\ \A d \in Sessions : OnCourse(d)'
      <3> DEFINE rest == todo[c] \ {i}
      <3>1. rest \in SUBSET Items /\ FirstOf(rest) \in SUBSET rest
          BY DEF TypeInv, TypeOK, CursorOK, FirstOf
      <3> QED BY <1>3, <2>1, <3>1, VisitType DEF CreateCompensate, Steps, ItemSteps
    <2> QED BY <1>3, <2>1, <2>2, ReleaseItemType
            DEF CreateCompensate, TypeInv, TypeOK, DatabaseOK, LocksOK, MemoryOK, OutsideOK
  <1>4. CASE CreateMarkCancelled(c)
    <2>1. OutsideOK'
        BY <1>4 DEF CreateMarkCancelled, TypeInv, TypeOK, OutsideOK
    <2> QED BY <1>4, <2>1, RollbackType DEF CreateMarkCancelled, Answers
  <1>5. CASE CreateMarkPending(c)
    <2> DEFINE n == [resv EXCEPT ![target[c]].status = "PENDING"]
    <2>1. n \in [Reservations -> ResvRow]
        BY DEF TypeInv, TypeOK, DatabaseOK, ResvRow, ResvStatus
    <2>2. DatabaseOK' /\ LocksOK' /\ MemoryOK'
        BY <1>5, <2>1, CommitType DEF CreateMarkPending, TypeInv
    <2> QED BY <1>5, <2>2, LeaveType
            DEF CreateMarkPending, TypeInv, TypeOK, OutsideOK, Answers
  <1> QED BY <1>1, <1>2, <1>3, <1>4, <1>5

\* get_by_id and the status test.
LEMMA ReadOrRefuseType ==
    ASSUME TypeInv, NEW c \in Sessions, NEW r \in Reservations, NEW allowed,
           NEW step \in Steps \ (ItemSteps \cup {"idle", "done"}),
           ReadOrRefuse(c, r, allowed, step)
    PROVE  TypeInv'
  <1>1. CursorOK' /\ target'[c] = r
      BY DEF ReadOrRefuse, TypeInv, TypeOK, CursorOK
  <1>2. /\ pc' \in [Sessions -> Steps]
        /\ pc'[c] \in {step, "done"}
        /\ \A d \in Sessions \ {c} : pc'[d] = pc[d]
      BY DEF ReadOrRefuse, TypeInv, TypeOK, Goto, Steps
  <1>3. result' \in [Sessions -> Answers]
      BY DEF ReadOrRefuse, TypeInv, TypeOK, Answers
  <1>4. row' \in [Sessions -> ResvRow]
      BY DEF ReadOrRefuse, TypeInv, TypeOK, DatabaseOK, MemoryOK
  <1>5. \A d \in Sessions : OnCourse(d)'
      BY <1>1, <1>2 DEF ReadOrRefuse, TypeInv, TypeOK, CursorOK, OnCourse, ItemSteps
  <1> QED BY <1>1, <1>2, <1>3, <1>4, <1>5
          DEF ReadOrRefuse, TypeInv, TypeOK, DatabaseOK, LocksOK, MemoryOK, OutsideOK

\* The row lock_and_transition writes.
LEMMA TransitionedType ==
    ASSUME TypeInv, NEW c \in Sessions, NEW new \in ResvStatus
    PROVE  Transitioned(c, new) \in [Reservations -> ResvRow]
  <1>1. row[c] \in ResvRow /\ row[c].version + 1 \in Nat
      BY DEF TypeInv, TypeOK, MemoryOK, ResvRow
  <1> QED BY <1>1 DEF Transitioned, TypeInv, TypeOK, DatabaseOK, ResvRow

\* The items a session loads.
LEMMA LoadItemsType ==
    ASSUME TypeInv, NEW c \in Sessions, LoadItems(c)
    PROVE  attrs' \in [Sessions -> [Items -> ItemRow]]
  BY RowTypes DEF LoadItems, TypeInv, TypeOK, MemoryOK, DatabaseOK

\* confirm_reservation, before its items.
LEMMA ConfirmReadType ==
    ASSUME TypeInv, NEW c \in Sessions,
           \/ \E r \in Reservations : ConfirmRead(c, r)
           \/ ConfirmLock(c) \/ ConfirmRefresh(c) \/ ConfirmItems(c)
    PROVE  TypeInv'
  <1>1. ASSUME NEW r \in Reservations, ConfirmRead(c, r) PROVE TypeInv'
      BY <1>1, ReadOrRefuseType DEF ConfirmRead, Steps, ItemSteps
  <1>2. CASE ConfirmLock(c)
    <2>1. OutsideOK'
        BY <1>2 DEF ConfirmLock, TypeInv, TypeOK, OutsideOK
    <2>2. CASE Rollback(c, "conflict")
        BY <2>1, <2>2, RollbackType DEF Answers
    <2>3. CASE /\ Commit(c, Transitioned(c, "CONFIRMING"))
               /\ Goto(c, "confirmRefresh")
               /\ UNCHANGED <<cursor, allConfirmed, result>>
      <3>1. Transitioned(c, "CONFIRMING") \in [Reservations -> ResvRow]
          BY TransitionedType DEF ResvStatus
      <3>2. DatabaseOK' /\ LocksOK' /\ MemoryOK'
          BY <2>3, <3>1, CommitType DEF TypeInv
      <3>3. pc' \in [Sessions -> Steps] /\ \A d \in Sessions : OnCourse(d)'
          BY <1>2, <2>3, GotoType DEF ConfirmLock, Steps, ItemSteps
      <3> QED BY <2>1, <2>3, <3>2, <3>3 DEF TypeInv, TypeOK, CursorOK
    <2> QED BY <1>2, <2>2, <2>3 DEF ConfirmLock
  <1>3. CASE ConfirmRefresh(c)
    <2>1. pc' \in [Sessions -> Steps] /\ \A d \in Sessions : OnCourse(d)'
        BY <1>3, GotoType DEF ConfirmRefresh, Steps, ItemSteps
    <2>2. target[c] \in Reservations
        BY <1>3 DEF ConfirmRefresh, TypeInv, OnCourse
    <2>3. row' \in [Sessions -> ResvRow]
        BY <1>3, <2>2 DEF ConfirmRefresh, TypeInv, TypeOK, DatabaseOK, MemoryOK
    <2> QED BY <1>3, <2>1, <2>3
            DEF ConfirmRefresh, TypeInv, TypeOK, DatabaseOK, LocksOK, CursorOK, MemoryOK, OutsideOK
  <1>4. CASE ConfirmItems(c)
    <2> DEFINE held == {i \in Cart(target[c]) : item[i].status = "HELD"}
    <2>1. /\ pc' \in [Sessions -> Steps] /\ CursorOK'
          /\ \A d \in Sessions : OnCourse(d)'
      <3>1. held \in SUBSET Items
          BY DEF Cart
      <3> QED BY <1>4, <3>1, VisitType DEF ConfirmItems, Steps, ItemSteps
    <2>2. attrs' \in [Sessions -> [Items -> ItemRow]]
        BY <1>4, LoadItemsType DEF ConfirmItems
    <2>3. allConfirmed' \in [Sessions -> BOOLEAN]
        BY <1>4 DEF ConfirmItems, TypeInv, TypeOK
    <2> QED BY <1>4, <2>1, <2>2, <2>3
            DEF ConfirmItems, TypeInv, TypeOK, DatabaseOK, LocksOK, MemoryOK, OutsideOK
  <1> QED BY <1>1, <1>2, <1>3, <1>4

\* confirm_reservation, its items and its end.
LEMMA ConfirmItemsType ==
    ASSUME TypeInv, NEW c \in Sessions, ConfirmItem(c) \/ ConfirmFinal(c)
    PROVE  TypeInv'
  <1> DEFINE i == at[c]
             p == ProductOf[i]
             s == MemStock(c, p)
             rest == todo[c] \ {i}
  <1>1. CASE ConfirmItem(c)
    <2>1. /\ i \in Items /\ p \in Products /\ Qty[i] \in Int /\ s \in StockRow
          /\ pc[c] \notin {"idle", "done"}
        BY <1>1, AtItem DEF ConfirmItem, ItemSteps
    <2>2. /\ pc' \in [Sessions -> Steps] /\ CursorOK'
          /\ \A d \in Sessions : OnCourse(d)'
      <3>1. rest \in SUBSET Items
          BY DEF TypeInv, TypeOK, CursorOK
      <3> QED BY <1>1, <2>1, <3>1, VisitType DEF ConfirmItem, Steps, ItemSteps
    <2>3. \E new \in StockRow : LockStock(c, p, new)
      <3>1. ConsumeHold(s, Qty[i]) \in StockRow /\ ReleaseHold(s, Qty[i]) \in StockRow
          BY <2>1, RowTypes
      <3> QED BY <1>1, <2>1, <3>1 DEF ConfirmItem
    <2>4. /\ holder' \in [Rows -> Sessions \cup {None}]
          /\ inv' \in [Sessions -> [Products -> StockRow]]
          /\ touched' \in [Sessions -> SUBSET Products]
        BY <2>1, <2>3, LockStockType DEF TypeInv
    <2>5. attrs' \in [Sessions -> [Items -> ItemRow]] /\ dirty' \in [Sessions -> SUBSET Items]
      <3>1. /\ [attrs[c][i] EXCEPT !.status = "CONFIRMED"] \in ItemRow
            /\ [attrs[c][i] EXCEPT !.status = "FAILED"] \in ItemRow
          BY <2>1, ItemSetType DEF ItemStatus
      <3>2. \/ \E r \in ItemRow : WriteItem(c, i, r)
            \/ UNCHANGED <<attrs, dirty>>
          BY <1>1, <3>1 DEF ConfirmItem
      <3> QED BY <2>1, <3>2, WriteItemType DEF TypeInv, TypeOK, MemoryOK
    <2>6. OutsideOK' /\ allConfirmed' \in [Sessions -> BOOLEAN]
      <3>1. /\ Fault => faults' \in Nat
            /\ UpstreamConfirmed(c, i) =>
                  upstream' \in [Refs -> {"none", "held", "confirmed", "released"}]
          BY <2>1, UpstreamType DEF TypeInv
      <3> QED BY <1>1, <3>1
              DEF ConfirmItem, UpstreamUnconfirmed, TypeInv, TypeOK, OutsideOK
    <2> QED BY <1>1, <2>2, <2>4, <2>5, <2>6
            DEF ConfirmItem, TypeInv, TypeOK, DatabaseOK, LocksOK, MemoryOK
  <1>2. CASE ConfirmFinal(c)
    <2>1. OutsideOK'
        BY <1>2 DEF ConfirmFinal, TypeInv, TypeOK, OutsideOK
    <2>2. ASSUME NEW res \in Answers, Rollback(c, res) PROVE TypeInv'
        BY <2>1, <2>2, RollbackType
    <2>3. CASE Commit(c, Transitioned(c, "CONFIRMED")) /\ Leave(c, "confirmed")
      <3>1. Transitioned(c, "CONFIRMED") \in [Reservations -> ResvRow]
          BY TransitionedType DEF ResvStatus
      <3>2. DatabaseOK' /\ LocksOK' /\ MemoryOK'
          BY <2>3, <3>1, CommitType DEF TypeInv
      <3> QED BY <2>1, <2>3, <3>2, LeaveType DEF TypeInv, TypeOK, Answers
    <2> QED BY <1>2, <2>2, <2>3 DEF ConfirmFinal, Answers
  <1> QED BY <1>1, <1>2

\* cancel_reservation and expire_reservations, up to the closing transition.
LEMMA ReleaseLoopType ==
    ASSUME TypeInv, NEW c \in Sessions,
           \/ \E r \in Reservations : CancelRead(c, r)
           \/ Sweep(c) \/ ExpireReload(c) \/ LoadHeldItems(c) \/ ReleaseHeldItem(c)
    PROVE  TypeInv'
  <1>1. ASSUME NEW r \in Reservations, CancelRead(c, r) PROVE TypeInv'
      BY <1>1, ReadOrRefuseType DEF CancelRead, Steps, ItemSteps
  <1>2. CASE Sweep(c)
    <2>0. PICK r \in FoundExpired :
              /\ target' = [target EXCEPT ![c] = r]
              /\ batch' = [batch EXCEPT ![c] = FoundExpired \ {r}]
              /\ row' = [row EXCEPT ![c] = resv[r]]
        BY <1>2 DEF Sweep
    <2>1. FoundExpired \subseteq Reservations
        BY DEF FoundExpired
    <2>2. CursorOK' /\ target'[c] \in Reservations
        BY <1>2, <2>0, <2>1 DEF Sweep, TypeInv, TypeOK, CursorOK
    <2>3. row' \in [Sessions -> ResvRow]
        BY <2>0, <2>1 DEF TypeInv, TypeOK, DatabaseOK, MemoryOK
    <2>4. holder' \in [Rows -> Sessions \cup {None}]
        BY <1>2 DEF Sweep, TypeInv, TypeOK, LocksOK
    <2>5. pc' \in [Sessions -> Steps] /\ pc'[c] = "heldItems"
        BY <1>2 DEF Sweep, Goto, TypeInv, TypeOK, Steps
    <2>6. \A d \in Sessions : OnCourse(d)'
        BY <1>2, <2>0, <2>2, <2>5 DEF Sweep, Goto, TypeInv, TypeOK, CursorOK, OnCourse, ItemSteps
    <2> QED BY <1>2, <2>2, <2>3, <2>4, <2>5, <2>6
            DEF Sweep, TypeInv, TypeOK, DatabaseOK, LocksOK, MemoryOK, OutsideOK
  <1>3. CASE ExpireReload(c)
    <2>1. pc' \in [Sessions -> Steps] /\ \A d \in Sessions : OnCourse(d)'
        BY <1>3, GotoType DEF ExpireReload, Steps, ItemSteps
    <2>2. target[c] \in Reservations
        BY <1>3 DEF ExpireReload, TypeInv, OnCourse
    <2>3. row' \in [Sessions -> ResvRow]
        BY <1>3, <2>2 DEF ExpireReload, TypeInv, TypeOK, DatabaseOK, MemoryOK
    <2> QED BY <1>3, <2>1, <2>3
            DEF ExpireReload, TypeInv, TypeOK, DatabaseOK, LocksOK, CursorOK, MemoryOK, OutsideOK
  <1>4. CASE LoadHeldItems(c)
    <2> DEFINE held == {i \in Cart(target[c]) : item[i].status \in Holding}
    <2>1. /\ pc' \in [Sessions -> Steps] /\ CursorOK'
          /\ \A d \in Sessions : OnCourse(d)'
      <3>1. held \in SUBSET Items
          BY DEF Cart
      <3> QED BY <1>4, <3>1, VisitType DEF LoadHeldItems, Steps, ItemSteps
    <2>2. attrs' \in [Sessions -> [Items -> ItemRow]]
        BY <1>4, LoadItemsType DEF LoadHeldItems
    <2> QED BY <1>4, <2>1, <2>2
            DEF LoadHeldItems, TypeInv, TypeOK, DatabaseOK, LocksOK, MemoryOK, OutsideOK
  <1>5. CASE ReleaseHeldItem(c)
    <2>1. pc[c] \in ItemSteps /\ pc[c] \notin {"idle", "done"}
        BY <1>5 DEF ReleaseHeldItem, ItemSteps
    <2>2. /\ pc' \in [Sessions -> Steps] /\ CursorOK'
          /\ \A d \in Sessions : OnCourse(d)'
      <3> DEFINE rest == todo[c] \ {at[c]}
      <3>1. rest \in SUBSET Items
          BY DEF TypeInv, TypeOK, CursorOK
      <3> QED BY <1>5, <2>1, <3>1, VisitType DEF ReleaseHeldItem, Steps, ItemSteps
    <2> QED BY <1>5, <2>1, <2>2, ReleaseItemType
            DEF ReleaseHeldItem, TypeInv, TypeOK, DatabaseOK, LocksOK, MemoryOK, OutsideOK
  <1> QED BY <1>1, <1>2, <1>3, <1>4, <1>5

LEMMA CloseType ==
    ASSUME TypeInv, NEW c \in Sessions, CancelFinal(c) \/ ExpireFinal(c)
    PROVE  TypeInv'
  <1>0. OutsideOK'
      BY DEF CancelFinal, ExpireFinal, TypeInv, TypeOK, OutsideOK
  <1>1. CASE CancelFinal(c)
    <2>1. CASE Rollback(c, "conflict")
        BY <1>0, <2>1, RollbackType DEF Answers
    <2>2. CASE Commit(c, Transitioned(c, "CANCELLED")) /\ Leave(c, "cancelled")
      <3>1. Transitioned(c, "CANCELLED") \in [Reservations -> ResvRow]
          BY TransitionedType DEF ResvStatus
      <3>2. DatabaseOK' /\ LocksOK' /\ MemoryOK'
          BY <2>2, <3>1, CommitType DEF TypeInv
      <3> QED BY <1>0, <2>2, <3>2, LeaveType DEF TypeInv, TypeOK, Answers
    <2> QED BY <1>1, <2>1, <2>2 DEF CancelFinal
  <1>2. CASE ExpireFinal(c)
    <2>1. DatabaseOK' /\ LocksOK' /\ MemoryOK'
      <3> DEFINE new == IF row[c].status \in Open THEN Transitioned(c, "EXPIRED") ELSE resv
      <3>1. new \in [Reservations -> ResvRow]
          BY TransitionedType DEF ResvStatus, TypeInv, TypeOK, DatabaseOK
      <3> QED BY <1>2, <3>1, CommitType DEF ExpireFinal, TypeInv
    <2>2. CASE Leave(c, "none")
        BY <1>0, <2>1, <2>2, LeaveType DEF TypeInv, TypeOK, Answers
    <2>3. CASE /\ \E r \in batch[c] :
                     /\ target' = [target EXCEPT ![c] = r]
                     /\ batch' = [batch EXCEPT ![c] = @ \ {r}]
               /\ Goto(c, "reload")
               /\ UNCHANGED <<todo, at, allConfirmed, result>>
      <3>1. CursorOK' /\ target'[c] \in Reservations
          BY <2>3 DEF TypeInv, TypeOK, CursorOK
      <3>2. pc' \in [Sessions -> Steps] /\ pc'[c] = "reload"
          BY <2>3 DEF Goto, TypeInv, TypeOK, Steps
      <3>3. \A d \in Sessions : OnCourse(d)'
          BY <2>3, <3>1, <3>2 DEF Goto, TypeInv, TypeOK, CursorOK, OnCourse, ItemSteps
      <3> QED BY <1>0, <2>1, <2>3, <3>1, <3>2, <3>3 DEF TypeInv, TypeOK
    <2> QED BY <1>2, <2>2, <2>3 DEF ExpireFinal
  <1> QED BY <1>1, <1>2

\* Deadlocks, crashes and time.
LEMMA EnvironmentType ==
    ASSUME TypeInv,
           \/ \E c \in Sessions : DeadlockAbort(c) \/ Crash(c)
           \/ \E r \in Reservations : PassTTL(r)
    PROVE  TypeInv'
  <1>1. ASSUME NEW c \in Sessions, DeadlockAbort(c) PROVE TypeInv'
    <2>1. OutsideOK'
        BY <1>1 DEF DeadlockAbort, TypeInv, TypeOK, OutsideOK
    <2> QED BY <1>1, <2>1, RollbackType DEF DeadlockAbort, Answers
  <1>2. ASSUME NEW c \in Sessions, Crash(c) PROVE TypeInv'
    <2>1. OutsideOK'
        BY <1>2 DEF Crash, Fault, TypeInv, TypeOK, OutsideOK
    <2> QED BY <1>2, <2>1, RollbackType DEF Crash, Answers
  <1>3. ASSUME NEW r \in Reservations, PassTTL(r) PROVE TypeInv'
    <2>1. \A d \in Sessions : OnCourse(d)'
        BY <1>3 DEF PassTTL, TypeInv, OnCourse
    <2> QED BY <1>3, <2>1
            DEF PassTTL, TypeInv, TypeOK, DatabaseOK, LocksOK, CursorOK, MemoryOK, OutsideOK
  <1> QED BY <1>1, <1>2, <1>3

LEMMA StutterType == TypeInv /\ UNCHANGED vars => TypeInv'
  BY DEF vars, TypeInv, TypeOK, DatabaseOK, LocksOK, CursorOK, MemoryOK, OutsideOK, OnCourse

LEMMA NextType == TypeInv /\ [Next]_vars => TypeInv'
  <1> SUFFICES ASSUME TypeInv, [Next]_vars PROVE TypeInv'
      OBVIOUS
  <1>1. ASSUME NEW c \in Sessions, Start(c) PROVE TypeInv'
      BY <1>1, CreateLocalType, ConfirmReadType, ReleaseLoopType DEF Start
  <1>2. ASSUME NEW c \in Sessions, Continue(c) PROVE TypeInv'
      BY <1>2, CreateLocalType, CreateUpstreamType, ConfirmReadType, ConfirmItemsType,
         ReleaseLoopType, CloseType DEF Continue
  <1>3. ASSUME NEW c \in Sessions, Sweep(c) PROVE TypeInv'
      BY <1>3, ReleaseLoopType
  <1> QED BY <1>1, <1>2, <1>3, EnvironmentType, StutterType DEF Next, Finished

\* Whatever the requests, the workers and the database do to each other, every
\* row, lock and session variable keeps its type, for any cart and any stock.
THEOREM TypeCorrect == Spec => []TypeOK
  <1>1. TypeInv => TypeOK
      BY DEF TypeInv
  <1> QED BY <1>1, InitType, NextType, PTL DEF Spec
-----------------------------------------------------------------------------
(* Conservation of stock. *)

\* A row with p's units, none of them sold twice over the counter.
Balanced(s, p) == Units(s) = Stock0[p] /\ s.available >= 0

\* Not only the committed rows balance, but those the sessions have in hand.
LedgerInv ==
    /\ \A p \in Products : Balanced(stock[p], p)
    /\ \A c \in Sessions : \A p \in touched[c] : Balanced(inv[c][p], p)

\* A hold that passed its test, a release and a consumption move units within
\* a row.
LEMMA LedgerSteps ==
    ASSUME NEW s \in StockRow, NEW p \in Products, NEW n \in Nat, Balanced(s, p)
    PROVE  /\ CanHold(s, n) => Balanced(HoldLocked(s, n), p)
           /\ Balanced(ReleaseHold(s, n), p)
           /\ Balanced(ConsumeHold(s, n), p)
  <1>1. s.available \in Int /\ s.reserved \in Int /\ s.sold \in Int
      BY DEF StockRow
  <1> QED BY <1>1 DEF Balanced, Units, CanHold, HoldLocked, ReleaseHold, ConsumeHold

LEMMA MemStockBalanced ==
    ASSUME LedgerInv, NEW c \in Sessions, NEW p \in Products
    PROVE  Balanced(MemStock(c, p), p)
  BY DEF LedgerInv, MemStock

\* The ways a step treats the ledger: it leaves it alone, ends a transaction
\* with or without a commit, or keeps one more row in hand.
LEMMA LedgerKept ==
    ASSUME LedgerInv, UNCHANGED <<stock, inv, touched>>
    PROVE  LedgerInv'
  BY DEF LedgerInv

LEMMA LedgerRolledBack ==
    ASSUME TypeInv, LedgerInv, NEW c \in Sessions, EndTransaction(c), UNCHANGED stock
    PROVE  LedgerInv'
  BY DEF LedgerInv, EndTransaction, TypeInv, TypeOK, MemoryOK

LEMMA LedgerCommitted ==
    ASSUME TypeInv, LedgerInv, NEW c \in Sessions, NEW n, Commit(c, n)
    PROVE  LedgerInv'
  <1>1. \A p \in Products : Balanced(stock'[p], p)
      BY DEF LedgerInv, Commit
  <1>2. \A d \in Sessions : \A p \in touched'[d] : Balanced(inv'[d][p], p)
      BY DEF LedgerInv, Commit, EndTransaction, TypeInv, TypeOK, MemoryOK
  <1> QED BY <1>1, <1>2 DEF LedgerInv

LEMMA LedgerWritten ==
    ASSUME TypeInv, LedgerInv, NEW c \in Sessions, NEW p \in Products, NEW s \in StockRow,
           LockStock(c, p, s), Balanced(s, p), UNCHANGED stock
    PROVE  LedgerInv'
  BY DEF LedgerInv, LockStock, TypeInv, TypeOK, MemoryOK

LEMMA LedgerReleased ==
    ASSUME TypeInv, LedgerInv, NEW c \in Sessions, pc[c] \in ItemSteps,
           ReleaseItem(c, at[c]), UNCHANGED stock
    PROVE  LedgerInv'
  <1> DEFINE i == at[c]
             p == ProductOf[i]
             s == MemStock(c, p)
  <1>1. p \in Products /\ Qty[i] \in Nat /\ Qty[i] \in Int /\ s \in StockRow
      BY AtItem
  <1>2. ReleaseHold(s, Qty[i]) \in StockRow
      BY <1>1, RowTypes
  <1>3. Balanced(ReleaseHold(s, Qty[i]), p)
      BY <1>1, LedgerSteps, MemStockBalanced
  <1> QED BY <1>1, <1>2, <1>3, LedgerWritten DEF ReleaseItem

LEMMA InitLedger == Init => LedgerInv
  <1> SUFFICES ASSUME Init PROVE LedgerInv
      OBVIOUS
  <1>1. \A p \in Products : Balanced(stock[p], p)
      BY CheckoutAssumption DEF Init, Balanced, Units, FreshStock
  <1>2. \A c \in Sessions : touched[c] = {}
      BY DEF Init
  <1> QED BY <1>1, <1>2 DEF LedgerInv

LEMMA ContinueLedger ==
    ASSUME TypeInv, LedgerInv, NEW c \in Sessions, Continue(c)
    PROVE  LedgerInv'
  <1> DEFINE i == at[c]
             p == ProductOf[i]
             s == MemStock(c, p)
  <1>0. ASSUME pc[c] \in ItemSteps
        PROVE  /\ p \in Products /\ s \in StockRow /\ Balanced(s, p)
               /\ ReleaseHold(s, Qty[i]) \in StockRow /\ Balanced(ReleaseHold(s, Qty[i]), p)
               /\ ConsumeHold(s, Qty[i]) \in StockRow /\ Balanced(ConsumeHold(s, Qty[i]), p)
               /\ HoldLocked(s, Qty[i]) \in StockRow
               /\ CanHold(s, Qty[i]) => Balanced(HoldLocked(s, Qty[i]), p)
    <2>1. p \in Products /\ Qty[i] \in Nat /\ Qty[i] \in Int /\ s \in StockRow
        BY <1>0, AtItem
    <2>2. Balanced(s, p)
        BY <2>1, MemStockBalanced
    <2> QED BY <2>1, <2>2, RowTypes, LedgerSteps
  <1>1. CASE CreateInsert(c)
      BY <1>1, LedgerKept, LedgerRolledBack DEF CreateInsert, Rollback
  <1>2. CASE CreateHold(c)
    <2>1. CASE Rollback(c, "failed")
        BY <2>1, LedgerRolledBack DEF Rollback
    <2>2. CASE CanHold(s, Qty[i]) /\ LockStock(c, p, HoldLocked(s, Qty[i])) /\ UNCHANGED stock
        BY <1>0, <1>2, <2>2, LedgerWritten DEF CreateHold, ItemSteps
    <2> QED BY <1>2, <2>1, <2>2 DEF CreateHold
  <1>3. CASE CreateCommitLocal(c) \/ CreateMarkPending(c)
      BY <1>3, LedgerCommitted DEF CreateCommitLocal, CreateMarkPending
  <1>4. CASE CreateReserve(c)
      BY <1>0, <1>4, LedgerWritten DEF CreateReserve, ItemSteps
  <1>5. CASE CreateCompensate(c) \/ ReleaseHeldItem(c)
      BY <1>5, LedgerReleased DEF CreateCompensate, ReleaseHeldItem, ItemSteps
  <1>6. CASE CreateMarkCancelled(c)
      BY <1>6, LedgerRolledBack DEF CreateMarkCancelled, Rollback
  <1>7. CASE ConfirmLock(c) \/ ConfirmFinal(c) \/ CancelFinal(c) \/ ExpireFinal(c)
      BY <1>7, LedgerCommitted, LedgerRolledBack
         DEF ConfirmLock, ConfirmFinal, CancelFinal, ExpireFinal, Rollback
  <1>8. CASE ConfirmItem(c)
      BY <1>0, <1>8, LedgerWritten DEF ConfirmItem, ItemSteps
  <1>9. CASE \/ CreateAddItem(c) \/ CreateLoadItem(c) \/ ConfirmRefresh(c) \/ ConfirmItems(c)
             \/ ExpireReload(c) \/ LoadHeldItems(c)
      BY <1>9, LedgerKept
         DEF CreateAddItem, CreateLoadItem, ConfirmRefresh, ConfirmItems, ExpireReload,
             LoadHeldItems
  <1> QED BY <1>1, <1>2, <1>3, <1>4, <1>5, <1>6, <1>7, <1>8, <1>9 DEF Continue

LEMMA NextLedger == TypeInv /\ LedgerInv /\ [Next]_vars => LedgerInv'
  <1> SUFFICES ASSUME TypeInv, LedgerInv, [Next]_vars PROVE LedgerInv'
      OBVIOUS
  <1>1. ASSUME NEW c \in Sessions, Start(c) PROVE LedgerInv'
      BY <1>1, LedgerKept DEF Start, CreateFind, ConfirmRead, CancelRead, ReadOrRefuse
  <1>2. ASSUME NEW c \in Sessions, Continue(c) PROVE LedgerInv'
      BY <1>2, ContinueLedger
  <1>3. ASSUME NEW c \in Sessions, DeadlockAbort(c) \/ Crash(c) PROVE LedgerInv'
      BY <1>3, LedgerRolledBack DEF DeadlockAbort, Crash, Rollback
  <1>4. CASE \/ \E c \in Sessions : Sweep(c)
             \/ \E r \in Reservations : PassTTL(r)
             \/ UNCHANGED vars
      BY <1>4, LedgerKept DEF Sweep, PassTTL, vars
  <1> QED BY <1>1, <1>2, <1>3, <1>4 DEF Next, Finished
=============================================================================
