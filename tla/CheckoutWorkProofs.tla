------------------------- MODULE CheckoutWorkProofs -------------------------
(***************************************************************************)
(* What a session has in hand agrees with what is committed, for all       *)
(* values of the constants and any overlap: with the provider on confirmed *)
(* items, and with the stock rows under its locks.                         *)
(***************************************************************************)
EXTENDS CheckoutLockProofs, FiniteSetTheorems

USE DEF Sessions, Rows, database, locks, memory, cursor, outside

-----------------------------------------------------------------------------
(* The building blocks of a step of session c, seen from c. *)

LEMMA BlocksHere ==
    ASSUME TypeInv, NEW c \in Sessions
    PROVE  /\ \A res : Leave(c, res) =>
                  pc'[c] \in {"idle", "done"} /\ batch'[c] = {} /\ todo'[c] = {}
           /\ \A step : Goto(c, step) => pc'[c] = step
           /\ EndTransaction(c) =>
                  /\ dirty'[c] = {} /\ touched'[c] = {}
                  /\ \A i \in Items : attrs'[c][i] = NoItem
           /\ \A p, s : LockStock(c, p, s) =>
                  /\ touched'[c] = touched[c] \cup {p}
                  /\ inv'[c] = [inv[c] EXCEPT ![p] = s]
           /\ \A i, r : WriteItem(c, i, r) =>
                  /\ dirty'[c] = dirty[c] \cup {i}
                  /\ attrs'[c] = [attrs[c] EXCEPT ![i] = r]
           /\ LoadItems(c) =>
                  \A i \in Items :
                      attrs'[c][i] = IF CartOf[i] = target[c] THEN item[i] ELSE NoItem
  <1>1. /\ \A res : Leave(c, res) =>
               pc'[c] \in {"idle", "done"} /\ batch'[c] = {} /\ todo'[c] = {}
        /\ \A step : Goto(c, step) => pc'[c] = step
      BY DEF TypeInv, TypeOK, CursorOK, Leave, Goto
  <1>2. EndTransaction(c) =>
            /\ dirty'[c] = {} /\ touched'[c] = {}
            /\ \A i \in Items : attrs'[c][i] = NoItem
      BY DEF TypeInv, TypeOK, MemoryOK, EndTransaction
  <1>3. ASSUME NEW p, NEW s, LockStock(c, p, s)
        PROVE  /\ touched'[c] = touched[c] \cup {p}
               /\ inv'[c] = [inv[c] EXCEPT ![p] = s]
      BY <1>3 DEF TypeInv, TypeOK, MemoryOK, LockStock
  <1>4. ASSUME NEW i, NEW r, WriteItem(c, i, r)
        PROVE  /\ dirty'[c] = dirty[c] \cup {i}
               /\ attrs'[c] = [attrs[c] EXCEPT ![i] = r]
      BY <1>4 DEF TypeInv, TypeOK, MemoryOK, WriteItem
  <1>5. LoadItems(c) =>
            \A i \in Items :
                attrs'[c][i] = IF CartOf[i] = target[c] THEN item[i] ELSE NoItem
      BY DEF TypeInv, TypeOK, MemoryOK, LoadItems
  <1> QED BY <1>1, <1>2, <1>3, <1>4, <1>5

LEMMA VisitHere ==
    ASSUME TypeInv, NEW c \in Sessions, NEW S, NEW next, NEW body, NEW after,
           Visit(c, S, next, body, after)
    PROVE  /\ todo'[c] = S
           /\ \/ pc'[c] = body /\ at'[c] \in next
              \/ pc'[c] = after /\ S = {}
  BY DEF TypeInv, TypeOK, CursorOK, Visit, Goto

LEMMA NextUpstreamHere ==
    ASSUME TypeInv, NEW c \in Sessions, NEW mem, NextUpstream(c, mem)
    PROVE  \/ /\ pc'[c] = "loadItem"
              /\ todo'[c] = todo[c] \ {at[c]} /\ at'[c] \in todo'[c]
           \/ /\ pc'[c] = "compensate"
              /\ todo'[c] = {i \in Cart(target[c]) : mem[i].status \in Holding}
              /\ at'[c] \in todo'[c]
           \/ /\ pc'[c] = "markCancelled" /\ todo'[c] = {}
           \/ /\ pc'[c] = "markPending" /\ todo'[c] = {} /\ todo[c] \subseteq {at[c]}
              /\ \A i \in Cart(target[c]) : mem[i].status # "FAILED"
  <1> DEFINE rest == todo[c] \ {at[c]}
             held == {i \in Cart(target[c]) : mem[i].status \in Holding}
  <1>1. FirstOf(rest) \subseteq rest /\ FirstOf(held) \subseteq held
      BY DEF FirstOf
  <1>2. CASE rest # {} /\ Visit(c, rest, FirstOf(rest), "loadItem", "markPending")
    <2>1. todo'[c] = rest /\ pc'[c] = "loadItem" /\ at'[c] \in FirstOf(rest)
        BY <1>2, VisitHere
    <2> QED BY <1>1, <2>1
  <1>3. CASE Visit(c, held, FirstOf(held), "compensate", "markCancelled")
    <2>1. /\ todo'[c] = held
          /\ \/ pc'[c] = "compensate" /\ at'[c] \in FirstOf(held)
             \/ pc'[c] = "markCancelled" /\ held = {}
        BY <1>3, VisitHere
    <2> QED BY <1>1, <2>1
  <1>4. CASE /\ rest = {} /\ Visit(c, {}, {}, "loadItem", "markPending")
             /\ \A i \in Cart(target[c]) : mem[i].status # "FAILED"
    <2>1. todo'[c] = {} /\ pc'[c] = "markPending"
        BY <1>4, VisitHere
    <2> QED BY <1>4, <2>1
  <1> QED BY <1>2, <1>3, <1>4 DEF NextUpstream

\* Which steps change the committed item rows, and how.
LEMMA ItemMoves ==
    ASSUME TypeInv, NEW c \in Sessions, Moves(c)
    PROVE  \/ /\ item' = item /\ stock' = stock
           \/ /\ item' = [i \in Items |-> IF i \in dirty[c] THEN FlushedItem(c, i) ELSE item[i]]
              /\ stock' = [p \in Products |-> IF p \in touched[c] THEN inv[c][p] ELSE stock[p]]
              /\ EndTransaction(c) /\ pc[c] \notin {"idle", "done", "insert", "addItem", "hold"}
              /\ pc[c] = "commitLocal" => CreateCommitLocal(c)
  <1>1. CASE Start(c)
      BY <1>1 DEF Start, CreateFind, ConfirmRead, CancelRead, ReadOrRefuse
  <1>2. CASE Sweep(c)
      BY <1>2 DEF Sweep
  <1>3. CASE DeadlockAbort(c) \/ Crash(c)
      BY <1>3 DEF DeadlockAbort, Crash, Rollback
  <1>4. CASE CreateInsert(c) \/ CreateAddItem(c) \/ CreateHold(c)
      BY <1>4 DEF CreateInsert, CreateAddItem, CreateHold, Rollback
  <1>5. CASE \/ CreateLoadItem(c) \/ CreateReserve(c) \/ CreateCompensate(c)
             \/ CreateMarkCancelled(c)
      BY <1>5 DEF CreateLoadItem, CreateReserve, CreateCompensate, CreateMarkCancelled, Rollback
  <1>6. CASE \/ ConfirmRefresh(c) \/ ConfirmItems(c) \/ ConfirmItem(c)
             \/ ExpireReload(c) \/ LoadHeldItems(c) \/ ReleaseHeldItem(c)
      BY <1>6 DEF ConfirmRefresh, ConfirmItems, ConfirmItem, ExpireReload, LoadHeldItems,
                  ReleaseHeldItem
  <1>7. CASE \/ CreateCommitLocal(c) \/ CreateMarkPending(c) \/ ConfirmLock(c)
             \/ ConfirmFinal(c) \/ CancelFinal(c) \/ ExpireFinal(c)
      BY <1>7 DEF CreateCommitLocal, CreateMarkPending, ConfirmLock, ConfirmFinal,
                  CancelFinal, ExpireFinal, Commit, Rollback
  <1> QED BY <1>1, <1>2, <1>3, <1>4, <1>5, <1>6, <1>7 DEF Moves, Continue

-----------------------------------------------------------------------------
(* Confirmed items and their providers. *)

\* An item r with a reference is of a provider that gives references; held or
\* confirmed, it has one if its provider gives them; confirmed, the provider
\* has confirmed, too.
RefOK(i, r, up) ==
    /\ r.ref => ProductOf[i] \in Reservable
    /\ r.status \in {"HELD", "CONFIRMED"} => (ProductOf[i] \in Reservable => r.ref)
    /\ r.status = "CONFIRMED" /\ r.ref => up[RefOf[i]] = "confirmed"

\* The loop of a confirmation visits items that are HELD.
ConfirmsHeld(c) ==
    pc[c] = "confirmItem" => \A j \in todo[c] : attrs[c][j].status = "HELD"

RefInv ==
    /\ \A i \in Items : RefOK(i, item[i], upstream)
    /\ \A c \in Sessions : \A i \in Items : RefOK(i, attrs[c][i], upstream)
    /\ \A c \in Sessions : ConfirmsHeld(c)

\* A provider does not take a confirmation back.
UpstreamStable == \A f \in Refs : upstream[f] = "confirmed" => upstream'[f] = "confirmed"

LEMMA RefFacts ==
    /\ \A i \in Items : \A up : RefOK(i, NoItem, up)
    /\ \A i \in Items : \A up : RefOK(i, [status |-> "HELD_LOCAL", ref |-> FALSE], up)
    /\ \A i \in Items : \A up : RefOK(i, [status |-> "FAILED", ref |-> FALSE], up)
    /\ \A i \in Items : \A up : \A r \in ItemRow : RefOK(i, r, up) =>
           /\ RefOK(i, [r EXCEPT !.status = "RELEASED"], up)
           /\ RefOK(i, [r EXCEPT !.status = "FAILED"], up)
  BY DEF RefOK, NoItem, ItemRow

LEMMA UpstreamMoves ==
    ASSUME TypeInv, NEW c \in Sessions, Moves(c)
    PROVE  UpstreamStable
  <1>0. upstream \in [Refs -> {"none", "held", "confirmed", "released"}]
      BY DEF TypeInv, TypeOK, OutsideOK
  <1>1. CASE CreateReserve(c)
      BY <1>0, <1>1 DEF CreateReserve, UpstreamReserved, UpstreamStable
  <1>2. CASE CreateCompensate(c) \/ ReleaseHeldItem(c)
      BY <1>0, <1>2
         DEF CreateCompensate, ReleaseHeldItem, ReleaseItem, UpstreamReleased, UpstreamStable
  <1>3. CASE ConfirmItem(c)
      BY <1>0, <1>3 DEF ConfirmItem, UpstreamConfirmed, UpstreamUnconfirmed, UpstreamStable
  <1>4. CASE Start(c) \/ Sweep(c) \/ DeadlockAbort(c) \/ Crash(c)
      BY <1>4 DEF Start, CreateFind, ConfirmRead, CancelRead, ReadOrRefuse, Sweep,
                  DeadlockAbort, Crash, UpstreamStable
  <1>5. CASE \/ CreateInsert(c) \/ CreateAddItem(c) \/ CreateHold(c) \/ CreateCommitLocal(c)
             \/ CreateLoadItem(c) \/ CreateMarkCancelled(c) \/ CreateMarkPending(c)
      BY <1>5 DEF CreateInsert, CreateAddItem, CreateHold, CreateCommitLocal, CreateLoadItem,
                  CreateMarkCancelled, CreateMarkPending, UpstreamStable
  <1>6. CASE \/ ConfirmLock(c) \/ ConfirmRefresh(c) \/ ConfirmItems(c) \/ ConfirmFinal(c)
             \/ ExpireReload(c) \/ LoadHeldItems(c) \/ CancelFinal(c) \/ ExpireFinal(c)
      BY <1>6 DEF ConfirmLock, ConfirmRefresh, ConfirmItems, ConfirmFinal, ExpireReload,
                  LoadHeldItems, CancelFinal, ExpireFinal, UpstreamStable
  <1> QED BY <1>1, <1>2, <1>3, <1>4, <1>5, <1>6 DEF Moves, Continue

LEMMA RefStable ==
    ASSUME UpstreamStable, NEW i \in Items, NEW r, RefOK(i, r, upstream)
    PROVE  RefOK(i, r, upstream')
  BY CheckoutAssumption DEF RefOK, UpstreamStable

\* Only a confirmation goes to its loop.
LEMMA ConfirmLoop ==
    ASSUME TypeInv, NEW c \in Sessions, Moves(c), pc'[c] = "confirmItem"
    PROVE  ConfirmItems(c) \/ ConfirmItem(c)
  <1> SUFFICES ASSUME ~ConfirmItems(c), ~ConfirmItem(c) PROVE FALSE
      OBVIOUS
  <1>1. ASSUME NEW res, Rollback(c, res) PROVE FALSE
      BY <1>1, BlocksHere DEF Rollback
  <1>2. CASE Start(c) \/ Sweep(c)
      BY <1>2, BlocksHere
         DEF Start, CreateFind, ConfirmRead, CancelRead, ReadOrRefuse, Sweep, TypeInv, TypeOK
  <1>3. CASE CreateInsert(c)
      BY <1>1, <1>3, VisitHere DEF CreateInsert
  <1>4. CASE CreateAddItem(c)
      BY <1>4, BlocksHere DEF CreateAddItem
  <1>5. CASE CreateHold(c)
      BY <1>1, <1>5, VisitHere DEF CreateHold
  <1>6. CASE CreateCommitLocal(c)
      BY <1>6, VisitHere DEF CreateCommitLocal
  <1>7. CASE CreateLoadItem(c) \/ CreateReserve(c)
      BY <1>7, BlocksHere, NextUpstreamHere DEF CreateLoadItem, CreateReserve
  <1>8. CASE CreateCompensate(c) \/ ReleaseHeldItem(c) \/ LoadHeldItems(c)
      BY <1>8, VisitHere DEF CreateCompensate, ReleaseHeldItem, LoadHeldItems
  <1>9. CASE CreateMarkCancelled(c) \/ CreateMarkPending(c) \/ CancelFinal(c) \/ ConfirmFinal(c)
      BY <1>1, <1>9, BlocksHere
         DEF CreateMarkCancelled, CreateMarkPending, CancelFinal, ConfirmFinal
  <1>10. CASE ConfirmLock(c) \/ ConfirmRefresh(c) \/ ExpireReload(c) \/ ExpireFinal(c)
      BY <1>1, <1>10, BlocksHere DEF ConfirmLock, ConfirmRefresh, ExpireReload, ExpireFinal
  <1>11. CASE DeadlockAbort(c) \/ Crash(c)
      BY <1>1, <1>11 DEF DeadlockAbort, Crash
  <1> QED BY <1>2, <1>3, <1>4, <1>5, <1>6, <1>7, <1>8, <1>9, <1>10, <1>11 DEF Moves, Continue

\* What the step leaves in session c's loaded items.
LEMMA AttrsRef ==
    ASSUME TypeInv, LockInv, RefInv, NEW c \in Sessions, Moves(c), NEW j \in Items
    PROVE  RefOK(j, attrs'[c][j], upstream')
  <1> DEFINE i == at[c]
             p == ProductOf[i]
  <1>0. UpstreamStable
      BY UpstreamMoves
  <1>1. ASSUME attrs'[c][j] \in {attrs[c][j], item[j], NoItem}
        PROVE  RefOK(j, attrs'[c][j], upstream')
      BY <1>0, <1>1, RefStable, RefFacts DEF RefInv
  <1>2. ASSUME NEW r, attrs'[c] = [attrs[c] EXCEPT ![i] = r], RefOK(i, r, upstream')
        PROVE  RefOK(j, attrs'[c][j], upstream')
    <2>1. attrs'[c][j] = IF j = i THEN r ELSE attrs[c][j]
        BY <1>2 DEF TypeInv, TypeOK, MemoryOK
    <2> QED BY <1>1, <1>2, <2>1
  <1>3. pc[c] \in ItemSteps =>
            /\ i \in Items /\ attrs[c][i] \in ItemRow
            /\ RefOK(i, attrs[c][i], upstream) /\ RefOK(i, attrs[c][i], upstream')
    <2>1. pc[c] \in ItemSteps => i \in Items /\ attrs[c][i] \in ItemRow
        BY AtItem DEF TypeInv, TypeOK, MemoryOK
    <2> QED BY <1>0, <2>1, RefStable DEF RefInv
  <1>4. CASE EndTransaction(c)
    <2>1. attrs'[c][j] = NoItem
        BY <1>4, BlocksHere
    <2> QED BY <1>1, <2>1
  <1>5. CASE attrs' = attrs \/ LoadItems(c)
    <2>1. attrs'[c][j] \in {attrs[c][j], item[j], NoItem}
        BY <1>5, BlocksHere
    <2> QED BY <1>1, <2>1
  <1>6. CASE CreateAddItem(c)
    <2>1. attrs'[c] = [attrs[c] EXCEPT ![i] = [status |-> "HELD_LOCAL", ref |-> FALSE]]
        BY <1>6, BlocksHere DEF CreateAddItem
    <2>2. i \in Items
        BY <1>3, <1>6 DEF CreateAddItem, ItemSteps
    <2> QED BY <1>2, <2>1, <2>2, RefFacts
  <1>7. CASE CreateLoadItem(c)
    <2>1. attrs'[c] = [attrs[c] EXCEPT ![i] = item[i]]
        BY <1>7 DEF CreateLoadItem, TypeInv, TypeOK, MemoryOK
    <2>2. attrs'[c][j] \in {attrs[c][j], item[j]}
        BY <2>1 DEF TypeInv, TypeOK, MemoryOK
    <2> QED BY <1>1, <2>2
  <1>8. CASE CreateReserve(c)
    <2>1. i \in Items
        BY <1>3, <1>8 DEF CreateReserve, ItemSteps
    <2>2. RefOK(i, [status |-> "HELD", ref |-> p \in Reservable], upstream')
        BY DEF RefOK
    <2>3. RefOK(i, [status |-> "FAILED", ref |-> FALSE], upstream')
        BY <2>1, RefFacts
    <2>4. PICK r : WriteItem(c, i, r) /\ RefOK(i, r, upstream')
        BY <1>8, <2>2, <2>3 DEF CreateReserve
    <2>5. attrs'[c] = [attrs[c] EXCEPT ![i] = r]
        BY <2>4, BlocksHere
    <2> QED BY <1>2, <2>4, <2>5
  <1>9. CASE ReleaseItem(c, i) /\ pc[c] \in ItemSteps
    <2> DEFINE new == [attrs[c][i] EXCEPT !.status = "RELEASED"]
    <2>1. WriteItem(c, i, new)
        BY <1>9 DEF ReleaseItem
    <2>2. attrs'[c] = [attrs[c] EXCEPT ![i] = new]
        BY <2>1, BlocksHere
    <2>3. RefOK(i, new, upstream')
        BY <1>3, <1>9, RefFacts
    <2> QED BY <1>2, <2>2, <2>3
  <1>10. CASE ConfirmItem(c)
    <2>0. /\ i \in Items /\ attrs[c][i] \in ItemRow /\ RefOK(i, attrs[c][i], upstream')
        BY <1>3, <1>10 DEF ConfirmItem, ItemSteps
    <2>1. CASE /\ UpstreamConfirmed(c, i)
               /\ WriteItem(c, i, [attrs[c][i] EXCEPT !.status = "CONFIRMED"])
      <3> DEFINE new == [attrs[c][i] EXCEPT !.status = "CONFIRMED"]
      <3>1. attrs[c][i].status = "HELD"
          BY <1>10 DEF ConfirmItem, RefInv, ConfirmsHeld, LockInv, LockOK, LoopInCart, ItemSteps
      <3>2. attrs[c][i].ref => upstream'[RefOf[i]] = "confirmed"
          BY <2>0, <2>1, CheckoutAssumption DEF UpstreamConfirmed, TypeInv, TypeOK, OutsideOK
      <3>3. RefOK(i, new, upstream')
          BY <2>0, <3>1, <3>2 DEF RefOK, ItemRow
      <3>4. attrs'[c] = [attrs[c] EXCEPT ![i] = new]
          BY <2>1, BlocksHere
      <3> QED BY <1>2, <3>3, <3>4
    <2>2. CASE WriteItem(c, i, [attrs[c][i] EXCEPT !.status = "FAILED"])
      <3> DEFINE new == [attrs[c][i] EXCEPT !.status = "FAILED"]
      <3>1. attrs'[c] = [attrs[c] EXCEPT ![i] = new]
          BY <2>2, BlocksHere
      <3>2. RefOK(i, new, upstream')
          BY <2>0, RefFacts
      <3> QED BY <1>2, <3>1, <3>2
    <2> QED BY <1>5, <1>10, <2>1, <2>2 DEF ConfirmItem
  <1>11. CASE Start(c) \/ Sweep(c)
      BY <1>5, <1>11 DEF Start, CreateFind, ConfirmRead, CancelRead, ReadOrRefuse, Sweep
  <1>12. CASE CreateInsert(c) \/ CreateHold(c) \/ CreateMarkCancelled(c)
      BY <1>4, <1>5, <1>12 DEF CreateInsert, CreateHold, CreateMarkCancelled, Rollback
  <1>13. CASE CreateCommitLocal(c) \/ CreateMarkPending(c)
      BY <1>4, <1>13 DEF CreateCommitLocal, CreateMarkPending, Commit
  <1>14. CASE CreateCompensate(c) \/ ReleaseHeldItem(c)
      BY <1>9, <1>14 DEF CreateCompensate, ReleaseHeldItem, ItemSteps
  <1>15. CASE ConfirmLock(c) \/ ConfirmFinal(c) \/ CancelFinal(c) \/ ExpireFinal(c)
      BY <1>4, <1>15 DEF ConfirmLock, ConfirmFinal, CancelFinal, ExpireFinal, Commit, Rollback
  <1>16. CASE ConfirmRefresh(c) \/ ExpireReload(c) \/ ConfirmItems(c) \/ LoadHeldItems(c)
      BY <1>5, <1>16 DEF ConfirmRefresh, ExpireReload, ConfirmItems, LoadHeldItems
  <1>17. CASE DeadlockAbort(c) \/ Crash(c)
      BY <1>4, <1>17 DEF DeadlockAbort, Crash, Rollback
  <1> QED BY <1>6, <1>7, <1>8, <1>10, <1>11, <1>12, <1>13, <1>14, <1>15, <1>16, <1>17
          DEF Moves, Continue

LEMMA MovesRef ==
    ASSUME TypeInv, LockInv, RefInv, NEW c \in Sessions, Moves(c)
    PROVE  RefInv'
  <1>0. UpstreamStable
      BY UpstreamMoves
  <1>1. ASSUME NEW i \in Items PROVE RefOK(i, item'[i], upstream')
    <2>1. RefOK(i, FlushedItem(c, i), upstream)
        BY DEF RefInv, RefOK, FlushedItem
    <2>2. item'[i] \in {item[i], FlushedItem(c, i)}
        BY ItemMoves DEF TypeInv, TypeOK, DatabaseOK
    <2>3. RefOK(i, item[i], upstream)
        BY DEF RefInv
    <2> QED BY <1>0, <2>1, <2>2, <2>3, RefStable
  <1>2. ASSUME NEW d \in Sessions, NEW i \in Items PROVE RefOK(i, attrs'[d][i], upstream')
    <2>1. CASE d = c
        BY <2>1, AttrsRef
    <2>2. CASE d # c
      <3>1. attrs'[d] = attrs[d]
          BY <2>2, OthersUndisturbed DEF Undisturbed, KeepsObjects
      <3> QED BY <1>0, <3>1, RefStable DEF RefInv
    <2> QED BY <2>1, <2>2
  <1>3. ASSUME NEW d \in Sessions PROVE ConfirmsHeld(d)'
    <2>1. CASE d # c
        BY <2>1, OthersUndisturbed
           DEF Undisturbed, KeepsObjects, KeepsPlace, RefInv, ConfirmsHeld
    <2>2. CASE d = c /\ ConfirmItems(c)
      <3>1. todo'[c] = {i \in Cart(target[c]) : item[i].status = "HELD"}
          BY <2>2, VisitHere DEF ConfirmItems
      <3>2. \A i \in Items :
                attrs'[c][i] = IF CartOf[i] = target[c] THEN item[i] ELSE NoItem
          BY <2>2, BlocksHere DEF ConfirmItems
      <3> QED BY <2>2, <3>1, <3>2 DEF ConfirmsHeld, Cart
    <2>3. CASE d = c /\ ConfirmItem(c)
      <3>1. todo'[c] = todo[c] \ {at[c]}
          BY <2>3, VisitHere DEF ConfirmItem
      <3>2. \A j \in Items \ {at[c]} : attrs'[c][j] = attrs[c][j]
          BY <2>3 DEF ConfirmItem, WriteItem, TypeInv, TypeOK, MemoryOK
      <3>3. \A j \in todo[c] : j \in Items /\ attrs[c][j].status = "HELD"
          BY <2>3 DEF ConfirmItem, RefInv, ConfirmsHeld, TypeInv, TypeOK, CursorOK
      <3> QED BY <2>3, <3>1, <3>2, <3>3 DEF ConfirmsHeld
    <2> QED BY <2>1, <2>2, <2>3, ConfirmLoop DEF ConfirmsHeld
  <1> QED BY <1>1, <1>2, <1>3 DEF RefInv

LEMMA InitRef == Init => RefInv
  BY DEF Init, RefInv, RefOK, NoItem, ConfirmsHeld

LEMMA NextRef == TypeInv /\ LockInv /\ RefInv /\ [Next]_vars => RefInv'
  <1> SUFFICES ASSUME TypeInv, LockInv, RefInv, [Next]_vars PROVE RefInv'
      OBVIOUS
  <1>1. ASSUME NEW c \in Sessions, Moves(c) PROVE RefInv'
      BY <1>1, MovesRef
  <1>2. CASE (\E r \in Reservations : PassTTL(r)) \/ UNCHANGED vars
      BY <1>2 DEF PassTTL, vars, RefInv, ConfirmsHeld
  <1> QED BY <1>1, <1>2 DEF Next, Finished, Moves

\* An item that is CONFIRMED and has a reference has been confirmed by its
\* provider, however confirm, create, cancel and the sweep overlap on it.
THEOREM ConfirmedIsUpstream == Spec => []ConfirmedUpstream
  <1>1. RefInv => ConfirmedUpstream
      BY DEF RefInv, RefOK, ConfirmedUpstream
  <1> QED BY <1>1, InitType, NextType, InitLock, NextLock, InitRef, NextRef, PTL DEF Spec

-----------------------------------------------------------------------------
(* Reservation rows come before their items, and stay. *)

Outside == {"idle", "done", "insert"}

\* Nothing of a reservation is committed before its row.
RowsBeforeItems ==
    \A r \in Reservations : resv[r].status = "absent" =>
        \A i \in Cart(r) : item[i].status = "absent"

\* The row session c works on is there, or c is about to commit it.
RowStanding(c) ==
    /\ pc[c] \in Inserting => resv[target[c]].status = "absent"
    /\ pc[c] \notin Inserting \cup Outside => resv[target[c]].status # "absent"
    /\ \A r \in batch[c] : resv[r].status # "absent"

RowsInv == RowsBeforeItems /\ \A c \in Sessions : RowStanding(c)

LEMMA InitRows == Init => RowsInv
  BY DEF Init, RowsInv, RowsBeforeItems, RowStanding, Inserting, Outside, NoResv, NoItem, Cart

LEMMA TransitionedStatus ==
    ASSUME TypeInv, NEW c \in Sessions, target[c] \in Reservations, NEW new,
           NEW r \in Reservations
    PROVE  Transitioned(c, new)[r].status =
               IF r = target[c] /\ row[c].status # new THEN new ELSE resv[r].status
  BY DEF TypeInv, TypeOK, DatabaseOK, Transitioned

\* A step changes at most the row its session works on, which it has read or
\* is about to insert.
LEMMA RowMoves ==
    ASSUME TypeInv, NEW c \in Sessions, Moves(c), NEW r \in Reservations
    PROVE  \/ resv'[r].status = resv[r].status
           \/ /\ r = target[c] /\ resv'[r].status # "absent"
              /\ pc[c] = "commitLocal" \/ pc[c] \notin Inserting \cup Outside
  <1>1. CASE resv' = resv
      BY <1>1
  <1>2. CASE CreateCommitLocal(c)
      BY <1>2 DEF CreateCommitLocal, Commit, TypeInv, TypeOK, DatabaseOK
  <1>3. CASE CreateMarkPending(c)
      BY <1>3 DEF CreateMarkPending, Commit, Inserting, Outside, TypeInv, TypeOK, DatabaseOK, ResvRow
  <1>4. ASSUME NEW new \in {"CONFIRMING", "CONFIRMED", "CANCELLED", "EXPIRED"},
               Commit(c, Transitioned(c, new)), pc[c] \notin Inserting \cup Outside
        PROVE  \/ resv'[r].status = resv[r].status
               \/ r = target[c] /\ resv'[r].status # "absent"
    <2>1. target[c] \in Reservations
        BY <1>4 DEF TypeInv, OnCourse, Outside
    <2> QED BY <1>4, <2>1, TransitionedStatus DEF Commit
  <1>5. CASE ConfirmLock(c) \/ ConfirmFinal(c) \/ CancelFinal(c) \/ ExpireFinal(c)
    <2>1. pc[c] \notin Inserting \cup Outside
        BY <1>5 DEF ConfirmLock, ConfirmFinal, CancelFinal, ExpireFinal, Inserting, Outside
    <2>2. \/ resv' = resv
          \/ \E new \in {"CONFIRMING", "CONFIRMED", "CANCELLED", "EXPIRED"} :
                 Commit(c, Transitioned(c, new))
        BY <1>5 DEF ConfirmLock, ConfirmFinal, CancelFinal, ExpireFinal, Rollback, Commit
    <2> QED BY <1>1, <1>4, <2>1, <2>2
  <1>6. CASE Start(c) \/ Sweep(c) \/ DeadlockAbort(c) \/ Crash(c)
      BY <1>1, <1>6 DEF Start, CreateFind, ConfirmRead, CancelRead, ReadOrRefuse, Sweep,
                        DeadlockAbort, Crash, Rollback
  <1>7. CASE \/ CreateInsert(c) \/ CreateAddItem(c) \/ CreateHold(c) \/ CreateLoadItem(c)
             \/ CreateReserve(c) \/ CreateCompensate(c) \/ CreateMarkCancelled(c)
      BY <1>1, <1>7 DEF CreateInsert, CreateAddItem, CreateHold, CreateLoadItem, CreateReserve,
                        CreateCompensate, CreateMarkCancelled, Rollback
  <1>8. CASE \/ ConfirmRefresh(c) \/ ConfirmItems(c) \/ ConfirmItem(c)
             \/ ExpireReload(c) \/ LoadHeldItems(c) \/ ReleaseHeldItem(c)
      BY <1>1, <1>8 DEF ConfirmRefresh, ConfirmItems, ConfirmItem, ExpireReload, LoadHeldItems,
                        ReleaseHeldItem
  <1> QED BY <1>2, <1>3, <1>5, <1>6, <1>7, <1>8 DEF Moves, Continue

\* Where a step of session c starts and where it ends.
LEMMA Course ==
    ASSUME TypeInv, NEW c \in Sessions, Moves(c)
    PROVE  \/ pc'[c] \in {"idle", "done"}
           \/ /\ pc[c] = "insert" /\ pc'[c] \in {"addItem", "commitLocal"}
              /\ CreateInsert(c)
           \/ pc[c] \in {"addItem", "hold"} /\ pc'[c] \in Inserting /\ UNCHANGED target
           \/ /\ pc[c] = "commitLocal" /\ CreateCommitLocal(c)
              /\ pc'[c] \notin Inserting \cup Outside
           \/ /\ pc[c] \notin Inserting \cup Outside /\ pc'[c] \notin Inserting \cup Outside
              /\ UNCHANGED <<target, batch>>
           \/ /\ pc[c] = "idle" /\ pc'[c] \notin Inserting \cup {"idle", "done"}
              /\ Start(c) \/ Sweep(c)
           \/ pc[c] = "close" /\ pc'[c] = "reload" /\ ExpireFinal(c)
  <1> USE DEF Inserting, Outside
  <1>1. ASSUME NEW res, Rollback(c, res) PROVE pc'[c] \in {"idle", "done"}
      BY <1>1, BlocksHere DEF Rollback
  <1>2. CASE Start(c) \/ Sweep(c)
      BY <1>2, BlocksHere
         DEF Start, CreateFind, ConfirmRead, CancelRead, ReadOrRefuse, Sweep, TypeInv, TypeOK
  <1>3. CASE CreateInsert(c)
      BY <1>1, <1>3, VisitHere DEF CreateInsert
  <1>4. CASE CreateAddItem(c)
      BY <1>4, BlocksHere DEF CreateAddItem
  <1>5. CASE CreateHold(c)
      BY <1>1, <1>5, VisitHere DEF CreateHold
  <1>6. CASE CreateCommitLocal(c)
      BY <1>6, VisitHere DEF CreateCommitLocal
  <1>7. CASE CreateLoadItem(c) \/ CreateReserve(c)
      BY <1>7, BlocksHere, NextUpstreamHere DEF CreateLoadItem, CreateReserve
  <1>8. CASE CreateCompensate(c) \/ ReleaseHeldItem(c) \/ LoadHeldItems(c)
      BY <1>8, VisitHere DEF CreateCompensate, ReleaseHeldItem, LoadHeldItems
  <1>9. CASE CreateMarkCancelled(c) \/ CreateMarkPending(c) \/ CancelFinal(c) \/ ConfirmFinal(c)
      BY <1>1, <1>9, BlocksHere
         DEF CreateMarkCancelled, CreateMarkPending, CancelFinal, ConfirmFinal
  <1>10. CASE ConfirmLock(c) \/ ConfirmRefresh(c) \/ ExpireReload(c)
      BY <1>1, <1>10, BlocksHere DEF ConfirmLock, ConfirmRefresh, ExpireReload
  <1>11. CASE ConfirmItems(c) \/ ConfirmItem(c)
      BY <1>11, VisitHere DEF ConfirmItems, ConfirmItem
  <1>12. CASE ExpireFinal(c)
      BY <1>12, BlocksHere DEF ExpireFinal
  <1>13. CASE DeadlockAbort(c) \/ Crash(c)
      BY <1>1, <1>13 DEF DeadlockAbort, Crash
  <1> QED BY <1>2, <1>3, <1>4, <1>5, <1>6, <1>7, <1>8, <1>9, <1>10, <1>11, <1>12, <1>13
          DEF Moves, Continue

LEMMA MovesRows ==
    ASSUME TypeInv, LockInv, RowsInv, NEW c \in Sessions, Moves(c)
    PROVE  RowsInv'
  <1>0. \A r \in Reservations : resv[r].status # "absent" => resv'[r].status # "absent"
      BY RowMoves
  <1>1. ASSUME NEW r \in Reservations, resv'[r].status = "absent", NEW i \in Cart(r)
        PROVE  item'[i].status = "absent"
    <2>1. resv[r].status = "absent" /\ item[i].status = "absent" /\ i \in Items /\ CartOf[i] = r
        BY <1>0, <1>1 DEF RowsInv, RowsBeforeItems, Cart
    <2>2. CASE item' = item
        BY <2>1, <2>2
    <2>3. CASE /\ item' = [j \in Items |-> IF j \in dirty[c] THEN FlushedItem(c, j) ELSE item[j]]
               /\ pc[c] \notin {"idle", "done", "insert", "addItem", "hold"}
               /\ pc[c] = "commitLocal" => CreateCommitLocal(c)
      <3>1. resv'[target[c]].status # "absent"
        <4>1. target[c] \in Reservations
            BY <2>3 DEF TypeInv, OnCourse
        <4>2. CASE pc[c] = "commitLocal"
            BY <2>3, <4>1, <4>2 DEF CreateCommitLocal, Commit, TypeInv, TypeOK, DatabaseOK
        <4>3. CASE pc[c] # "commitLocal"
            BY <1>0, <2>3, <4>1, <4>3 DEF RowsInv, RowStanding, Inserting, Outside
        <4> QED BY <4>2, <4>3
      <3>2. r # target[c]
          BY <1>1, <3>1
      <3>3. i \notin dirty[c]
          BY <2>1, <3>2 DEF LockInv, LockOK, DirtyGuarded, Cart
      <3> QED BY <2>1, <2>3, <3>3
    <2> QED BY <2>2, <2>3, ItemMoves
  <1>2. ASSUME NEW d \in Sessions, d # c PROVE RowStanding(d)'
    <2>1. pc'[d] = pc[d] /\ target'[d] = target[d] /\ batch'[d] = batch[d]
        BY <1>2, OthersUndisturbed DEF Undisturbed, KeepsPlace
    <2>2. /\ pc[d] \notin Outside => target[d] \in Reservations
          /\ batch[d] \subseteq Reservations
        BY DEF TypeInv, TypeOK, CursorOK, OnCourse, Outside
    <2>3. ASSUME pc[d] \in Inserting PROVE resv'[target[d]].status = "absent"
      <3>1. target[d] \in Reservations /\ resv[target[d]].status = "absent"
          BY <2>2, <2>3 DEF RowsInv, RowStanding, Inserting, Outside
      <3>2. holder[target[d]] = d
          BY <2>3 DEF LockInv, LockOK, RowHeld
      <3>3. pc[c] = "commitLocal" => target[c] # target[d]
          BY <1>2, <3>2 DEF LockInv, LockOK, RowHeld, Inserting
      <3>4. pc[c] \notin Inserting \cup Outside => target[c] # target[d]
          BY <3>1 DEF RowsInv, RowStanding
      <3> QED BY <3>1, <3>3, <3>4, RowMoves
    <2> QED BY <1>0, <2>1, <2>2, <2>3 DEF RowsInv, RowStanding
  <1>3. RowStanding(c)'
    <2>0. /\ pc[c] \notin {"idle", "done"} => target[c] \in Reservations
          /\ batch[c] \subseteq Reservations
        BY DEF TypeInv, TypeOK, CursorOK, OnCourse
    <2>1. ASSUME NEW r \in batch'[c] PROVE resv'[r].status # "absent"
      <3>1. batch'[c] \subseteq batch[c] \/ Sweep(c)
        <4>1. CASE ExpireFinal(c)
            BY <4>1, BlocksHere DEF ExpireFinal, TypeInv, TypeOK, CursorOK
        <4>2. ASSUME NEW res, Leave(c, res) PROVE batch'[c] \subseteq batch[c]
            BY <4>2, BlocksHere
        <4>3. CASE batch' = batch
            BY <4>3
        <4>4. CASE Start(c) \/ DeadlockAbort(c) \/ Crash(c)
            BY <4>2, <4>3, <4>4
               DEF Start, CreateFind, ConfirmRead, CancelRead, ReadOrRefuse, DeadlockAbort,
                   Crash, Rollback
        <4>5. CASE \/ CreateInsert(c) \/ CreateAddItem(c) \/ CreateHold(c) \/ CreateCommitLocal(c)
                   \/ CreateLoadItem(c) \/ CreateReserve(c) \/ CreateCompensate(c)
                   \/ CreateMarkCancelled(c) \/ CreateMarkPending(c)
            BY <4>2, <4>3, <4>5
               DEF CreateInsert, CreateAddItem, CreateHold, CreateCommitLocal, CreateLoadItem,
                   CreateReserve, CreateCompensate, CreateMarkCancelled, CreateMarkPending,
                   Rollback
        <4>6. CASE \/ ConfirmLock(c) \/ ConfirmRefresh(c) \/ ConfirmItems(c) \/ ConfirmItem(c)
                   \/ ConfirmFinal(c) \/ ExpireReload(c) \/ LoadHeldItems(c)
                   \/ ReleaseHeldItem(c) \/ CancelFinal(c)
            BY <4>2, <4>3, <4>6
               DEF ConfirmLock, ConfirmRefresh, ConfirmItems, ConfirmItem, ConfirmFinal,
                   ExpireReload, LoadHeldItems, ReleaseHeldItem, CancelFinal, Rollback
        <4> QED BY <4>1, <4>4, <4>5, <4>6 DEF Moves, Continue
      <3>2. CASE batch'[c] \subseteq batch[c]
          BY <1>0, <2>0, <2>1, <3>2 DEF RowsInv, RowStanding
      <3>3. CASE Sweep(c)
          BY <2>1, <3>3 DEF Sweep, FoundExpired, Open, TypeInv, TypeOK, CursorOK
      <3> QED BY <3>1, <3>2, <3>3
    <2>2. /\ pc'[c] \in Inserting => resv'[target'[c]].status = "absent"
          /\ pc'[c] \notin Inserting \cup Outside => resv'[target'[c]].status # "absent"
      <3>1. CASE pc'[c] \in {"idle", "done"}
          BY <3>1 DEF Inserting, Outside
      <3>2. CASE pc'[c] \in {"addItem", "commitLocal"} /\ CreateInsert(c)
          BY <3>2, BlocksHere DEF CreateInsert, Rollback, Inserting, Outside
      <3>3. CASE pc[c] \in {"addItem", "hold"} /\ pc'[c] \in Inserting /\ UNCHANGED target
          BY <2>0, <3>3, RowMoves DEF RowsInv, RowStanding, Inserting, Outside
      <3>4. CASE /\ pc[c] = "commitLocal" /\ CreateCommitLocal(c)
                 /\ pc'[c] \notin Inserting \cup Outside
          BY <2>0, <3>4 DEF CreateCommitLocal, Commit, TypeInv, TypeOK, DatabaseOK
      <3>5. CASE /\ pc[c] \notin Inserting \cup Outside /\ pc'[c] \notin Inserting \cup Outside
                 /\ UNCHANGED target
          BY <1>0, <2>0, <3>5 DEF RowsInv, RowStanding, Inserting, Outside
      <3>6. CASE pc'[c] \notin Inserting \cup {"idle", "done"} /\ Start(c)
          BY <3>6, BlocksHere
             DEF Start, CreateFind, ConfirmRead, CancelRead, ReadOrRefuse, Confirmable, Open,
                 Outside, TypeInv, TypeOK, CursorOK
      <3>7. CASE pc'[c] \notin Inserting \cup {"idle", "done"} /\ Sweep(c)
          BY <3>7 DEF Sweep, FoundExpired, Open, TypeInv, TypeOK, CursorOK
      <3>8. CASE pc[c] = "close" /\ pc'[c] = "reload" /\ ExpireFinal(c)
        <4>1. target'[c] \in batch[c]
            BY <3>8, BlocksHere DEF ExpireFinal, TypeInv, TypeOK, CursorOK
        <4> QED BY <1>0, <2>0, <3>8, <4>1 DEF RowsInv, RowStanding, Inserting, Outside
      <3> QED BY <3>1, <3>2, <3>3, <3>4, <3>5, <3>6, <3>7, <3>8, Course
    <2> QED BY <2>1, <2>2 DEF RowStanding
  <1> QED BY <1>1, <1>2, <1>3 DEF RowsInv, RowsBeforeItems

-----------------------------------------------------------------------------
(* What a session has loaded and written of its items. *)

\* What has been loaded, once the first commit is over, is there.
LoadedStand(c) ==
    pc[c] \notin Inserting =>
        \A i \in Items : attrs[c][i].status # "absent" => item[i].status # "absent"

\* What has been written is loaded, and a checkout writes local holds first.
DirtyKnown(c) ==
    /\ IsFiniteSet(dirty[c])
    /\ \A i \in dirty[c] : /\ attrs[c][i].status # "absent"
                           /\ pc[c] \in Inserting => attrs[c][i].status = "HELD_LOCAL"

\* A loop that writes each of its items has not yet written those to come.
LoopFresh(c) ==
    /\ pc[c] \in {"addItem", "loadItem", "reserve", "confirmItem", "release"} =>
           todo[c] \cap dirty[c] = {}
    /\ pc[c] = "hold" => todo[c] \cap dirty[c] = {at[c]}

\* What the provider is asked to hold is held locally, and what is given back
\* is held.
LoopHolding(c) ==
    /\ pc[c] = "reserve" => attrs[c][at[c]].status = "HELD_LOCAL"
    /\ pc[c] \in {"release", "compensate"} => \A j \in todo[c] : attrs[c][j].status \in Holding

LoopOK(c) == LoadedStand(c) /\ DirtyKnown(c) /\ LoopFresh(c) /\ LoopHolding(c)

LoopInv == \A c \in Sessions : LoopOK(c)

\* The parts that hold whatever the ledger says.
BaseInv == TypeInv /\ LockInv /\ RefInv /\ RowsInv /\ LoopInv

USE DEF LoopOK

LEMMA InitLoop == Init => LoopInv
  BY FS_EmptySet
     DEF Init, LoopInv, LoadedStand, DirtyKnown, LoopFresh, LoopHolding, Inserting, NoItem

LEMMA ItemsStand ==
    ASSUME BaseInv, NEW c \in Sessions, Moves(c), NEW i \in Items, item[i].status # "absent"
    PROVE  item'[i].status # "absent"
  <1>1. i \in dirty[c] => FlushedItem(c, i).status # "absent"
      BY DEF BaseInv, LoopInv, DirtyKnown, FlushedItem
  <1>2. item'[i] = item[i] \/ (i \in dirty[c] /\ item'[i] = FlushedItem(c, i))
      BY ItemMoves DEF BaseInv
  <1> QED BY <1>1, <1>2

\* The step of a loop on its item: nothing else is loaded or written.
LEMMA LoopWritten ==
    ASSUME BaseInv, NEW c \in Sessions, pc[c] \in ItemSteps, NEW r \in ItemRow,
           attrs[c][at[c]].status # "absent", r.status # "absent",
           WriteItem(c, at[c], r), Moves(c),
           pc[c] \notin Inserting, pc'[c] \notin Inserting
    PROVE  LoadedStand(c)' /\ DirtyKnown(c)'
  <1> DEFINE i == at[c]
  <1>1. i \in Items
      BY AtItem DEF BaseInv
  <1>2. /\ dirty'[c] = dirty[c] \cup {i}
        /\ \A j \in Items : attrs'[c][j] = IF j = i THEN r ELSE attrs[c][j]
    <2>1. dirty'[c] = dirty[c] \cup {i} /\ attrs'[c] = [attrs[c] EXCEPT ![i] = r]
        BY BlocksHere DEF BaseInv
    <2> QED BY <2>1 DEF BaseInv, TypeInv, TypeOK, MemoryOK
  <1>3. IsFiniteSet(dirty'[c])
      BY <1>2, FS_AddElement DEF BaseInv, LoopInv, DirtyKnown
  <1>4. \A j \in dirty'[c] : j \in Items
      BY <1>1, <1>2 DEF BaseInv, TypeInv, TypeOK, MemoryOK
  <1>5. DirtyKnown(c)'
      BY <1>2, <1>3, <1>4 DEF BaseInv, LoopInv, DirtyKnown
  <1>6. LoadedStand(c)'
      BY <1>1, <1>2, ItemsStand DEF BaseInv, LoopInv, LoadedStand
  <1> QED BY <1>5, <1>6

\* A step that writes nothing and loads what is committed.
LEMMA LoopLoaded ==
    ASSUME BaseInv, NEW c \in Sessions, Moves(c), dirty'[c] = dirty[c],
           \A j \in Items : attrs'[c][j] \in {attrs[c][j], item[j], NoItem},
           pc[c] \notin Inserting, pc'[c] \notin Inserting,
           \A j \in dirty[c] : attrs'[c][j].status # "absent"
    PROVE  LoadedStand(c)' /\ DirtyKnown(c)'
  <1>1. DirtyKnown(c)'
      BY DEF BaseInv, LoopInv, DirtyKnown
  <1>2. LoadedStand(c)'
      BY ItemsStand DEF BaseInv, LoopInv, LoadedStand, NoItem
  <1> QED BY <1>1, <1>2

LEMMA LoopEnded ==
    ASSUME BaseInv, NEW c \in Sessions, EndTransaction(c),
           pc'[c] \notin {"reserve", "release", "compensate", "hold"}
    PROVE  LoopOK(c)'
  <1>1. dirty'[c] = {} /\ \A j \in Items : attrs'[c][j] = NoItem
      BY BlocksHere DEF BaseInv
  <1> QED BY <1>1, FS_EmptySet DEF LoadedStand, DirtyKnown, LoopFresh, LoopHolding, NoItem

\* One round of a releasing loop.
LEMMA LoopReleased ==
    ASSUME BaseInv, NEW c \in Sessions, Moves(c), pc[c] \in {"compensate", "release"},
           ReleaseItem(c, at[c]), todo'[c] = todo[c] \ {at[c]},
           pc'[c] \in {pc[c], "markCancelled", "close"}
    PROVE  LoopOK(c)'
  <1> DEFINE i == at[c]
             new == [attrs[c][i] EXCEPT !.status = "RELEASED"]
  <1>1. i \in todo[c] /\ attrs[c][i].status \in Holding /\ todo[c] \subseteq Items
      BY DEF BaseInv, LockInv, LockOK, LoopInCart, LoopInv, LoopHolding, ItemSteps, TypeInv,
             TypeOK, CursorOK
  <1>2. new \in ItemRow /\ new.status = "RELEASED"
    <2>1. new \in ItemRow
        BY <1>1, ItemSetType DEF BaseInv, ItemStatus
    <2>2. attrs[c][i] \in ItemRow
        BY <1>1 DEF BaseInv, TypeInv, TypeOK, MemoryOK
    <2> QED BY <2>1, <2>2 DEF ItemRow
  <1>3. WriteItem(c, i, new)
      BY DEF ReleaseItem
  <1>4. LoadedStand(c)' /\ DirtyKnown(c)'
    <2>1. attrs[c][i].status # "absent"
        BY <1>1 DEF Holding
    <2>2. pc[c] \in ItemSteps /\ pc[c] \notin Inserting /\ pc'[c] \notin Inserting
        BY DEF ItemSteps, Inserting
    <2> HIDE DEF new
    <2> QED BY <1>2, <1>3, <2>1, <2>2, LoopWritten
  <1>5. dirty'[c] = dirty[c] \cup {i} /\ attrs'[c] = [attrs[c] EXCEPT ![i] = new]
      BY <1>3, BlocksHere DEF BaseInv
  <1>6. \A j \in todo'[c] : attrs'[c][j] = attrs[c][j]
      BY <1>1, <1>5 DEF BaseInv, TypeInv, TypeOK, MemoryOK
  <1>7. LoopFresh(c)' /\ LoopHolding(c)'
      BY <1>5, <1>6 DEF BaseInv, LoopInv, LoopFresh, LoopHolding
  <1> QED BY <1>4, <1>7

LEMMA LoopOther ==
    ASSUME BaseInv, NEW c \in Sessions, NEW d \in Sessions, c # d, Moves(c)
    PROVE  LoopOK(d)'
  <1>1. /\ pc'[d] = pc[d] /\ todo'[d] = todo[d] /\ at'[d] = at[d]
        /\ attrs'[d] = attrs[d] /\ dirty'[d] = dirty[d]
      BY OthersUndisturbed DEF BaseInv, Undisturbed, KeepsPlace, KeepsObjects
  <1>2. LoadedStand(d)'
      BY <1>1, ItemsStand DEF BaseInv, LoopInv, LoadedStand
  <1> QED BY <1>1, <1>2 DEF BaseInv, LoopInv, DirtyKnown, LoopFresh, LoopHolding

LEMMA LoopHere ==
    ASSUME BaseInv, NEW c \in Sessions, Moves(c)
    PROVE  LoopOK(c)'
  <1> DEFINE i == at[c]
             p == ProductOf[i]
             rest == todo[c] \ {i}
  <1>0. /\ TypeInv /\ LoopOK(c) /\ ConfirmsHeld(c)
        /\ todo[c] \subseteq Items /\ dirty[c] \subseteq Items
        /\ pc[c] \in ItemSteps => i \in todo[c] /\ i \in Items
      BY DEF BaseInv, LoopInv, RefInv, LockInv, LockOK, LoopInCart, TypeInv, TypeOK,
             CursorOK, MemoryOK, OnCourse
  <1>1. ASSUME EndTransaction(c), pc'[c] \in {"idle", "done"} PROVE LoopOK(c)'
      BY <1>1, LoopEnded
  <1>2. ASSUME NEW res, Rollback(c, res) PROVE LoopOK(c)'
      BY <1>0, <1>1, <1>2, BlocksHere DEF Rollback
  <1>3. CASE Start(c) \/ Sweep(c)
    <2>1. UNCHANGED <<attrs, dirty, todo, item>>
        BY <1>3 DEF Start, CreateFind, ConfirmRead, CancelRead, ReadOrRefuse, Sweep
    <2>2. pc[c] = "idle" /\ pc'[c] \in {"insert", "done", "confirmLock", "heldItems"}
        BY <1>0, <1>3, BlocksHere
           DEF Start, CreateFind, ConfirmRead, CancelRead, ReadOrRefuse, Sweep, TypeInv, TypeOK
    <2> QED BY <1>0, <2>1, <2>2
            DEF LoadedStand, DirtyKnown, LoopFresh, LoopHolding, Inserting
  <1>4. CASE CreateInsert(c)
    <2>1. CASE ~Rollback(c, "integrityError")
      <3>1. /\ UNCHANGED <<attrs, dirty>> /\ dirty[c] = {}
            /\ pc'[c] \in {"addItem", "commitLocal"}
          BY <1>0, <1>4, <2>1, VisitHere
             DEF CreateInsert, BaseInv, LockInv, LockOK, FreshWhenClean, CleanSteps
      <3> QED BY <3>1, FS_EmptySet
              DEF LoadedStand, DirtyKnown, LoopFresh, LoopHolding, Inserting
    <2> QED BY <1>2, <2>1
  <1>5. CASE CreateAddItem(c)
    <2> DEFINE new == [status |-> "HELD_LOCAL", ref |-> FALSE]
    <2>1. /\ dirty'[c] = dirty[c] \cup {i}
          /\ attrs'[c] = [attrs[c] EXCEPT ![i] = new]
          /\ pc'[c] = "hold" /\ UNCHANGED <<todo, at>> /\ pc[c] = "addItem"
        BY <1>0, <1>5, BlocksHere DEF CreateAddItem
    <2>2. i \in todo[c] /\ i \in Items
        BY <1>0, <2>1 DEF ItemSteps
    <2>3. \A j \in Items : attrs'[c][j] = IF j = i THEN new ELSE attrs[c][j]
        BY <2>1 DEF BaseInv, TypeInv, TypeOK, MemoryOK
    <2>4. IsFiniteSet(dirty'[c])
        BY <1>0, <2>1, FS_AddElement DEF DirtyKnown
    <2>5. LoadedStand(c)' /\ LoopHolding(c)'
        BY <2>1 DEF LoadedStand, LoopHolding, Inserting
    <2>6. DirtyKnown(c)'
        BY <1>0, <2>1, <2>2, <2>3, <2>4 DEF DirtyKnown, Inserting
    <2>7. LoopFresh(c)'
        BY <1>0, <2>1, <2>2 DEF LoopFresh
    <2> QED BY <2>5, <2>6, <2>7
  <1>6. CASE CreateHold(c)
    <2>1. CASE ~Rollback(c, "failed")
      <3>1. /\ UNCHANGED <<attrs, dirty>> /\ todo'[c] = rest /\ pc[c] = "hold"
            /\ pc'[c] \in {"addItem", "commitLocal"}
          BY <1>0, <1>6, <2>1, VisitHere DEF CreateHold
      <3> QED BY <1>0, <3>1 DEF LoadedStand, DirtyKnown, LoopFresh, LoopHolding, Inserting
    <2> QED BY <1>2, <2>1
  <1>7. CASE CreateCommitLocal(c)
    <2>1. pc'[c] \in {"loadItem", "markPending"}
        BY <1>0, <1>7, VisitHere DEF CreateCommitLocal
    <2> QED BY <1>7, <2>1, LoopEnded DEF CreateCommitLocal, Commit
  <1>8. CASE CreateLoadItem(c)
    <2>1. /\ dirty' = dirty /\ attrs'[c] = [attrs[c] EXCEPT ![i] = item[i]]
          /\ pc[c] = "loadItem" /\ pc[c] \notin Inserting
        BY <1>8 DEF CreateLoadItem, BaseInv, TypeInv, TypeOK, MemoryOK, Inserting
    <2>2. i \in Items /\ i \in todo[c] /\ i \notin dirty[c]
        BY <1>0, <2>1 DEF ItemSteps, LoopFresh
    <2>3. \A j \in Items : attrs'[c][j] = IF j = i THEN item[j] ELSE attrs[c][j]
        BY <2>1 DEF BaseInv, TypeInv, TypeOK, MemoryOK
    <2>4. \A j \in dirty[c] : attrs'[c][j].status # "absent"
        BY <1>0, <2>2, <2>3 DEF DirtyKnown
    <2>5. CASE item[i].status = "HELD_LOCAL" /\ Goto(c, "reserve") /\ UNCHANGED <<todo, at>>
      <3>1. pc'[c] = "reserve"
          BY <1>0, <2>5, BlocksHere
      <3>2. LoopFresh(c)' /\ LoopHolding(c)'
          BY <1>0, <2>1, <2>2, <2>3, <2>5, <3>1 DEF LoopFresh, LoopHolding
      <3> QED BY <2>1, <2>3, <2>4, <3>1, <3>2, LoopLoaded DEF Inserting
    <2>6. CASE NextUpstream(c, attrs'[c])
      <3>1. \/ pc'[c] = "loadItem" /\ todo'[c] = rest
            \/ /\ pc'[c] = "compensate"
               /\ \A j \in todo'[c] : attrs'[c][j].status \in Holding
            \/ pc'[c] \in {"markCancelled", "markPending"}
          BY <1>0, <2>6, NextUpstreamHere
      <3>2. LoopFresh(c)' /\ LoopHolding(c)'
          BY <1>0, <2>1, <3>1 DEF LoopFresh, LoopHolding
      <3> QED BY <2>1, <2>3, <2>4, <3>1, <3>2, LoopLoaded DEF Inserting
    <2> QED BY <1>8, <2>5, <2>6 DEF CreateLoadItem
  <1>9. CASE CreateReserve(c)
    <2>0. pc[c] = "reserve" /\ i \in Items /\ i \in todo[c]
        BY <1>0, <1>9 DEF CreateReserve, ItemSteps
    <2>1. PICK r \in ItemRow : WriteItem(c, i, r) /\ r.status \in {"HELD", "FAILED"}
      <3> DEFINE yes == [status |-> "HELD", ref |-> p \in Reservable]
                 no == [status |-> "FAILED", ref |-> FALSE]
      <3>1. /\ yes \in ItemRow /\ yes.status = "HELD"
            /\ no \in ItemRow /\ no.status = "FAILED"
          BY DEF ItemRow, ItemStatus
      <3>2. WriteItem(c, i, yes) \/ WriteItem(c, i, no)
          BY <1>9 DEF CreateReserve
      <3> HIDE DEF yes, no
      <3> QED BY <3>1, <3>2
    <2>2. \/ pc'[c] = "loadItem" /\ todo'[c] = rest
          \/ /\ pc'[c] = "compensate"
             /\ \A j \in todo'[c] : attrs'[c][j].status \in Holding
          \/ pc'[c] \in {"markCancelled", "markPending"}
        BY <1>0, <1>9, NextUpstreamHere DEF CreateReserve
    <2>3. attrs[c][i].status # "absent"
        BY <1>0, <2>0 DEF LoopHolding
    <2>4. LoadedStand(c)' /\ DirtyKnown(c)'
        BY <2>0, <2>1, <2>2, <2>3, LoopWritten DEF Inserting, ItemSteps
    <2>5. dirty'[c] = dirty[c] \cup {i}
        BY <1>0, <2>1, BlocksHere
    <2>6. LoopFresh(c)' /\ LoopHolding(c)'
        BY <1>0, <2>0, <2>2, <2>5 DEF LoopFresh, LoopHolding
    <2> QED BY <2>4, <2>6
  <1>10. CASE CreateCompensate(c) \/ ReleaseHeldItem(c)
    <2>1. /\ ReleaseItem(c, i) /\ todo'[c] = rest /\ pc[c] \in {"compensate", "release"}
          /\ pc'[c] \in {pc[c], "markCancelled", "close"}
        BY <1>0, <1>10, VisitHere DEF CreateCompensate, ReleaseHeldItem
    <2> QED BY <2>1, LoopReleased
  <1>11. CASE CreateMarkCancelled(c) \/ CreateMarkPending(c) \/ CancelFinal(c) \/ ConfirmFinal(c)
      BY <1>0, <1>1, <1>2, <1>11, BlocksHere
         DEF CreateMarkCancelled, CreateMarkPending, CancelFinal, ConfirmFinal, Commit
  <1>12. CASE ConfirmLock(c)
    <2>1. CASE ~Rollback(c, "conflict")
      <3>1. pc'[c] = "confirmRefresh" /\ EndTransaction(c)
          BY <1>0, <1>12, <2>1, BlocksHere DEF ConfirmLock, Commit
      <3> QED BY <3>1, LoopEnded
    <2> QED BY <1>2, <2>1
  <1>13. CASE ConfirmRefresh(c) \/ ExpireReload(c)
    <2>1. /\ UNCHANGED <<attrs, dirty, item>> /\ pc'[c] \in {"confirmItems", "heldItems"}
          /\ pc[c] \in {"confirmRefresh", "reload"}
        BY <1>0, <1>13, BlocksHere DEF ConfirmRefresh, ExpireReload
    <2> QED BY <1>0, <2>1 DEF LoadedStand, DirtyKnown, LoopFresh, LoopHolding, Inserting
  <1>14. CASE ConfirmItems(c) \/ LoadHeldItems(c)
    <2>1. /\ LoadItems(c) /\ dirty' = dirty /\ dirty[c] = {}
          /\ pc[c] \in {"confirmItems", "heldItems"}
          /\ pc'[c] \in {"confirmItem", "confirmFinal", "release", "close"}
        BY <1>0, <1>14, VisitHere
           DEF ConfirmItems, LoadHeldItems, BaseInv, LockInv, LockOK, FreshWhenClean, CleanSteps
    <2>2. \A j \in Items : attrs'[c][j] = IF CartOf[j] = target[c] THEN item[j] ELSE NoItem
        BY <1>0, <2>1, BlocksHere
    <2>3. LoadedStand(c)' /\ DirtyKnown(c)'
        BY <2>1, <2>2, LoopLoaded DEF Inserting
    <2>4. pc'[c] = "release" =>
              todo'[c] = {j \in Cart(target[c]) : item[j].status \in Holding}
        BY <1>0, <1>14, VisitHere DEF ConfirmItems, LoadHeldItems
    <2>5. LoopFresh(c)' /\ LoopHolding(c)'
        BY <2>1, <2>2, <2>4 DEF LoopFresh, LoopHolding, Cart
    <2> QED BY <2>3, <2>5
  <1>15. CASE ConfirmItem(c)
    <2>0. /\ pc[c] = "confirmItem" /\ i \in todo[c] /\ i \in Items
          /\ attrs[c][i].status = "HELD" /\ attrs[c][i] \in ItemRow
        BY <1>0, <1>15 DEF ConfirmItem, ItemSteps, ConfirmsHeld, TypeInv, TypeOK, MemoryOK
    <2>1. /\ todo'[c] = rest /\ pc'[c] \in {"confirmItem", "confirmFinal"}
        BY <1>0, <1>15, VisitHere DEF ConfirmItem
    <2>2. CASE UNCHANGED <<attrs, dirty>>
      <3>1. LoadedStand(c)' /\ DirtyKnown(c)'
          BY <1>0, <2>0, <2>1, <2>2, LoopLoaded DEF Inserting, DirtyKnown
      <3>2. LoopFresh(c)' /\ LoopHolding(c)'
          BY <1>0, <2>0, <2>1, <2>2 DEF LoopFresh, LoopHolding
      <3> QED BY <3>1, <3>2
    <2>3. ASSUME NEW new \in {"CONFIRMED", "FAILED"},
                 WriteItem(c, i, [attrs[c][i] EXCEPT !.status = new])
          PROVE  LoopOK(c)'
      <3> DEFINE r == [attrs[c][i] EXCEPT !.status = new]
      <3>1. r \in ItemRow /\ r.status # "absent"
          BY <1>0, <2>0, ItemSetType DEF ItemStatus, ItemRow
      <3>2. WriteItem(c, i, r)
          BY <2>3
      <3> HIDE DEF r
      <3>3. LoadedStand(c)' /\ DirtyKnown(c)'
          BY <2>0, <2>1, <3>1, <3>2, LoopWritten DEF Inserting, ItemSteps
      <3>4. dirty'[c] = dirty[c] \cup {i}
          BY <1>0, <3>2, BlocksHere
      <3>5. LoopFresh(c)' /\ LoopHolding(c)'
          BY <1>0, <2>0, <2>1, <3>4 DEF LoopFresh, LoopHolding
      <3> QED BY <3>3, <3>5
    <2> QED BY <1>15, <2>2, <2>3 DEF ConfirmItem
  <1>16. CASE ExpireFinal(c)
    <2>1. pc'[c] \in {"idle", "done", "reload"} /\ EndTransaction(c)
        BY <1>0, <1>16, BlocksHere DEF ExpireFinal, Commit
    <2> QED BY <2>1, LoopEnded
  <1>17. CASE DeadlockAbort(c) \/ Crash(c)
      BY <1>2, <1>17 DEF DeadlockAbort, Crash
  <1> QED BY <1>3, <1>4, <1>5, <1>6, <1>7, <1>8, <1>9, <1>10, <1>11, <1>12, <1>13, <1>14,
             <1>15, <1>16, <1>17 DEF Moves, Continue

\* All of it, together.
LEMMA InitBase == Init => BaseInv
  BY InitType, InitLock, InitRef, InitRows, InitLoop DEF BaseInv

LEMMA NextBase == BaseInv /\ [Next]_vars => BaseInv'
  <1> SUFFICES ASSUME BaseInv, [Next]_vars PROVE BaseInv'
      OBVIOUS
  <1>1. TypeInv' /\ LockInv' /\ RefInv'
      BY NextType, NextLock, NextRef DEF BaseInv
  <1>2. ASSUME NEW c \in Sessions, Moves(c) PROVE RowsInv' /\ LoopInv'
      BY <1>2, MovesRows, LoopOther, LoopHere DEF BaseInv, LoopInv
  <1>3. CASE (\E r \in Reservations : PassTTL(r)) \/ UNCHANGED vars
    <2>1. UNCHANGED <<database, pc, cursor, memory>>
        BY <1>3 DEF PassTTL, vars
    <2>2. RowsInv'
        BY <2>1 DEF BaseInv, RowsInv, RowsBeforeItems, RowStanding
    <2>3. LoopInv'
        BY <2>1 DEF BaseInv, LoopInv, LoadedStand, DirtyKnown, LoopFresh, LoopHolding
    <2> QED BY <1>1, <2>2, <2>3 DEF BaseInv
  <1> QED BY <1>1, <1>2, <1>3 DEF BaseInv, Next, Finished, Moves

-----------------------------------------------------------------------------
(* How many units a set of items stands for. *)

LEMMA UnitsFinite ==
    ASSUME NEW I, NEW qty \in [I -> Nat], NEW S \in SUBSET I, IsFiniteSet(S)
    PROVE  IsFiniteSet(UnitsOf(S, qty)) /\ Cardinality(UnitsOf(S, qty)) \in Nat
  <1> DEFINE f == [i \in S |-> {i} \X (1 .. qty[i])]
             T == {{i} \X (1 .. qty[i]) : i \in S}
  <1>1. f \in Surjection(S, T)
      BY DEF Surjection
  <1>2. IsFiniteSet(T)
    <2> HIDE DEF f, T
    <2> QED BY <1>1, FS_Surjection
  <1>3. ASSUME NEW i \in S PROVE IsFiniteSet({i} \X (1 .. qty[i]))
    <2>1. IsFiniteSet({i})
        BY FS_Singleton
    <2>2. IsFiniteSet(1 .. qty[i])
        BY FS_Interval
    <2> QED BY <2>1, <2>2, FS_Product
  <1>4. \A X \in T : IsFiniteSet(X)
      BY <1>3
  <1>5. IsFiniteSet(UNION T)
    <2> HIDE DEF T
    <2> QED BY <1>2, <1>4, FS_UNION
  <1>6. UnitsOf(S, qty) = UNION T
      BY DEF UnitsOf
  <1> QED BY <1>5, <1>6, FS_CardinalityType

LEMMA UnitsNone == \A qty : UnitsOf({}, qty) = {} /\ Cardinality(UnitsOf({}, qty)) = 0
  <1>1. \A qty : UnitsOf({}, qty) = {}
      BY DEF UnitsOf
  <1> QED BY <1>1, FS_EmptySet

LEMMA UnitsOne ==
    ASSUME NEW I, NEW qty \in [I -> Nat], NEW i \in I
    PROVE  Cardinality(UnitsOf({i}, qty)) = qty[i]
  <1> DEFINE n == qty[i]
             A == {i}
             B == 1 .. n
  <1>1. UnitsOf({i}, qty) = A \X B
      BY DEF UnitsOf
  <1>2. IsFiniteSet(A) /\ Cardinality(A) = 1
      BY FS_Singleton
  <1>3. n \in Nat
      OBVIOUS
  <1> HIDE DEF n
  <1>4. IsFiniteSet(B) /\ Cardinality(B) = n
      BY <1>3, FS_Interval
  <1> HIDE DEF A, B
  <1>5. Cardinality(A \X B) = Cardinality(A) * Cardinality(B)
      BY <1>2, <1>4, FS_Product
  <1>6. Cardinality(A \X B) = n
      BY <1>2, <1>3, <1>4, <1>5
  <1> QED BY <1>1, <1>6 DEF n

LEMMA UnitsUnion ==
    ASSUME NEW I, NEW qty \in [I -> Nat], NEW S \in SUBSET I, NEW T \in SUBSET I,
           IsFiniteSet(S), IsFiniteSet(T), S \cap T = {}
    PROVE  Cardinality(UnitsOf(S \cup T, qty)) =
               Cardinality(UnitsOf(S, qty)) + Cardinality(UnitsOf(T, qty))
  <1> DEFINE A == UnitsOf(S, qty)
             B == UnitsOf(T, qty)
  <1>1. UnitsOf(S \cup T, qty) = A \cup B
      BY DEF UnitsOf
  <1>2. A \cap B = {}
      BY DEF UnitsOf
  <1>3. /\ IsFiniteSet(A) /\ Cardinality(A) \in Nat
        /\ IsFiniteSet(B) /\ Cardinality(B) \in Nat
      BY UnitsFinite
  <1> HIDE DEF A, B
  <1>4. Cardinality(A \cup B) = Cardinality(A) + Cardinality(B) - Cardinality({})
      BY <1>2, <1>3, FS_Union
  <1>5. Cardinality({}) = 0
      BY FS_EmptySet
  <1>6. Cardinality(A \cup B) = Cardinality(A) + Cardinality(B)
      BY <1>3, <1>4, <1>5
  <1> QED BY <1>1, <1>6 DEF A, B

\* The same, for the units of this system's items.
UnitCount(S) == Cardinality(UnitsOf(S, Qty))

LEMMA UnitCounts ==
    /\ UnitCount({}) = 0
    /\ \A S \in SUBSET Items : IsFiniteSet(S) => UnitCount(S) \in Nat
    /\ \A i \in Items : UnitCount({i}) = Qty[i]
    /\ \A S, T \in SUBSET Items :
           IsFiniteSet(S) /\ IsFiniteSet(T) /\ S \cap T = {} =>
               UnitCount(S \cup T) = UnitCount(S) + UnitCount(T)
  <1>0. Qty \in [Items -> Nat]
    <2>1. Qty \in [Items -> Nat \ {0}]
        BY CheckoutAssumption
    <2> QED BY <2>1
  <1>1. UnitCount({}) = 0
      BY UnitsNone DEF UnitCount
  <1>2. \A S \in SUBSET Items : IsFiniteSet(S) => UnitCount(S) \in Nat
      BY <1>0, UnitsFinite DEF UnitCount
  <1>3. \A i \in Items : UnitCount({i}) = Qty[i]
      BY <1>0, UnitsOne DEF UnitCount
  <1>4. ASSUME NEW S \in SUBSET Items, NEW T \in SUBSET Items,
               IsFiniteSet(S), IsFiniteSet(T), S \cap T = {}
        PROVE  UnitCount(S \cup T) = UnitCount(S) + UnitCount(T)
      BY <1>0, <1>4, UnitsUnion DEF UnitCount
  <1> QED BY <1>1, <1>2, <1>3, <1>4

-----------------------------------------------------------------------------
(* A stock row in hand is the committed row and what the session did. *)

\* Items on product p that session c has confirmed and not committed.
SoldNow(c, p) == {i \in dirty[c] : ProductOf[i] = p /\ attrs[c][i].status = "CONFIRMED"}

\* The stock row s, in the hands of session c, follows from the committed one.
Follows(c, p, s) ==
    /\ s.reserved + UnitCount(LetGo(c, p)) = stock[p].reserved + UnitCount(Taken(c, p))
    /\ s.sold = stock[p].sold + UnitCount(SoldNow(c, p))

Tracks(c, p) == Follows(c, p, inv[c][p])

TracksInv == \A c \in Sessions : \A p \in touched[c] : Tracks(c, p)

WorkInv == BaseInv /\ TracksInv

LEMMA WorkSets ==
    ASSUME BaseInv, NEW c \in Sessions, NEW p
    PROVE  /\ Taken(c, p) \in SUBSET Items /\ IsFiniteSet(Taken(c, p))
           /\ LetGo(c, p) \in SUBSET Items /\ IsFiniteSet(LetGo(c, p))
           /\ SoldNow(c, p) \in SUBSET Items /\ IsFiniteSet(SoldNow(c, p))
           /\ UnitCount(Taken(c, p)) \in Nat /\ UnitCount(LetGo(c, p)) \in Nat
           /\ UnitCount(SoldNow(c, p)) \in Nat
  <1>1. dirty[c] \in SUBSET Items /\ IsFiniteSet(dirty[c])
      BY DEF BaseInv, TypeInv, TypeOK, MemoryOK, LoopInv, DirtyKnown
  <1>2. Taken(c, p) \in SUBSET dirty[c] /\ LetGo(c, p) \in SUBSET dirty[c]
        /\ SoldNow(c, p) \in SUBSET dirty[c]
      BY DEF Taken, LetGo, SoldNow
  <1>3. /\ IsFiniteSet(Taken(c, p)) /\ IsFiniteSet(LetGo(c, p)) /\ IsFiniteSet(SoldNow(c, p))
        /\ Taken(c, p) \in SUBSET Items /\ LetGo(c, p) \in SUBSET Items
        /\ SoldNow(c, p) \in SUBSET Items
      BY <1>1, <1>2, FS_Subset
  <1> QED BY <1>3, UnitCounts

\* Also the row a session has yet to lock follows: it has done nothing to it.
LEMMA MemFollows ==
    ASSUME WorkInv, NEW c \in Sessions, NEW p \in Products
    PROVE  Follows(c, p, MemStock(c, p))
  <1>1. CASE p \in touched[c]
      BY <1>1 DEF WorkInv, TracksInv, Tracks, MemStock
  <1>2. CASE p \notin touched[c]
    <2>1. ASSUME NEW i \in dirty[c], ProductOf[i] = p
          PROVE  pc[c] = "hold" /\ at[c] = i /\ attrs[c][i].status = "HELD_LOCAL"
      <3>1. AtHold(c, i)
          BY <1>2, <2>1 DEF WorkInv, BaseInv, LockInv, LockOK, DirtyGuarded
      <3> QED BY <2>1, <3>1 DEF AtHold, WorkInv, BaseInv, LoopInv, DirtyKnown, Inserting
    <2>2. Taken(c, p) = {} /\ LetGo(c, p) = {} /\ SoldNow(c, p) = {}
        BY <2>1 DEF Taken, LetGo, SoldNow
    <2>3. MemStock(c, p) = stock[p] /\ stock[p] \in StockRow
        BY <1>2 DEF MemStock, WorkInv, BaseInv, TypeInv, TypeOK, DatabaseOK
    <2> QED BY <2>2, <2>3, UnitCounts DEF Follows, StockRow
  <1> QED BY <1>1, <1>2

\* A step that leaves the rows in hand and the three sets alone.
LEMMA TracksKept ==
    ASSUME WorkInv, NEW c \in Sessions, inv'[c] = inv[c], touched'[c] = touched[c],
           \A p \in touched[c] :
               /\ stock'[p] = stock[p] /\ Taken(c, p)' = Taken(c, p)
               /\ LetGo(c, p)' = LetGo(c, p) /\ SoldNow(c, p)' = SoldNow(c, p)
    PROVE  \A p \in touched'[c] : Tracks(c, p)'
  <1> SUFFICES ASSUME NEW p \in touched[c] PROVE Tracks(c, p)'
      OBVIOUS
  <1>1. Tracks(c, p)
      BY DEF WorkInv, TracksInv
  <1> QED BY <1>1 DEF Tracks, Follows, UnitCount

\* What one step can add to a set of items: item i, or nothing.
AtMost(i) == {{}, {i}}

\* A step on the stock row of one product: the row changes by what the step
\* adds to the three sets.
LEMMA TracksWritten ==
    ASSUME WorkInv, NEW c \in Sessions, NEW p \in Products, NEW s \in StockRow,
           LockStock(c, p, s), UNCHANGED stock, NEW i \in Items,
           NEW T \in AtMost(i), NEW L \in AtMost(i), NEW Z \in AtMost(i),
           T \cap Taken(c, p) = {}, L \cap LetGo(c, p) = {}, Z \cap SoldNow(c, p) = {},
           Taken(c, p)' = Taken(c, p) \cup T,
           LetGo(c, p)' = LetGo(c, p) \cup L,
           SoldNow(c, p)' = SoldNow(c, p) \cup Z,
           s.reserved + UnitCount(L) = MemStock(c, p).reserved + UnitCount(T),
           s.sold = MemStock(c, p).sold + UnitCount(Z),
           \A q \in touched[c] \ {p} :
               /\ Taken(c, q)' = Taken(c, q) /\ LetGo(c, q)' = LetGo(c, q)
               /\ SoldNow(c, q)' = SoldNow(c, q)
    PROVE  \A q \in touched'[c] : Tracks(c, q)'
  <1>1. /\ touched'[c] = touched[c] \cup {p}
        /\ inv'[c] = [inv[c] EXCEPT ![p] = s]
      BY BlocksHere DEF WorkInv, BaseInv
  <1>2. inv[c] \in [Products -> StockRow] /\ touched[c] \subseteq Products
      BY DEF WorkInv, BaseInv, TypeInv, TypeOK, MemoryOK
  <1>3. ASSUME NEW q \in touched[c] \ {p} PROVE Tracks(c, q)'
    <2>1. inv'[c][q] = inv[c][q] /\ Tracks(c, q)
        BY <1>1, <1>2, <1>3 DEF WorkInv, TracksInv
    <2> QED BY <1>3, <2>1 DEF Tracks, Follows, UnitCount
  <1>4. Tracks(c, p)'
    <2>1. inv'[c][p] = s
        BY <1>1, <1>2
    <2>2. /\ UnitCount(T) \in Nat /\ UnitCount(L) \in Nat /\ UnitCount(Z) \in Nat
          /\ IsFiniteSet(T) /\ IsFiniteSet(L) /\ IsFiniteSet(Z)
          /\ T \in SUBSET Items /\ L \in SUBSET Items /\ Z \in SUBSET Items
      <3>1. IsFiniteSet({}) /\ IsFiniteSet({i})
          BY FS_EmptySet, FS_Singleton
      <3> QED BY <3>1, UnitCounts DEF AtMost
    <2>3. UnitCount(Taken(c, p) \cup T) = UnitCount(Taken(c, p)) + UnitCount(T)
        BY <2>2, WorkSets, UnitCounts DEF WorkInv
    <2>4. UnitCount(LetGo(c, p) \cup L) = UnitCount(LetGo(c, p)) + UnitCount(L)
        BY <2>2, WorkSets, UnitCounts DEF WorkInv
    <2>5. UnitCount(SoldNow(c, p) \cup Z) = UnitCount(SoldNow(c, p)) + UnitCount(Z)
        BY <2>2, WorkSets, UnitCounts DEF WorkInv
    <2>6. /\ MemStock(c, p).reserved + UnitCount(LetGo(c, p))
                 = stock[p].reserved + UnitCount(Taken(c, p))
          /\ MemStock(c, p).sold = stock[p].sold + UnitCount(SoldNow(c, p))
        BY MemFollows DEF Follows
    <2>7. /\ MemStock(c, p).reserved \in Int /\ MemStock(c, p).sold \in Int
          /\ stock[p].reserved \in Int /\ stock[p].sold \in Int
          /\ s.reserved \in Int /\ s.sold \in Int
      <3>1. MemStock(c, p) \in StockRow /\ stock[p] \in StockRow
          BY MemStockType DEF WorkInv, BaseInv, TypeInv, TypeOK, DatabaseOK
      <3> QED BY <3>1 DEF StockRow
    <2>8. /\ UnitCount(Taken(c, p)) \in Nat /\ UnitCount(LetGo(c, p)) \in Nat
          /\ UnitCount(SoldNow(c, p)) \in Nat
        BY WorkSets DEF WorkInv
    <2>9. s.reserved + (UnitCount(LetGo(c, p)) + UnitCount(L))
              = stock[p].reserved + (UnitCount(Taken(c, p)) + UnitCount(T))
        BY <2>2, <2>6, <2>7, <2>8
    <2>10. s.sold = stock[p].sold + (UnitCount(SoldNow(c, p)) + UnitCount(Z))
        BY <2>2, <2>6, <2>7, <2>8
    <2>11. UnitCount(Taken(c, p))' = UnitCount(Taken(c, p) \cup T)
        BY DEF UnitCount
    <2>12. UnitCount(LetGo(c, p))' = UnitCount(LetGo(c, p) \cup L)
        BY DEF UnitCount
    <2>13. UnitCount(SoldNow(c, p))' = UnitCount(SoldNow(c, p) \cup Z)
        BY DEF UnitCount
    <2> QED BY <2>1, <2>3, <2>4, <2>5, <2>9, <2>10, <2>11, <2>12, <2>13 DEF Tracks, Follows
  <1> QED BY <1>1, <1>3, <1>4

\* What writing an item that is in the database, and still held in memory,
\* does to the three sets.
LEMMA SetsWritten ==
    ASSUME WorkInv, NEW c \in Sessions, NEW i \in Items, NEW r, WriteItem(c, i, r),
           UNCHANGED item, item[i].status # "absent", attrs[c][i].status \in Holding,
           pc[c] # "hold", pc'[c] # "hold", NEW q
    PROVE  /\ Taken(c, q)' = Taken(c, q)
           /\ LetGo(c, q)' = LetGo(c, q) \cup
                  (IF ProductOf[i] = q /\ r.status \in {"RELEASED", "FAILED", "CONFIRMED"}
                   THEN {i} ELSE {})
           /\ SoldNow(c, q)' = SoldNow(c, q) \cup
                  (IF ProductOf[i] = q /\ r.status = "CONFIRMED" THEN {i} ELSE {})
           /\ i \notin LetGo(c, q) /\ i \notin SoldNow(c, q)
  <1>1. /\ dirty'[c] = dirty[c] \cup {i}
        /\ attrs'[c] = [attrs[c] EXCEPT ![i] = r]
      BY BlocksHere DEF WorkInv, BaseInv
  <1>2. \A j \in Items : attrs'[c][j] = IF j = i THEN r ELSE attrs[c][j]
      BY <1>1 DEF WorkInv, BaseInv, TypeInv, TypeOK, MemoryOK
  <1>3. dirty[c] \subseteq Items
      BY DEF WorkInv, BaseInv, TypeInv, TypeOK, MemoryOK
  <1>4. Taken(c, q)' = Taken(c, q)
      BY <1>1 DEF Taken
  <1>5. i \notin LetGo(c, q) /\ i \notin SoldNow(c, q)
      BY DEF LetGo, SoldNow, Holding
  <1>6. LetGo(c, q)' = LetGo(c, q) \cup
            (IF ProductOf[i] = q /\ r.status \in {"RELEASED", "FAILED", "CONFIRMED"}
             THEN {i} ELSE {})
      BY <1>1, <1>2, <1>3, <1>5 DEF LetGo
  <1>7. SoldNow(c, q)' = SoldNow(c, q) \cup
            (IF ProductOf[i] = q /\ r.status = "CONFIRMED" THEN {i} ELSE {})
      BY <1>1, <1>2, <1>3, <1>5 DEF SoldNow
  <1> QED BY <1>4, <1>5, <1>6, <1>7

\* What a session can count on at its item, between the lock and the write.
LEMMA AtWork ==
    ASSUME WorkInv, NEW c \in Sessions,
           pc[c] \in {"reserve", "compensate", "confirmItem", "release"}
    PROVE  /\ at[c] \in Items /\ at[c] \in todo[c] /\ ProductOf[at[c]] \in Products
           /\ Qty[at[c]] \in Nat /\ Qty[at[c]] \in Int
           /\ MemStock(c, ProductOf[at[c]]) \in StockRow
           /\ attrs[c][at[c]] \in ItemRow /\ attrs[c][at[c]].status \in Holding
           /\ item[at[c]].status # "absent"
           /\ pc[c] \in ItemSteps /\ pc[c] \notin Inserting
  <1>1. pc[c] \in ItemSteps /\ pc[c] \notin Inserting
      BY DEF ItemSteps, Inserting
  <1>2. /\ at[c] \in Items /\ ProductOf[at[c]] \in Products
        /\ Qty[at[c]] \in Nat /\ Qty[at[c]] \in Int
        /\ MemStock(c, ProductOf[at[c]]) \in StockRow
      BY <1>1, AtItem DEF WorkInv, BaseInv
  <1>3. at[c] \in todo[c]
      BY <1>1 DEF WorkInv, BaseInv, LockInv, LockOK, LoopInCart
  <1>4. attrs[c][at[c]] \in ItemRow
      BY <1>2 DEF WorkInv, BaseInv, TypeInv, TypeOK, MemoryOK
  <1>5. attrs[c][at[c]].status \in Holding
      BY <1>3 DEF WorkInv, BaseInv, RefInv, ConfirmsHeld, LoopInv, LoopHolding, Holding
  <1>6. item[at[c]].status # "absent"
      BY <1>1, <1>2, <1>5 DEF WorkInv, BaseInv, LoopInv, LoadedStand, Holding
  <1> QED BY <1>1, <1>2, <1>3, <1>4, <1>5, <1>6

\* Taking the stock row of the item at hand, and writing the item or not.
LEMMA TracksAtItem ==
    ASSUME WorkInv, NEW c \in Sessions, NEW i \in Items, at[c] = i,
           pc[c] \in {"reserve", "compensate", "confirmItem", "release"}, pc'[c] # "hold",
           UNCHANGED <<item, stock>>, NEW s \in StockRow, LockStock(c, ProductOf[i], s),
           LET m == MemStock(c, ProductOf[i])
               q == Qty[i] IN
           \/ UNCHANGED <<attrs, dirty>> /\ s = m
           \/ \E r : /\ WriteItem(c, i, r)
                     /\ \/ r.status = "HELD" /\ s = m
                        \/ r.status \in {"RELEASED", "FAILED"} /\ s = ReleaseHold(m, q)
                        \/ r.status = "CONFIRMED" /\ s = ConsumeHold(m, q)
    PROVE  \A q \in touched'[c] : Tracks(c, q)'
  <1> DEFINE p == ProductOf[i]
             m == MemStock(c, p)
  <1>1. /\ i \in Items /\ p \in Products /\ Qty[i] \in Int /\ m \in StockRow
        /\ attrs[c][i].status \in Holding /\ item[i].status # "absent"
      BY AtWork
  <1>2. UnitCount({}) = 0 /\ UnitCount({i}) = Qty[i]
      BY <1>1, UnitCounts
  <1>3. /\ m.reserved \in Int /\ m.sold \in Int
        /\ ReleaseHold(m, Qty[i]).reserved = m.reserved - Qty[i]
        /\ ReleaseHold(m, Qty[i]).sold = m.sold
        /\ ConsumeHold(m, Qty[i]).reserved = m.reserved - Qty[i]
        /\ ConsumeHold(m, Qty[i]).sold = m.sold + Qty[i]
      BY <1>1 DEF StockRow, ReleaseHold, ConsumeHold
  <1>4. CASE UNCHANGED <<attrs, dirty>> /\ s = m
    <2>1. \A q : /\ Taken(c, q)' = Taken(c, q) /\ LetGo(c, q)' = LetGo(c, q)
                 /\ SoldNow(c, q)' = SoldNow(c, q)
        BY <1>4 DEF Taken, LetGo, SoldNow
    <2> DEFINE T == {}
    <2>2. /\ Taken(c, p)' = Taken(c, p) \cup T /\ LetGo(c, p)' = LetGo(c, p) \cup T
          /\ SoldNow(c, p)' = SoldNow(c, p) \cup T
          /\ T \cap Taken(c, p) = {} /\ T \cap LetGo(c, p) = {} /\ T \cap SoldNow(c, p) = {}
          /\ T \in AtMost(i)
        BY <2>1 DEF AtMost
    <2>3. /\ s.reserved + UnitCount(T) = m.reserved + UnitCount(T)
          /\ s.sold = m.sold + UnitCount(T)
        BY <1>2, <1>3, <1>4
    <2> HIDE DEF T
    <2> QED BY <1>1, <2>1, <2>2, <2>3, TracksWritten
  <1>5. ASSUME NEW r, WriteItem(c, i, r),
               \/ r.status = "HELD" /\ s = m
               \/ r.status \in {"RELEASED", "FAILED"} /\ s = ReleaseHold(m, Qty[i])
               \/ r.status = "CONFIRMED" /\ s = ConsumeHold(m, Qty[i])
        PROVE  \A q \in touched'[c] : Tracks(c, q)'
    <2> DEFINE T == {}
               L == IF r.status \in {"RELEASED", "FAILED", "CONFIRMED"} THEN {i} ELSE {}
               Z == IF r.status = "CONFIRMED" THEN {i} ELSE {}
    <2>1. /\ Taken(c, p)' = Taken(c, p) /\ LetGo(c, p)' = LetGo(c, p) \cup L
          /\ SoldNow(c, p)' = SoldNow(c, p) \cup Z
          /\ i \notin LetGo(c, p) /\ i \notin SoldNow(c, p)
        BY <1>1, <1>5, SetsWritten
    <2>2. \A q \in touched[c] \ {p} :
              /\ Taken(c, q)' = Taken(c, q) /\ LetGo(c, q)' = LetGo(c, q)
              /\ SoldNow(c, q)' = SoldNow(c, q)
      <3> SUFFICES ASSUME NEW q \in touched[c] \ {p}
                   PROVE  /\ Taken(c, q)' = Taken(c, q) /\ LetGo(c, q)' = LetGo(c, q)
                          /\ SoldNow(c, q)' = SoldNow(c, q)
          OBVIOUS
      <3>1. /\ Taken(c, q)' = Taken(c, q)
            /\ LetGo(c, q)' = LetGo(c, q) \cup
                   (IF ProductOf[i] = q /\ r.status \in {"RELEASED", "FAILED", "CONFIRMED"}
                    THEN {i} ELSE {})
            /\ SoldNow(c, q)' = SoldNow(c, q) \cup
                   (IF ProductOf[i] = q /\ r.status = "CONFIRMED" THEN {i} ELSE {})
          BY <1>1, <1>5, SetsWritten
      <3> QED BY <3>1
    <2>3. /\ s.reserved + UnitCount(L) = m.reserved + UnitCount(T)
          /\ s.sold = m.sold + UnitCount(Z)
        BY <1>1, <1>2, <1>3, <1>5
    <2>4. /\ T \in AtMost(i) /\ L \in AtMost(i) /\ Z \in AtMost(i)
          /\ T \cap Taken(c, p) = {} /\ L \cap LetGo(c, p) = {} /\ Z \cap SoldNow(c, p) = {}
          /\ Taken(c, p)' = Taken(c, p) \cup T
        BY <2>1 DEF AtMost
    <2> HIDE DEF T, L, Z
    <2> QED BY <1>1, <2>1, <2>2, <2>3, <2>4, TracksWritten
  <1> QED BY <1>4, <1>5

LEMMA TracksHeld ==
    ASSUME WorkInv, NEW c \in Sessions, NEW i \in Items, at[c] = i,
           CreateHold(c), ~Rollback(c, "failed")
    PROVE  \A q \in touched'[c] : Tracks(c, q)'
  <1> DEFINE p == ProductOf[i]
             m == MemStock(c, p)
             s == HoldLocked(m, Qty[i])
             T == {i}
             N == {}
  <1>0. pc[c] = "hold" /\ pc[c] \in ItemSteps /\ pc[c] \in Inserting
      BY DEF CreateHold, ItemSteps, Inserting
  <1>1. /\ i \in Items /\ p \in Products /\ Qty[i] \in Int /\ m \in StockRow
        /\ s \in StockRow
      BY <1>0, AtItem, RowTypes DEF WorkInv, BaseInv
  <1>2. LockStock(c, p, s) /\ UNCHANGED <<database, attrs, dirty>>
      BY DEF CreateHold
  <1>3. pc'[c] # "hold"
    <2>1. \E S, next : Visit(c, S, next, "addItem", "commitLocal")
        BY DEF CreateHold
    <2> QED BY <2>1, VisitHere DEF WorkInv, BaseInv
  <1>4. i \in dirty[c] /\ item[i].status = "absent"
    <2>1. i \in dirty[c] /\ i \in Cart(target[c])
        BY <1>0 DEF WorkInv, BaseInv, LoopInv, LoopFresh, LockInv, LockOK, LoopInCart
    <2>2. resv[target[c]].status = "absent" /\ target[c] \in Reservations
        BY <1>0 DEF WorkInv, BaseInv, RowsInv, RowStanding, TypeInv, OnCourse
    <2> QED BY <2>1, <2>2 DEF WorkInv, BaseInv, RowsInv, RowsBeforeItems
  <1>5. /\ Taken(c, p)' = Taken(c, p) \cup T /\ T \cap Taken(c, p) = {}
        /\ \A q : LetGo(c, q)' = LetGo(c, q) /\ SoldNow(c, q)' = SoldNow(c, q)
        /\ \A q : q # p => Taken(c, q)' = Taken(c, q)
      BY <1>0, <1>2, <1>3, <1>4 DEF Taken, LetGo, SoldNow
  <1>6. /\ s.reserved + UnitCount(N) = m.reserved + UnitCount(T)
        /\ s.sold = m.sold + UnitCount(N)
    <2>1. UnitCount(N) = 0 /\ UnitCount(T) = Qty[i]
        BY <1>1, UnitCounts
    <2>2. s.reserved = m.reserved + Qty[i] /\ s.sold = m.sold
        BY DEF HoldLocked
    <2>3. m.reserved \in Int /\ m.sold \in Int
        BY <1>1 DEF StockRow
    <2> HIDE DEF s, m, T, N
    <2> QED BY <1>1, <2>1, <2>2, <2>3
  <1>7. /\ T \in AtMost(i) /\ N \in AtMost(i) /\ N \cap LetGo(c, p) = {} /\ N \cap SoldNow(c, p) = {}
        /\ LetGo(c, p)' = LetGo(c, p) \cup N /\ SoldNow(c, p)' = SoldNow(c, p) \cup N
      BY <1>5 DEF AtMost
  <1> HIDE DEF T, N, s
  <1> QED BY <1>1, <1>2, <1>5, <1>6, <1>7, TracksWritten

LEMMA TracksOther ==
    ASSUME WorkInv, NEW c \in Sessions, NEW d \in Sessions, c # d, Moves(c)
    PROVE  \A p \in touched'[d] : Tracks(d, p)'
  <1>1. /\ pc'[d] = pc[d] /\ at'[d] = at[d] /\ attrs'[d] = attrs[d]
        /\ dirty'[d] = dirty[d] /\ inv'[d] = inv[d] /\ touched'[d] = touched[d]
      BY OthersUndisturbed DEF WorkInv, BaseInv, Undisturbed, KeepsPlace, KeepsObjects
  <1>2. ASSUME NEW p \in touched[d]
        PROVE  /\ stock'[p] = stock[p] /\ Taken(d, p)' = Taken(d, p)
               /\ LetGo(d, p)' = LetGo(d, p) /\ SoldNow(d, p)' = SoldNow(d, p)
    <2>1. p \notin touched[c] /\ dirty[d] \cap dirty[c] = {} /\ p \in Products
          /\ dirty[d] \subseteq Items
        BY <1>2, WorkApart DEF WorkInv, BaseInv, TypeInv, TypeOK, MemoryOK
    <2>2. stock'[p] = stock[p] /\ \A i \in dirty[d] : item'[i] = item[i]
        BY <2>1, ItemMoves DEF WorkInv, BaseInv
    <2> QED BY <1>1, <2>2 DEF Taken, LetGo, SoldNow
  <1> QED BY <1>1, <1>2, TracksKept

LEMMA TracksHere ==
    ASSUME WorkInv, NEW c \in Sessions, Moves(c)
    PROVE  \A p \in touched'[c] : Tracks(c, p)'
  <1>0. TypeInv /\ LockOK(c) /\ LoopOK(c)
      BY DEF WorkInv, BaseInv, LockInv, LoopInv
  <1>1. ASSUME EndTransaction(c) PROVE \A p \in touched'[c] : Tracks(c, p)'
      BY <1>0, <1>1, BlocksHere
  <1>2. ASSUME UNCHANGED <<stock, inv, touched>>, touched[c] = {}
        PROVE  \A p \in touched'[c] : Tracks(c, p)'
      BY <1>2
  <1>3. CASE Start(c) \/ Sweep(c)
    <2>1. pc[c] = "idle" /\ UNCHANGED <<stock, inv, touched>>
        BY <1>3 DEF Start, CreateFind, ConfirmRead, CancelRead, ReadOrRefuse, Sweep
    <2>2. touched[c] = {}
        BY <1>0, <2>1 DEF LockOK, FreshWhenClean, CleanSteps
    <2> QED BY <1>2, <2>1, <2>2
  <1>4. CASE \/ CreateInsert(c) \/ ConfirmRefresh(c) \/ ExpireReload(c) \/ ConfirmItems(c)
             \/ LoadHeldItems(c)
    <2>1. pc[c] \in CleanSteps
        BY <1>4 DEF CreateInsert, ConfirmRefresh, ExpireReload, ConfirmItems, LoadHeldItems,
                    CleanSteps
    <2>2. touched[c] = {}
        BY <1>0, <2>1 DEF LockOK, FreshWhenClean
    <2>3. EndTransaction(c) \/ UNCHANGED <<stock, inv, touched>>
        BY <1>4 DEF CreateInsert, ConfirmRefresh, ExpireReload, ConfirmItems, LoadHeldItems,
                    Rollback
    <2> QED BY <1>1, <1>2, <2>2, <2>3
  <1>5. CASE CreateAddItem(c)
    <2> DEFINE new == [status |-> "HELD_LOCAL", ref |-> FALSE]
    <2>1. PICK i \in Items : i = at[c]
        BY <1>0, <1>5, AtItem DEF CreateAddItem, ItemSteps
    <2>2. /\ dirty'[c] = dirty[c] \cup {i}
          /\ attrs'[c] = [attrs[c] EXCEPT ![i] = new]
          /\ pc'[c] = "hold" /\ at' = at /\ pc[c] = "addItem"
          /\ UNCHANGED <<database, inv, touched>>
        BY <1>0, <1>5, <2>1, BlocksHere DEF CreateAddItem
    <2>6. i \notin dirty[c]
        BY <1>0, <2>1, <2>2 DEF LockOK, LoopFresh, LoopInCart, ItemSteps
    <2>3. /\ dirty[c] \subseteq Items
          /\ \A j \in Items : attrs'[c][j] = IF j = i THEN new ELSE attrs[c][j]
        BY <1>0, <2>2 DEF TypeInv, TypeOK, MemoryOK
    <2>4. \A p : /\ Taken(c, p)' = Taken(c, p) /\ LetGo(c, p)' = LetGo(c, p)
                 /\ SoldNow(c, p)' = SoldNow(c, p)
        BY <2>1, <2>2, <2>3, <2>6 DEF Taken, LetGo, SoldNow
    <2> QED BY <2>2, <2>4, TracksKept
  <1>6. CASE CreateHold(c)
    <2>1. PICK i \in Items : i = at[c]
        BY <1>0, <1>6, AtItem DEF CreateHold, ItemSteps
    <2>2. CASE Rollback(c, "failed")
        BY <1>1, <2>2 DEF Rollback
    <2> QED BY <1>6, <2>1, <2>2, TracksHeld
  <1>7. CASE CreateCommitLocal(c) \/ CreateMarkCancelled(c) \/ CreateMarkPending(c)
      BY <1>1, <1>7
         DEF CreateCommitLocal, CreateMarkCancelled, CreateMarkPending, Commit, Rollback
  <1>8. CASE CreateLoadItem(c)
    <2>1. PICK i \in Items : i = at[c]
        BY <1>0, <1>8, AtItem DEF CreateLoadItem, ItemSteps
    <2>2. /\ UNCHANGED <<database, dirty, inv, touched>> /\ pc[c] = "loadItem"
          /\ attrs'[c] = [attrs[c] EXCEPT ![i] = item[i]]
        BY <1>0, <1>8, <2>1 DEF CreateLoadItem, TypeInv, TypeOK, MemoryOK
    <2>6. i \notin dirty[c]
        BY <1>0, <2>1, <2>2 DEF LockOK, LoopFresh, LoopInCart, ItemSteps
    <2>3. pc'[c] # "hold"
        BY <1>0, <1>8, BlocksHere, NextUpstreamHere DEF CreateLoadItem
    <2>4. /\ dirty[c] \subseteq Items
          /\ \A j \in Items : attrs'[c][j] = IF j = i THEN item[i] ELSE attrs[c][j]
        BY <1>0, <2>2 DEF TypeInv, TypeOK, MemoryOK
    <2>5. \A p : /\ Taken(c, p)' = Taken(c, p) /\ LetGo(c, p)' = LetGo(c, p)
                 /\ SoldNow(c, p)' = SoldNow(c, p)
        BY <2>2, <2>3, <2>4, <2>6 DEF Taken, LetGo, SoldNow
    <2> QED BY <2>2, <2>5, TracksKept
  <1>9. ASSUME NEW s, pc[c] \in {"reserve", "compensate", "confirmItem", "release"}
        PROVE  /\ \E i \in Items : i = at[c]
               /\ MemStock(c, ProductOf[at[c]]) \in StockRow
               /\ ReleaseHold(MemStock(c, ProductOf[at[c]]), Qty[at[c]]) \in StockRow
               /\ ConsumeHold(MemStock(c, ProductOf[at[c]]), Qty[at[c]]) \in StockRow
      BY <1>9, AtWork, RowTypes
  <1>10. CASE CreateReserve(c)
    <2>0. pc[c] = "reserve" /\ UNCHANGED <<item, stock>>
        BY <1>10 DEF CreateReserve
    <2>1. PICK i \in Items : i = at[c]
        BY <1>9, <2>0
    <2> DEFINE p == ProductOf[i]
               m == MemStock(c, p)
               yes == [status |-> "HELD", ref |-> p \in Reservable]
               no == [status |-> "FAILED", ref |-> FALSE]
    <2>2. pc'[c] # "hold"
        BY <1>0, <1>10, NextUpstreamHere DEF CreateReserve
    <2>3. \/ LockStock(c, p, m) /\ WriteItem(c, i, yes)
          \/ LockStock(c, p, ReleaseHold(m, Qty[i])) /\ WriteItem(c, i, no)
        BY <1>10, <2>1 DEF CreateReserve
    <2>4. m \in StockRow /\ ReleaseHold(m, Qty[i]) \in StockRow
        BY <1>9, <2>0, <2>1
    <2>5. yes.status = "HELD" /\ no.status = "FAILED"
        OBVIOUS
    <2> HIDE DEF yes, no
    <2> QED BY <2>0, <2>1, <2>2, <2>3, <2>4, <2>5, TracksAtItem
  <1>11. CASE CreateCompensate(c) \/ ReleaseHeldItem(c)
    <2>0. pc[c] \in {"compensate", "release"} /\ UNCHANGED <<item, stock>>
        BY <1>11 DEF CreateCompensate, ReleaseHeldItem
    <2>1. PICK i \in Items : i = at[c]
        BY <1>9, <2>0
    <2> DEFINE m == MemStock(c, ProductOf[i])
               new == [attrs[c][i] EXCEPT !.status = "RELEASED"]
    <2>2. pc'[c] # "hold"
        BY <1>0, <1>11, VisitHere DEF CreateCompensate, ReleaseHeldItem
    <2>3. LockStock(c, ProductOf[i], ReleaseHold(m, Qty[i])) /\ WriteItem(c, i, new)
        BY <1>11, <2>1 DEF CreateCompensate, ReleaseHeldItem, ReleaseItem
    <2>4. ReleaseHold(m, Qty[i]) \in StockRow
        BY <1>9, <2>0, <2>1
    <2>5. new.status = "RELEASED"
        BY <2>0, <2>1, AtWork DEF ItemRow
    <2> HIDE DEF new
    <2> QED BY <2>0, <2>1, <2>2, <2>3, <2>4, <2>5, TracksAtItem
  <1>12. CASE ConfirmItem(c)
    <2>0. pc[c] = "confirmItem" /\ UNCHANGED <<item, stock>>
        BY <1>12 DEF ConfirmItem
    <2>1. PICK i \in Items : i = at[c]
        BY <1>9, <2>0
    <2> DEFINE m == MemStock(c, ProductOf[i])
               yes == [attrs[c][i] EXCEPT !.status = "CONFIRMED"]
               no == [attrs[c][i] EXCEPT !.status = "FAILED"]
    <2>2. pc'[c] # "hold"
        BY <1>0, <1>12, VisitHere DEF ConfirmItem
    <2>3. \/ LockStock(c, ProductOf[i], ConsumeHold(m, Qty[i])) /\ WriteItem(c, i, yes)
          \/ LockStock(c, ProductOf[i], m) /\ UNCHANGED <<attrs, dirty>>
          \/ LockStock(c, ProductOf[i], ReleaseHold(m, Qty[i])) /\ WriteItem(c, i, no)
        BY <1>12, <2>1 DEF ConfirmItem
    <2>4. /\ m \in StockRow /\ ReleaseHold(m, Qty[i]) \in StockRow
          /\ ConsumeHold(m, Qty[i]) \in StockRow
        BY <1>9, <2>0, <2>1
    <2>5. yes.status = "CONFIRMED" /\ no.status = "FAILED"
        BY <2>0, <2>1, AtWork DEF ItemRow
    <2> HIDE DEF yes, no
    <2> QED BY <2>0, <2>1, <2>2, <2>3, <2>4, <2>5, TracksAtItem
  <1>13. CASE ConfirmLock(c) \/ ConfirmFinal(c) \/ CancelFinal(c) \/ ExpireFinal(c)
      BY <1>1, <1>13 DEF ConfirmLock, ConfirmFinal, CancelFinal, ExpireFinal, Commit, Rollback
  <1>14. CASE DeadlockAbort(c) \/ Crash(c)
      BY <1>1, <1>14 DEF DeadlockAbort, Crash, Rollback
  <1> QED BY <1>3, <1>4, <1>5, <1>6, <1>7, <1>8, <1>10, <1>11, <1>12, <1>13, <1>14
          DEF Moves, Continue

LEMMA InitWork == Init => WorkInv
  BY InitBase DEF Init, WorkInv, TracksInv

LEMMA NextWork == WorkInv /\ [Next]_vars => WorkInv'
  <1> SUFFICES ASSUME WorkInv, [Next]_vars PROVE WorkInv'
      OBVIOUS
  <1>1. BaseInv'
      BY NextBase DEF WorkInv
  <1>2. ASSUME NEW c \in Sessions, Moves(c) PROVE TracksInv'
      BY <1>2, TracksHere, TracksOther DEF TracksInv
  <1>3. CASE (\E r \in Reservations : PassTTL(r)) \/ UNCHANGED vars
    <2>1. UNCHANGED <<database, pc, cursor, memory>>
        BY <1>3 DEF PassTTL, vars
    <2>2. ASSUME NEW c \in Sessions PROVE \A p \in touched'[c] : Tracks(c, p)'
      <3>1. \A p : /\ Taken(c, p)' = Taken(c, p) /\ LetGo(c, p)' = LetGo(c, p)
                   /\ SoldNow(c, p)' = SoldNow(c, p)
          BY <2>1 DEF Taken, LetGo, SoldNow
      <3> QED BY <2>1, <3>1, TracksKept
    <2> QED BY <1>1, <2>2 DEF WorkInv, TracksInv
  <1> QED BY <1>1, <1>2, <1>3 DEF WorkInv, Next, Finished, Moves

\* No lost update on a stock row: whatever other sessions commit meanwhile, the
\* row a session is about to write is the committed one, plus what the session
\* took and minus what it let go, for any number of sessions and any carts.
THEOREM UpdatesAreNotLost == Spec => []NoLostUpdate
  <1>1. WorkInv => NoLostUpdate
      BY DEF WorkInv, TracksInv, Tracks, Follows, NoLostUpdate, UnitCount
  <1> QED BY <1>1, InitWork, NextWork, PTL DEF Spec
=============================================================================
