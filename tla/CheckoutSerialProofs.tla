------------------------ MODULE CheckoutSerialProofs ------------------------
(***************************************************************************)
(* With one session at a time on each reservation (SerialSpec), a          *)
(* reservation is all or nothing, the stock rows agree with the item rows, *)
(* and every handler amounts to atomic moves: proofs for all values of the *)
(* constants, from what is proved of any overlap.                          *)
(***************************************************************************)
EXTENDS CheckoutWorkProofs

USE DEF Sessions, Rows, database, locks, memory, cursor, outside

-----------------------------------------------------------------------------
(* The invariant. *)

Idle == {"idle", "done"}
Upstreaming == {"loadItem", "reserve", "markPending"}
Confirming == {"confirmLock", "confirmRefresh", "confirmItems", "confirmItem", "confirmFinal"}
Closing == {"heldItems", "release", "close", "reload"}

\* Item i has been written by session c, with a status in S.
Wrote(c, i, S) == i \in dirty[c] /\ attrs[c][i].status \in S

\* Every item of the checkout is inserted or still to come.
InsertOK(c) ==
    /\ pc[c] \in Inserting => Cart(target[c]) \subseteq dirty[c] \cup todo[c]
    /\ pc[c] = "commitLocal" => todo[c] = {}

\* Every item has been to its provider or is still to go.
UpstreamOK(c) ==
    pc[c] \in Upstreaming =>
        /\ resv[target[c]].status = "PENDING_LOCAL"
        /\ \A i \in Cart(target[c]) :
               IF pc[c] = "markPending" THEN Wrote(c, i, {"HELD"})
               ELSE i \in todo[c] \/ Wrote(c, i, {"HELD", "FAILED"})

\* The row confirm has read is the committed one, and as long as nothing has
\* gone wrong each item is confirmed or still to come.
ConfirmOK(c) ==
    /\ pc[c] = "confirmLock" =>
           row[c].status = resv[target[c]].status /\ row[c].status \in Confirmable
    /\ pc[c] \in Confirming \ {"confirmLock"} => resv[target[c]].status = "CONFIRMING"
    /\ pc[c] \in {"confirmItem", "confirmFinal"} /\ allConfirmed[c] =>
           \A i \in Cart(target[c]) :
               item[i].status = "HELD" /\ (i \in todo[c] \/ Wrote(c, i, {"CONFIRMED"}))
    /\ pc[c] = "confirmFinal" => todo[c] = {}

\* The same for a reservation that is given back.
CloseOK(c) ==
    /\ pc[c] \in Closing => resv[target[c]].status \in Open
    /\ pc[c] \in Closing \ {"reload"} => row[c].status = resv[target[c]].status
    /\ pc[c] \in {"release", "close"} =>
           \A i \in Cart(target[c]) : i \in todo[c] \/ Wrote(c, i, {"RELEASED"})
    /\ pc[c] = "close" => todo[c] = {}

\* The rest of a sweep is still to be done.
BatchOK(c) ==
    /\ pc[c] \in Idle => batch[c] = {}
    /\ \A r \in batch[c] : r # target[c] /\ resv[r].status \in Open

SerialOK(c) == InsertOK(c) /\ UpstreamOK(c) /\ ConfirmOK(c) /\ CloseOK(c) /\ BatchOK(c)

Present == {i \in Items : item[i].status # "absent"}

SerialInv ==
    /\ WorkInv /\ LedgerInv /\ OneAtATime
    /\ RowsCoherent /\ Accounting /\ IsFiniteSet(Present)
    /\ \A c \in Sessions : SerialOK(c)

LEMMA InitSerial == Init => SerialInv
  <1> SUFFICES ASSUME Init PROVE SerialInv
      OBVIOUS
  <1>1. WorkInv /\ LedgerInv
      BY InitWork, InitLedger
  <1>2. OneAtATime
      BY DEF Init, OneAtATime, Engaged
  <1>3. RowsCoherent
      BY DEF Init, RowsCoherent, ItemsIn, Cart, NoResv, NoItem
  <1>4. Present = {} /\ \A p \in Products : HeldItems(p) = {} /\ SoldItems(p) = {}
      BY DEF Init, Present, HeldItems, SoldItems, Holding, NoItem
  <1>5. Accounting
      BY <1>4, UnitCounts DEF Init, Accounting, UnitCount, FreshStock
  <1>6. \A c \in Sessions : SerialOK(c)
      BY DEF Init, SerialOK, InsertOK, UpstreamOK, ConfirmOK, CloseOK, BatchOK, Inserting,
             Upstreaming, Confirming, Closing
  <1> QED BY <1>1, <1>2, <1>3, <1>4, <1>5, <1>6, FS_EmptySet DEF SerialInv

-----------------------------------------------------------------------------
(* A step of one session leaves every other session's reservation alone. *)

LEMMA BatchMoves ==
    ASSUME TypeInv, NEW c \in Sessions, Moves(c)
    PROVE  \/ batch'[c] \subseteq batch[c] /\ target'[c] = target[c]
           \/ batch'[c] \subseteq batch[c] /\ pc[c] = "idle" /\ Start(c)
           \/ batch'[c] = {}
           \/ Sweep(c)
           \/ /\ ExpireFinal(c) /\ target'[c] \in batch[c]
              /\ batch'[c] = batch[c] \ {target'[c]}
  <1>1. ASSUME NEW res, Leave(c, res) PROVE batch'[c] = {}
      BY <1>1, BlocksHere
  <1>2. CASE Start(c)
      BY <1>2 DEF Start, CreateFind, ConfirmRead, CancelRead, ReadOrRefuse
  <1>3. CASE DeadlockAbort(c) \/ Crash(c)
      BY <1>1, <1>3 DEF DeadlockAbort, Crash, Rollback
  <1>4. CASE \/ CreateInsert(c) \/ CreateAddItem(c) \/ CreateHold(c) \/ CreateCommitLocal(c)
             \/ CreateLoadItem(c) \/ CreateReserve(c) \/ CreateCompensate(c)
             \/ CreateMarkCancelled(c) \/ CreateMarkPending(c)
      BY <1>1, <1>4
         DEF CreateInsert, CreateAddItem, CreateHold, CreateCommitLocal, CreateLoadItem,
             CreateReserve, CreateCompensate, CreateMarkCancelled, CreateMarkPending, Rollback
  <1>5. CASE \/ ConfirmLock(c) \/ ConfirmRefresh(c) \/ ConfirmItems(c) \/ ConfirmItem(c)
             \/ ConfirmFinal(c) \/ ExpireReload(c) \/ LoadHeldItems(c) \/ ReleaseHeldItem(c)
             \/ CancelFinal(c)
      BY <1>1, <1>5
         DEF ConfirmLock, ConfirmRefresh, ConfirmItems, ConfirmItem, ConfirmFinal,
             ExpireReload, LoadHeldItems, ReleaseHeldItem, CancelFinal, Rollback
  <1>6. CASE ExpireFinal(c)
    <2>1. CASE Leave(c, "none")
        BY <1>1, <2>1
    <2>2. CASE \E r \in batch[c] : /\ target' = [target EXCEPT ![c] = r]
                                   /\ batch' = [batch EXCEPT ![c] = @ \ {r}]
        BY <1>6, <2>2 DEF TypeInv, TypeOK, CursorOK
    <2> QED BY <1>6, <2>1, <2>2 DEF ExpireFinal
  <1> QED BY <1>2, <1>3, <1>4, <1>5, <1>6 DEF Moves, Continue

\* What a step of session c changes in the database is its own reservation.
LEMMA Elsewhere ==
    ASSUME BaseInv, NEW c \in Sessions, Moves(c), NEW r \in Reservations,
           pc[c] \notin Idle => r # target[c]
    PROVE  /\ resv'[r].status = resv[r].status
           /\ \A i \in Cart(r) : item'[i] = item[i]
  <1>1. resv'[r].status = resv[r].status
      BY RowMoves DEF BaseInv, Idle, Outside
  <1>2. ASSUME NEW i \in Cart(r) PROVE item'[i] = item[i]
    <2>1. i \in Items /\ CartOf[i] = r
        BY DEF Cart
    <2>2. pc[c] \notin Idle => i \notin dirty[c]
        BY <2>1 DEF BaseInv, LockInv, LockOK, DirtyGuarded, Cart
    <2>3. item'[i] # item[i] => i \in dirty[c] /\ pc[c] \notin Idle
        BY <2>1, ItemMoves DEF BaseInv, Idle
    <2> QED BY <2>2, <2>3
  <1> QED BY <1>1, <1>2

LEMMA SerialOther ==
    ASSUME SerialInv, NEW c \in Sessions, NEW d \in Sessions, c # d, Moves(c)
    PROVE  SerialOK(d)'
  <1>1. /\ pc'[d] = pc[d] /\ target'[d] = target[d] /\ batch'[d] = batch[d]
        /\ todo'[d] = todo[d] /\ allConfirmed'[d] = allConfirmed[d]
        /\ row'[d] = row[d] /\ attrs'[d] = attrs[d] /\ dirty'[d] = dirty[d]
      BY OthersUndisturbed
         DEF SerialInv, WorkInv, BaseInv, Undisturbed, KeepsPlace, KeepsObjects
  <1>2. CASE pc[d] \in Idle
    <2>1. SerialOK(d) /\ batch[d] = {}
        BY <1>2 DEF SerialInv, SerialOK, BatchOK
    <2> QED BY <1>1, <1>2, <2>1
            DEF SerialOK, InsertOK, UpstreamOK, ConfirmOK, CloseOK, BatchOK, Idle, Inserting,
                Upstreaming, Confirming, Closing
  <1>3. CASE pc[d] \notin Idle
    <2>1. /\ target[d] \in Reservations /\ batch[d] \subseteq Reservations
        BY <1>3 DEF Idle, SerialInv, WorkInv, BaseInv, TypeInv, TypeOK, CursorOK, OnCourse
    <2>2. \A r \in batch[d] \cup {target[d]} : pc[c] \notin Idle => r # target[c]
        BY <1>3 DEF SerialInv, OneAtATime, Engaged, Idle
    <2>3. \A r \in batch[d] \cup {target[d]} :
              /\ resv'[r].status = resv[r].status
              /\ \A i \in Cart(r) : item'[i] = item[i]
        BY <2>1, <2>2, Elsewhere DEF SerialInv, WorkInv
    <2>4. InsertOK(d)' /\ UpstreamOK(d)'
        BY <1>1, <2>3 DEF SerialInv, SerialOK, InsertOK, UpstreamOK, Wrote
    <2>5. ConfirmOK(d)'
        BY <1>1, <2>3 DEF SerialInv, SerialOK, ConfirmOK, Wrote
    <2>6. CloseOK(d)' /\ BatchOK(d)'
        BY <1>1, <2>3 DEF SerialInv, SerialOK, CloseOK, BatchOK, Wrote
    <2> QED BY <2>4, <2>5, <2>6 DEF SerialOK
  <1> QED BY <1>2, <1>3
-----------------------------------------------------------------------------
(* A step of session c leads to the next round of its own handler. *)

LEMMA ComesFrom ==
    ASSUME TypeInv, NEW c \in Sessions, Moves(c)
    PROVE  /\ pc'[c] \in Idle => batch'[c] = {} \/ Start(c)
           /\ pc'[c] \in Inserting => CreateInsert(c) \/ CreateAddItem(c) \/ CreateHold(c)
           /\ pc'[c] \in Upstreaming =>
                  CreateCommitLocal(c) \/ CreateLoadItem(c) \/ CreateReserve(c)
           /\ pc'[c] \in Confirming =>
                  \/ \E r \in Reservations : ConfirmRead(c, r)
                  \/ ConfirmLock(c) \/ ConfirmRefresh(c) \/ ConfirmItems(c) \/ ConfirmItem(c)
           /\ pc'[c] \in Closing =>
                  \/ \E r \in Reservations : CancelRead(c, r)
                  \/ Sweep(c) \/ ExpireReload(c) \/ LoadHeldItems(c) \/ ReleaseHeldItem(c)
                  \/ ExpireFinal(c)
  <1> USE DEF Idle, Inserting, Upstreaming, Confirming, Closing
  <1>1. ASSUME NEW res, Leave(c, res) PROVE pc'[c] \in {"idle", "done"} /\ batch'[c] = {}
      BY <1>1, BlocksHere
  <1>2. ASSUME NEW r \in Reservations, CreateFind(c, r)
        PROVE  pc'[c] \in {"done", "insert"}
      BY <1>2, BlocksHere DEF CreateFind, TypeInv, TypeOK
  <1>3. ASSUME NEW r \in Reservations, ConfirmRead(c, r)
        PROVE  pc'[c] \in {"done", "confirmLock"}
      BY <1>3, BlocksHere DEF ConfirmRead, ReadOrRefuse, TypeInv, TypeOK
  <1>4. ASSUME NEW r \in Reservations, CancelRead(c, r)
        PROVE  pc'[c] \in {"done", "heldItems"}
      BY <1>4, BlocksHere DEF CancelRead, ReadOrRefuse, TypeInv, TypeOK
  <1>5. CASE Start(c)
      BY <1>2, <1>3, <1>4, <1>5 DEF Start
  <1>6. CASE Sweep(c)
      BY <1>6, BlocksHere DEF Sweep
  <1>7. CASE CreateInsert(c) \/ CreateHold(c)
      BY <1>1, <1>7, VisitHere DEF CreateInsert, CreateHold, Rollback
  <1>8. CASE CreateAddItem(c)
      BY <1>8, BlocksHere DEF CreateAddItem
  <1>9. CASE CreateCommitLocal(c)
      BY <1>9, VisitHere DEF CreateCommitLocal
  <1>10. CASE CreateLoadItem(c) \/ CreateReserve(c)
      BY <1>10, BlocksHere, NextUpstreamHere DEF CreateLoadItem, CreateReserve
  <1>11. CASE CreateCompensate(c) \/ ReleaseHeldItem(c) \/ LoadHeldItems(c)
      BY <1>11, VisitHere DEF CreateCompensate, ReleaseHeldItem, LoadHeldItems
  <1>12. CASE CreateMarkCancelled(c) \/ CreateMarkPending(c) \/ CancelFinal(c) \/ ConfirmFinal(c)
      BY <1>1, <1>12
         DEF CreateMarkCancelled, CreateMarkPending, CancelFinal, ConfirmFinal, Rollback
  <1>13. CASE ConfirmLock(c) \/ ConfirmRefresh(c) \/ ExpireReload(c)
      BY <1>1, <1>13, BlocksHere DEF ConfirmLock, ConfirmRefresh, ExpireReload, Rollback
  <1>14. CASE ConfirmItems(c) \/ ConfirmItem(c)
      BY <1>14, VisitHere DEF ConfirmItems, ConfirmItem
  <1>15. CASE ExpireFinal(c)
      BY <1>1, <1>15, BlocksHere DEF ExpireFinal
  <1>16. CASE DeadlockAbort(c) \/ Crash(c)
      BY <1>1, <1>16 DEF DeadlockAbort, Crash, Rollback
  <1> QED BY <1>5, <1>6, <1>7, <1>8, <1>9, <1>10, <1>11, <1>12, <1>13, <1>14, <1>15, <1>16
          DEF Moves, Continue

LEMMA InsertHere ==
    ASSUME SerialInv, NEW c \in Sessions, Moves(c)
    PROVE  InsertOK(c)'
  <1> DEFINE i == at[c]
  <1>0. TypeInv /\ InsertOK(c) /\ LoopFresh(c)
      BY DEF SerialInv, SerialOK, WorkInv, BaseInv, LoopInv, LoopOK
  <1>1. CASE pc'[c] \notin Inserting
      BY <1>1 DEF InsertOK, Inserting
  <1>2. CASE pc'[c] \in Inserting /\ CreateInsert(c)
    <2>1. ~Rollback(c, "integrityError")
        BY <1>0, <1>2, BlocksHere DEF Rollback, Inserting
    <2>2. /\ target' = target /\ todo'[c] = Cart(target[c])
          /\ pc'[c] = "commitLocal" => Cart(target[c]) = {}
        BY <1>0, <1>2, <2>1, VisitHere DEF CreateInsert
    <2> QED BY <2>2 DEF InsertOK
  <1>3. CASE CreateAddItem(c)
    <2>1. /\ target' = target /\ todo' = todo /\ dirty'[c] = dirty[c] \cup {i}
          /\ pc'[c] = "hold" /\ pc[c] = "addItem"
        BY <1>0, <1>3, BlocksHere DEF CreateAddItem
    <2> QED BY <1>0, <2>1 DEF InsertOK, Inserting
  <1>4. CASE pc'[c] \in Inserting /\ CreateHold(c)
    <2>1. ~Rollback(c, "failed")
        BY <1>0, <1>4, BlocksHere DEF Rollback, Inserting
    <2>2. /\ target' = target /\ dirty' = dirty /\ todo'[c] = todo[c] \ {i} /\ pc[c] = "hold"
          /\ pc'[c] = "commitLocal" => todo'[c] = {}
        BY <1>0, <1>4, <2>1, VisitHere DEF CreateHold
    <2>3. i \in dirty[c]
        BY <1>0, <2>2 DEF LoopFresh
    <2> QED BY <1>0, <2>2, <2>3 DEF InsertOK, Inserting
  <1> QED BY <1>0, <1>1, <1>2, <1>3, <1>4, ComesFrom

LEMMA UpstreamHere ==
    ASSUME SerialInv, NEW c \in Sessions, Moves(c)
    PROVE  UpstreamOK(c)'
  <1> DEFINE i == at[c]
             r == target[c]
  <1>0. TypeInv /\ UpstreamOK(c)
      BY DEF SerialInv, SerialOK, WorkInv, BaseInv
  <1>1. pc[c] \in {"commitLocal", "loadItem", "reserve"} => r \in Reservations
      BY <1>0 DEF TypeInv, OnCourse
  <1>2. pc[c] \in {"loadItem", "reserve"} =>
            /\ i \in todo[c] /\ i \in Items /\ CartOf[i] = r
            /\ resv[r].status = "PENDING_LOCAL"
            /\ \A j \in Cart(r) : j \in todo[c] \/ Wrote(c, j, {"HELD", "FAILED"})
      BY <1>0 DEF UpstreamOK, Upstreaming, SerialInv, WorkInv, BaseInv, LockInv, LockOK,
                  LoopInCart, ItemSteps, Cart
  <1>3. CASE pc'[c] \notin Upstreaming
      BY <1>3 DEF UpstreamOK
  <1>4. CASE CreateCommitLocal(c)
    <2>1. /\ target' = target /\ todo'[c] = Cart(r)
          /\ pc'[c] = "markPending" => Cart(r) = {}
        BY <1>0, <1>4, VisitHere DEF CreateCommitLocal
    <2>2. resv'[r].status = "PENDING_LOCAL"
        BY <1>0, <1>1, <1>4 DEF CreateCommitLocal, Commit, TypeInv, TypeOK, DatabaseOK
    <2> QED BY <2>1, <2>2 DEF UpstreamOK
  <1>5. CASE CreateLoadItem(c)
    <2>1. pc[c] = "loadItem" /\ UNCHANGED <<resv, target, dirty>>
        BY <1>5 DEF CreateLoadItem
    <2>2. item[i].status = "HELD_LOCAL"
        BY <1>1, <1>2, <2>1 DEF SerialInv, RowsCoherent, ItemsIn, Cart
    <2>3. pc'[c] = "reserve" /\ todo' = todo
        BY <1>0, <1>5, <2>2, BlocksHere DEF CreateLoadItem
    <2>4. \A j \in Items \ {i} : attrs'[c][j] = attrs[c][j]
        BY <1>0, <1>5 DEF CreateLoadItem, TypeInv, TypeOK, MemoryOK
    <2> QED BY <1>2, <2>1, <2>3, <2>4 DEF UpstreamOK, Wrote, Cart
  <1>6. CASE CreateReserve(c)
    <2>1. pc[c] = "reserve" /\ UNCHANGED <<resv, target>> /\ NextUpstream(c, attrs'[c])
        BY <1>6 DEF CreateReserve
    <2>2. \/ pc'[c] = "loadItem" /\ todo'[c] = todo[c] \ {i}
          \/ pc'[c] \in {"compensate", "markCancelled"}
          \/ /\ pc'[c] = "markPending" /\ todo'[c] = {} /\ todo[c] \subseteq {i}
             /\ \A j \in Cart(r) : attrs'[c][j].status # "FAILED"
        BY <1>0, <2>1, NextUpstreamHere
    <2>3. \E a : WriteItem(c, i, a) /\ a.status \in {"HELD", "FAILED"}
        BY <1>6 DEF CreateReserve
    <2>4. /\ dirty'[c] = dirty[c] \cup {i} /\ attrs'[c][i].status \in {"HELD", "FAILED"}
          /\ \A j \in Items \ {i} : attrs'[c][j] = attrs[c][j]
      <3>1. PICK a : WriteItem(c, i, a) /\ a.status \in {"HELD", "FAILED"}
          BY <2>3
      <3>2. dirty'[c] = dirty[c] \cup {i} /\ attrs'[c] = [attrs[c] EXCEPT ![i] = a]
          BY <1>0, <3>1, BlocksHere
      <3> QED BY <1>0, <1>2, <2>1, <3>1, <3>2 DEF TypeInv, TypeOK, MemoryOK
    <2>5. \A j \in Cart(r) : j \in todo[c] \ {i} \/ Wrote(c, j, {"HELD", "FAILED"})'
        BY <1>2, <2>1, <2>4 DEF Wrote, Cart
    <2> QED BY <1>2, <2>1, <2>2, <2>5 DEF UpstreamOK, Wrote, Upstreaming
  <1> QED BY <1>0, <1>3, <1>4, <1>5, <1>6, ComesFrom

LEMMA ConfirmHere ==
    ASSUME SerialInv, NEW c \in Sessions, Moves(c)
    PROVE  ConfirmOK(c)'
  <1> DEFINE i == at[c]
             r == target[c]
             rest == todo[c] \ {i}
  <1>0. /\ TypeInv /\ ConfirmOK(c)
        /\ pc[c] \in Confirming => r \in Reservations
      BY DEF SerialInv, SerialOK, WorkInv, BaseInv, TypeInv, OnCourse, Confirming
  <1>1. CASE pc'[c] \notin Confirming
      BY <1>1 DEF ConfirmOK, Confirming
  <1>2. ASSUME pc'[c] \in Confirming, NEW q \in Reservations, ConfirmRead(c, q)
        PROVE  ConfirmOK(c)'
    <2>1. /\ target'[c] = q /\ resv' = resv /\ row'[c] = resv[q]
          /\ resv[q].status \in Confirmable /\ pc'[c] = "confirmLock"
        BY <1>0, <1>2, BlocksHere
           DEF ConfirmRead, ReadOrRefuse, Confirming, TypeInv, TypeOK, CursorOK, MemoryOK
    <2> QED BY <2>1 DEF ConfirmOK
  <1>3. CASE pc'[c] \in Confirming /\ ConfirmLock(c)
    <2>1. ~Rollback(c, "conflict")
        BY <1>0, <1>3, BlocksHere DEF Rollback, Confirming
    <2>2. /\ Commit(c, Transitioned(c, "CONFIRMING")) /\ pc'[c] = "confirmRefresh"
          /\ target' = target /\ pc[c] = "confirmLock"
        BY <1>0, <1>3, <2>1, BlocksHere DEF ConfirmLock
    <2>3. resv'[r].status = "CONFIRMING"
        BY <1>0, <2>2, TransitionedStatus DEF ConfirmOK, Confirming, Commit
    <2> QED BY <2>2, <2>3 DEF ConfirmOK
  <1>4. CASE ConfirmRefresh(c)
    <2>1. /\ pc[c] = "confirmRefresh" /\ pc'[c] = "confirmItems"
          /\ UNCHANGED <<resv, target>>
        BY <1>0, <1>4, BlocksHere DEF ConfirmRefresh
    <2> QED BY <1>0, <2>1 DEF ConfirmOK, Confirming
  <1>5. CASE ConfirmItems(c)
    <2> DEFINE cart == Cart(r)
               held == {j \in cart : item[j].status = "HELD"}
    <2>1. /\ pc[c] = "confirmItems" /\ UNCHANGED <<resv, item, target>>
          /\ allConfirmed'[c] = (held = cart)
          /\ todo'[c] = held /\ pc'[c] \in {"confirmItem", "confirmFinal"}
          /\ pc'[c] = "confirmFinal" => held = {}
        BY <1>0, <1>5, VisitHere DEF ConfirmItems, TypeInv, TypeOK
    <2>2. resv[r].status = "CONFIRMING"
        BY <1>0, <2>1 DEF ConfirmOK, Confirming
    <2> QED BY <2>1, <2>2 DEF ConfirmOK
  <1>6. CASE ConfirmItem(c)
    <2>1. /\ pc[c] = "confirmItem" /\ UNCHANGED <<resv, item, target>> /\ i \in Items
          /\ todo'[c] = rest /\ pc'[c] \in {"confirmItem", "confirmFinal"}
          /\ pc'[c] = "confirmFinal" => rest = {}
        BY <1>0, <1>6, VisitHere DEF ConfirmItem, TypeInv, OnCourse, ItemSteps
    <2>2. resv[r].status = "CONFIRMING"
        BY <1>0, <2>1 DEF ConfirmOK, Confirming
    <2>3. CASE ~allConfirmed'[c]
        BY <2>1, <2>2, <2>3 DEF ConfirmOK
    <2>4. CASE allConfirmed'[c]
      <3> DEFINE new == [attrs[c][i] EXCEPT !.status = "CONFIRMED"]
      <3>1. allConfirmed[c] /\ WriteItem(c, i, new)
          BY <1>0, <1>6, <2>4 DEF ConfirmItem, TypeInv, TypeOK
      <3>2. new.status = "CONFIRMED"
          BY <1>0, <2>1 DEF TypeInv, TypeOK, MemoryOK, ItemRow
      <3> HIDE DEF new
      <3>3. dirty'[c] = dirty[c] \cup {i} /\ attrs'[c] = [attrs[c] EXCEPT ![i] = new]
          BY <1>0, <3>1, BlocksHere
      <3>4. /\ attrs'[c][i].status = "CONFIRMED"
            /\ \A j \in Items \ {i} : attrs'[c][j] = attrs[c][j]
          BY <1>0, <2>1, <3>2, <3>3 DEF TypeInv, TypeOK, MemoryOK
      <3>5. \A j \in Cart(r) :
                item[j].status = "HELD" /\ (j \in todo[c] \/ Wrote(c, j, {"CONFIRMED"}))
          BY <1>0, <2>1, <3>1 DEF ConfirmOK
      <3>6. \A j \in Cart(r) : j \in rest \/ Wrote(c, j, {"CONFIRMED"})'
          BY <3>3, <3>4, <3>5 DEF Wrote, Cart
      <3> QED BY <2>1, <2>2, <3>5, <3>6 DEF ConfirmOK
    <2> QED BY <2>3, <2>4
  <1> QED BY <1>0, <1>1, <1>2, <1>3, <1>4, <1>5, <1>6, ComesFrom

\* Nothing is closed but what stands wholly held.
LEMMA OpenIsHeld ==
    ASSUME RowsCoherent, NEW r \in Reservations, resv[r].status \in Open
    PROVE  \A i \in Cart(r) : item[i].status \in Holding
  BY DEF RowsCoherent, ItemsIn, Open, Holding

LEMMA CloseHere ==
    ASSUME SerialInv, NEW c \in Sessions, Moves(c)
    PROVE  CloseOK(c)'
  <1> DEFINE i == at[c]
             r == target[c]
             rest == todo[c] \ {i}
  <1>0. /\ TypeInv /\ CloseOK(c) /\ RowsCoherent
        /\ pc[c] \in Closing => r \in Reservations /\ resv[r].status \in Open
        /\ \A q \in batch[c] : q \in Reservations /\ q # r /\ resv[q].status \in Open
      BY DEF SerialInv, SerialOK, WorkInv, BaseInv, TypeInv, TypeOK, CursorOK, OnCourse,
             Closing, CloseOK, BatchOK
  <1>1. CASE pc'[c] \notin Closing
      BY <1>1 DEF CloseOK, Closing
  <1>2. ASSUME pc'[c] \in Closing, NEW q \in Reservations, CancelRead(c, q)
        PROVE  CloseOK(c)'
    <2>1. /\ target'[c] = q /\ resv' = resv /\ row'[c] = resv[q]
          /\ resv[q].status \in Open /\ pc'[c] = "heldItems"
        BY <1>0, <1>2, BlocksHere
           DEF CancelRead, ReadOrRefuse, Closing, TypeInv, TypeOK, CursorOK, MemoryOK
    <2> QED BY <2>1 DEF CloseOK
  <1>3. CASE Sweep(c)
    <2>1. \E q \in FoundExpired : target'[c] = q /\ row'[c] = resv[q]
        BY <1>0, <1>3 DEF Sweep, TypeInv, TypeOK, CursorOK, MemoryOK
    <2>2. resv' = resv /\ pc'[c] = "heldItems"
        BY <1>0, <1>3, BlocksHere DEF Sweep
    <2> QED BY <2>1, <2>2 DEF CloseOK, FoundExpired
  <1>4. CASE ExpireReload(c)
    <2>1. /\ pc[c] = "reload" /\ UNCHANGED <<resv, target>> /\ row'[c] = resv[r]
          /\ pc'[c] = "heldItems"
        BY <1>0, <1>4, BlocksHere DEF ExpireReload, TypeInv, TypeOK, MemoryOK
    <2> QED BY <1>0, <2>1 DEF CloseOK, Closing
  <1>5. CASE LoadHeldItems(c)
    <2> DEFINE held == {j \in Cart(r) : item[j].status \in Holding}
    <2>1. /\ pc[c] = "heldItems" /\ UNCHANGED <<resv, target, row>>
          /\ todo'[c] = held /\ pc'[c] \in {"release", "close"}
          /\ pc'[c] = "close" => held = {}
        BY <1>0, <1>5, VisitHere DEF LoadHeldItems
    <2>2. held = Cart(r)
        BY <1>0, <2>1, OpenIsHeld DEF Closing
    <2> QED BY <1>0, <2>1, <2>2 DEF CloseOK, Closing
  <1>6. CASE ReleaseHeldItem(c)
    <2> DEFINE new == [attrs[c][i] EXCEPT !.status = "RELEASED"]
    <2>1. /\ pc[c] = "release" /\ UNCHANGED <<resv, target, row>> /\ i \in Items
          /\ todo'[c] = rest /\ pc'[c] \in {"release", "close"}
          /\ pc'[c] = "close" => rest = {}
        BY <1>0, <1>6, VisitHere DEF ReleaseHeldItem, TypeInv, OnCourse, ItemSteps
    <2>2. WriteItem(c, i, new)
        BY <1>6 DEF ReleaseHeldItem, ReleaseItem
    <2>3. new.status = "RELEASED"
        BY <1>0, <2>1 DEF TypeInv, TypeOK, MemoryOK, ItemRow
    <2> HIDE DEF new
    <2>4. dirty'[c] = dirty[c] \cup {i} /\ attrs'[c] = [attrs[c] EXCEPT ![i] = new]
        BY <1>0, <2>2, BlocksHere
    <2>5. /\ attrs'[c][i].status = "RELEASED"
          /\ \A j \in Items \ {i} : attrs'[c][j] = attrs[c][j]
        BY <1>0, <2>1, <2>3, <2>4 DEF TypeInv, TypeOK, MemoryOK
    <2>6. \A j \in Cart(r) : j \in rest \/ Wrote(c, j, {"RELEASED"})'
        BY <1>0, <2>1, <2>4, <2>5 DEF CloseOK, Wrote, Cart
    <2> QED BY <1>0, <2>1, <2>6 DEF CloseOK, Closing
  <1>7. CASE pc'[c] \in Closing /\ ExpireFinal(c)
    <2>1. pc'[c] = "reload" /\ target'[c] \in batch[c]
        BY <1>0, <1>7, BlocksHere DEF ExpireFinal, Closing, TypeInv, TypeOK, CursorOK
    <2>2. resv'[target'[c]].status \in Open
        BY <1>0, <2>1, RowMoves
    <2> QED BY <2>1, <2>2 DEF CloseOK, Closing
  <1> QED BY <1>0, <1>1, <1>2, <1>3, <1>4, <1>5, <1>6, <1>7, ComesFrom

LEMMA SerialHere ==
    ASSUME SerialInv, NEW c \in Sessions, Moves(c)
    PROVE  SerialOK(c)'
  <1>0. /\ TypeInv /\ BatchOK(c)
        /\ pc[c] \in Idle => batch[c] = {}
        /\ batch[c] \subseteq Reservations
      BY DEF SerialInv, SerialOK, WorkInv, BaseInv, TypeInv, TypeOK, CursorOK, BatchOK
  <1>1. pc'[c] \in Idle => batch'[c] = {}
    <2>1. Start(c) => batch' = batch /\ pc[c] = "idle"
        BY DEF Start, CreateFind, ConfirmRead, CancelRead, ReadOrRefuse
    <2> QED BY <1>0, <2>1, ComesFrom DEF Idle
  <1>2. ASSUME NEW r \in batch'[c] PROVE r # target'[c] /\ resv'[r].status \in Open
    <2>1. ASSUME r \in batch[c] PROVE resv'[r].status \in Open
        BY <1>0, <2>1, RowMoves DEF BatchOK
    <2>2. CASE batch'[c] \subseteq batch[c] /\ target'[c] = target[c]
        BY <1>0, <1>2, <2>1, <2>2 DEF BatchOK
    <2>3. CASE batch'[c] \subseteq batch[c] /\ pc[c] = "idle"
        BY <1>0, <1>2, <2>3 DEF Idle
    <2>4. CASE Sweep(c)
      <3>1. resv' = resv /\ \E q : target'[c] = q /\ batch'[c] = FoundExpired \ {q}
          BY <1>0, <2>4 DEF Sweep, TypeInv, TypeOK, CursorOK
      <3> QED BY <1>2, <3>1 DEF FoundExpired
    <2>5. CASE ExpireFinal(c) /\ batch'[c] = batch[c] \ {target'[c]}
        BY <1>2, <2>1, <2>5
    <2> QED BY <1>0, <1>2, <2>2, <2>3, <2>4, <2>5, BatchMoves
  <1> QED BY <1>1, <1>2, InsertHere, UpstreamHere, ConfirmHere, CloseHere DEF SerialOK, BatchOK

-----------------------------------------------------------------------------
(* A commit turns a whole reservation. *)

\* The step commits the reservation of session c in status `to`, coming from
\* one of `from`, and its items, all of them at `here`, at `there`.
Turns(c, from, here, to, there) ==
    /\ target[c] \in Reservations
    /\ resv[target[c]].status \in from /\ resv'[target[c]].status = to
    /\ \A i \in Cart(target[c]) : item[i].status = here /\ item'[i].status = there

Turn(c) ==
    \/ Turns(c, {"absent"}, "absent", "PENDING_LOCAL", "HELD_LOCAL")
    \/ Turns(c, {"PENDING_LOCAL"}, "HELD_LOCAL", "PENDING", "HELD")
    \/ \E here \in {"HELD", "HELD_LOCAL"} : Turns(c, Confirmable, here, "CONFIRMING", here)
    \/ Turns(c, {"CONFIRMING"}, "HELD", "CONFIRMED", "CONFIRMED")
    \/ \E here \in {"HELD", "HELD_LOCAL"}, to \in {"CANCELLED", "EXPIRED"} :
           Turns(c, Open, here, to, "RELEASED")

Held == {"HELD", "HELD_LOCAL"}

LEMMA Standing ==
    ASSUME RowsCoherent, NEW r \in Reservations
    PROVE  /\ resv[r].status = "absent" => \A i \in Cart(r) : item[i].status = "absent"
           /\ resv[r].status = "PENDING_LOCAL" => \A i \in Cart(r) : item[i].status = "HELD_LOCAL"
           /\ resv[r].status \in Confirmable =>
                  \E here \in Held : \A i \in Cart(r) : item[i].status = here
  BY DEF RowsCoherent, ItemsIn, Confirmable, Open, Held

\* The rows a commit leaves, item by item.
LEMMA Flushed ==
    ASSUME TypeInv, NEW c \in Sessions, NEW n, Commit(c, n), NEW i \in Items
    PROVE  /\ i \in dirty[c] => item'[i].status = attrs[c][i].status
           /\ i \notin dirty[c] => item'[i] = item[i]
  BY DEF Commit, FlushedItem

LEMMA Commits ==
    ASSUME SerialInv, NEW c \in Sessions, Moves(c)
    PROVE  \/ UNCHANGED database
           \/ Turn(c) /\ pc[c] \notin Idle \cup {"hold"} /\ \E n : Commit(c, n)
  <1> DEFINE r == target[c]
  <1>0. /\ TypeInv /\ RowsCoherent /\ InsertOK(c) /\ UpstreamOK(c) /\ ConfirmOK(c) /\ CloseOK(c)
        /\ pc[c] \notin Idle => r \in Reservations
      BY DEF SerialInv, SerialOK, WorkInv, BaseInv, TypeInv, OnCourse, Idle
  <1>1. CASE UNCHANGED database
      BY <1>1
  <1>2. CASE CreateCommitLocal(c)
    <2>1. pc[c] = "commitLocal" /\ \E n : Commit(c, n)
        BY <1>2 DEF CreateCommitLocal
    <2>2. resv[r].status = "absent" /\ resv'[r].status = "PENDING_LOCAL"
        BY <1>0, <1>2, <2>1
           DEF CreateCommitLocal, Commit, TypeInv, TypeOK, DatabaseOK, SerialInv, WorkInv,
               BaseInv, RowsInv, RowStanding, Inserting, Idle
    <2>3. ASSUME NEW i \in Cart(r) PROVE item[i].status = "absent" /\ item'[i].status = "HELD_LOCAL"
      <3>1. i \in Items /\ i \in dirty[c]
          BY <1>0, <2>1, <2>3 DEF InsertOK, Inserting, Cart
      <3>2. attrs[c][i].status = "HELD_LOCAL"
          BY <2>1, <3>1 DEF Inserting, SerialInv, WorkInv, BaseInv, LoopInv, LoopOK, DirtyKnown
      <3> QED BY <1>0, <2>1, <2>2, <3>1, <3>2, Flushed, Standing DEF Idle
    <2> QED BY <1>0, <2>1, <2>2, <2>3 DEF Turn, Turns, Idle
  <1>3. CASE CreateMarkPending(c)
    <2>1. pc[c] = "markPending" /\ \E n : Commit(c, n)
        BY <1>3 DEF CreateMarkPending
    <2>2. resv[r].status = "PENDING_LOCAL" /\ resv'[r].status = "PENDING"
        BY <1>0, <1>3, <2>1
           DEF CreateMarkPending, Commit, TypeInv, TypeOK, DatabaseOK, ResvRow, UpstreamOK,
               Upstreaming, Idle
    <2>3. ASSUME NEW i \in Cart(r) PROVE item[i].status = "HELD_LOCAL" /\ item'[i].status = "HELD"
      <3>1. i \in Items /\ Wrote(c, i, {"HELD"})
          BY <1>0, <2>1, <2>3 DEF UpstreamOK, Upstreaming, Cart
      <3> QED BY <1>0, <2>1, <2>2, <3>1, Flushed, Standing DEF Wrote, Idle
    <2> QED BY <1>0, <2>1, <2>2, <2>3 DEF Turn, Turns, Idle
  <1>4. CASE ConfirmLock(c) /\ ~UNCHANGED database
    <2>1. pc[c] = "confirmLock" /\ Commit(c, Transitioned(c, "CONFIRMING"))
        BY <1>4 DEF ConfirmLock, Rollback
    <2>2. resv[r].status \in Confirmable /\ resv'[r].status = "CONFIRMING"
        BY <1>0, <2>1, TransitionedStatus DEF Commit, ConfirmOK, Idle
    <2>3. \A i \in Cart(r) : item'[i] = item[i]
        BY <1>0, <2>1, Flushed
           DEF Cart, SerialInv, WorkInv, BaseInv, LockInv, LockOK, FreshWhenClean, CleanSteps
    <2>4. PICK here \in Held : \A i \in Cart(r) : item[i].status = here
        BY <1>0, <2>1, <2>2, Standing DEF Idle
    <2> QED BY <1>0, <2>1, <2>2, <2>3, <2>4 DEF Turn, Turns, Idle, Held
  <1>5. CASE ConfirmFinal(c) /\ ~UNCHANGED database
    <2>1. /\ pc[c] = "confirmFinal" /\ Commit(c, Transitioned(c, "CONFIRMED"))
          /\ row[c].status = "CONFIRMING" /\ allConfirmed[c]
        BY <1>5 DEF ConfirmFinal, Rollback
    <2>2. resv[r].status = "CONFIRMING" /\ resv'[r].status = "CONFIRMED"
        BY <1>0, <2>1, TransitionedStatus DEF Commit, ConfirmOK, Confirming, Idle
    <2>3. ASSUME NEW i \in Cart(r) PROVE item[i].status = "HELD" /\ item'[i].status = "CONFIRMED"
      <3>1. i \in Items /\ Wrote(c, i, {"CONFIRMED"}) /\ item[i].status = "HELD"
          BY <1>0, <2>1, <2>3 DEF ConfirmOK, Cart
      <3> QED BY <1>0, <2>1, <3>1, Flushed DEF Wrote
    <2> QED BY <1>0, <2>1, <2>2, <2>3 DEF Turn, Turns, Idle
  <1>6. CASE (CancelFinal(c) \/ ExpireFinal(c)) /\ ~UNCHANGED database
    <2>1. pc[c] = "close" /\ resv[r].status \in Open /\ row[c].status = resv[r].status
        BY <1>0, <1>6 DEF CancelFinal, ExpireFinal, CloseOK, Closing
    <2>2. PICK to \in {"CANCELLED", "EXPIRED"} : Commit(c, Transitioned(c, to))
        BY <1>6, <2>1 DEF CancelFinal, ExpireFinal, Rollback
    <2>3. resv'[r].status = to
        BY <1>0, <2>1, <2>2, TransitionedStatus DEF Commit, Open, Idle
    <2>4. PICK here \in Held : \A i \in Cart(r) : item[i].status = here
        BY <1>0, <2>1, Standing DEF Idle, Confirmable
    <2>5. ASSUME NEW i \in Cart(r) PROVE item'[i].status = "RELEASED"
      <3>1. i \in Items /\ Wrote(c, i, {"RELEASED"})
          BY <1>0, <2>1, <2>5 DEF CloseOK, Cart
      <3> QED BY <1>0, <2>2, <3>1, Flushed DEF Wrote
    <2> QED BY <1>0, <2>1, <2>2, <2>3, <2>4, <2>5 DEF Turn, Turns, Idle, Held
  <1>7. CASE Start(c) \/ Sweep(c) \/ DeadlockAbort(c) \/ Crash(c)
      BY <1>7 DEF Start, CreateFind, ConfirmRead, CancelRead, ReadOrRefuse, Sweep,
                  DeadlockAbort, Crash, Rollback
  <1>8. CASE \/ CreateInsert(c) \/ CreateAddItem(c) \/ CreateHold(c) \/ CreateLoadItem(c)
             \/ CreateReserve(c) \/ CreateCompensate(c) \/ CreateMarkCancelled(c)
      BY <1>8 DEF CreateInsert, CreateAddItem, CreateHold, CreateLoadItem, CreateReserve,
                  CreateCompensate, CreateMarkCancelled, Rollback
  <1>9. CASE \/ ConfirmRefresh(c) \/ ConfirmItems(c) \/ ConfirmItem(c)
             \/ ExpireReload(c) \/ LoadHeldItems(c) \/ ReleaseHeldItem(c)
      BY <1>9 DEF ConfirmRefresh, ConfirmItems, ConfirmItem, ExpireReload, LoadHeldItems,
                  ReleaseHeldItem
  <1> QED BY <1>1, <1>2, <1>3, <1>4, <1>5, <1>6, <1>7, <1>8, <1>9 DEF Moves, Continue

LEMMA RowsTurn ==
    ASSUME SerialInv, NEW c \in Sessions, Moves(c)
    PROVE  RowsCoherent'
  <1> DEFINE RowCoherent(r) ==
          CASE resv[r].status = "absent" -> ItemsIn(r, {"absent"})
            [] resv[r].status = "PENDING_LOCAL" -> ItemsIn(r, {"HELD_LOCAL"})
            [] resv[r].status = "PENDING" -> ItemsIn(r, {"HELD"})
            [] resv[r].status = "CONFIRMING" -> ItemsIn(r, {"HELD"}) \/ ItemsIn(r, {"HELD_LOCAL"})
            [] resv[r].status = "CONFIRMED" -> ItemsIn(r, {"CONFIRMED"})
            [] resv[r].status \in {"CANCELLED", "EXPIRED"} -> ItemsIn(r, {"RELEASED"})
            [] OTHER -> FALSE
  <1>1. RowsCoherent <=> \A r \in Reservations : RowCoherent(r)
      BY DEF RowsCoherent
  <1>2. RowsCoherent' <=> \A r \in Reservations : RowCoherent(r)'
      BY DEF RowsCoherent
  <1>3. ASSUME NEW r \in Reservations, resv'[r].status = resv[r].status,
               \A i \in Cart(r) : item'[i] = item[i]
        PROVE  RowCoherent(r)'
    <2>1. RowCoherent(r)
        BY <1>1 DEF SerialInv
    <2>2. \A S : ItemsIn(r, S)' <=> ItemsIn(r, S)
        BY <1>3 DEF ItemsIn
    <2> QED BY <1>3, <2>1, <2>2
  <1>4. ASSUME NEW r \in Reservations, r = target[c], Turn(c) PROVE RowCoherent(r)'
      BY <1>4 DEF Turn, Turns, ItemsIn
  <1>5. ASSUME NEW r \in Reservations PROVE RowCoherent(r)'
    <2>1. CASE UNCHANGED database
        BY <1>3, <2>1
    <2>2. CASE Turn(c) /\ r = target[c]
        BY <1>4, <2>2
    <2>3. CASE r # target[c]
        BY <1>3, <2>3, Elsewhere DEF SerialInv, WorkInv
    <2> QED BY <2>1, <2>2, <2>3, Commits
  <1> QED BY <1>2, <1>5

\* What a commit does to the sets of items the stock rows stand for.
LEMMA HeldTurns ==
    ASSUME SerialInv, NEW c \in Sessions, NEW n, Commit(c, n), Turn(c), pc[c] # "hold", NEW p
    PROVE  /\ LetGo(c, p) \subseteq HeldItems(p) /\ Taken(c, p) \cap HeldItems(p) = {}
           /\ HeldItems(p)' = (HeldItems(p) \ LetGo(c, p)) \cup Taken(c, p)
           /\ SoldNow(c, p) \cap SoldItems(p) = {}
           /\ SoldItems(p)' = SoldItems(p) \cup SoldNow(c, p)
  <1>0. TypeInv /\ dirty[c] \subseteq Cart(target[c])
      BY DEF SerialInv, WorkInv, BaseInv, LockInv, LockOK, DirtyGuarded
  <1>1. ASSUME NEW i \in dirty[c]
        PROVE  /\ i \in Items /\ item'[i].status = attrs[c][i].status
               /\ \/ item[i].status = "absent" /\ attrs[c][i].status = "HELD_LOCAL"
                  \/ item[i].status \in Held /\ attrs[c][i].status \in Held
                  \/ /\ item[i].status \in Held
                     /\ attrs[c][i].status \in {"CONFIRMED", "RELEASED"}
    <2>1. i \in Items /\ i \in Cart(target[c])
        BY <1>0, <1>1 DEF Cart
    <2>2. item'[i].status = attrs[c][i].status
        BY <1>0, <1>1, <2>1, Flushed
    <2> QED BY <2>1, <2>2 DEF Turn, Turns, Held
  <1>2. \A i \in Items \ dirty[c] : item'[i] = item[i]
      BY <1>0, Flushed
  <1>3. LetGo(c, p) \subseteq HeldItems(p) /\ SoldNow(c, p) \cap SoldItems(p) = {}
      BY <1>1 DEF LetGo, HeldItems, SoldNow, SoldItems, Holding, Held
  <1>4. Taken(c, p) \cap HeldItems(p) = {}
      BY DEF Taken, HeldItems, Holding
  <1>5. ASSUME NEW i \in Items
        PROVE  /\ i \in HeldItems(p)' <=> i \in (HeldItems(p) \ LetGo(c, p)) \cup Taken(c, p)
               /\ i \in SoldItems(p)' <=> i \in SoldItems(p) \cup SoldNow(c, p)
    <2>1. CASE i \in dirty[c]
        BY <1>1, <2>1 DEF LetGo, HeldItems, Taken, SoldNow, SoldItems, Holding, Held
    <2>2. CASE i \notin dirty[c]
        BY <1>2, <2>2 DEF LetGo, HeldItems, Taken, SoldNow, SoldItems
    <2> QED BY <2>1, <2>2
  <1>6. /\ HeldItems(p)' \subseteq Items /\ HeldItems(p) \subseteq Items
        /\ SoldItems(p)' \subseteq Items /\ SoldItems(p) \subseteq Items
        /\ Taken(c, p) \subseteq Items /\ SoldNow(c, p) \subseteq Items
      BY <1>1 DEF HeldItems, SoldItems, Taken, SoldNow
  <1> QED BY <1>3, <1>4, <1>5, <1>6

\* Units move with their items: the arithmetic of the stock row in hand.
LEMMA CountsTurn ==
    ASSUME NEW H \in SUBSET Items, NEW L \in SUBSET H, NEW T \in SUBSET Items,
           NEW S \in SUBSET Items, NEW N \in SUBSET Items,
           IsFiniteSet(H), IsFiniteSet(T), IsFiniteSet(S), IsFiniteSet(N),
           T \cap H = {}, N \cap S = {}
    PROVE  /\ UnitCount((H \ L) \cup T) + UnitCount(L) = UnitCount(H) + UnitCount(T)
           /\ UnitCount(S \cup N) = UnitCount(S) + UnitCount(N)
           /\ UnitCount((H \ L) \cup T) \in Nat
  <1> DEFINE K == H \ L
  <1>1. IsFiniteSet(L) /\ IsFiniteSet(K) /\ K \in SUBSET Items /\ L \in SUBSET Items
      BY FS_Subset
  <1>2. H = K \cup L /\ K \cap L = {} /\ K \cap T = {}
      OBVIOUS
  <1> HIDE DEF K
  <1>3. UnitCount(H) = UnitCount(K) + UnitCount(L)
      BY <1>1, <1>2, UnitCounts
  <1>4. UnitCount(K \cup T) = UnitCount(K) + UnitCount(T)
      BY <1>1, <1>2, UnitCounts
  <1>5. UnitCount(K) \in Nat /\ UnitCount(L) \in Nat /\ UnitCount(T) \in Nat
      BY <1>1, UnitCounts
  <1>6. UnitCount(K \cup T) + UnitCount(L) = UnitCount(H) + UnitCount(T)
      BY <1>3, <1>4, <1>5
  <1>7. UnitCount(S \cup N) = UnitCount(S) + UnitCount(N)
      BY UnitCounts
  <1> QED BY <1>4, <1>5, <1>6, <1>7 DEF K

LEMMA PresentFinite ==
    ASSUME SerialInv, NEW p
    PROVE  /\ HeldItems(p) \in SUBSET Items /\ IsFiniteSet(HeldItems(p))
           /\ SoldItems(p) \in SUBSET Items /\ IsFiniteSet(SoldItems(p))
  <1>1. HeldItems(p) \in SUBSET Present /\ SoldItems(p) \in SUBSET Present
      BY DEF HeldItems, SoldItems, Present, Holding
  <1>2. IsFiniteSet(HeldItems(p)) /\ IsFiniteSet(SoldItems(p))
      BY <1>1, FS_Subset DEF SerialInv
  <1> QED BY <1>2 DEF HeldItems, SoldItems

LEMMA StockTurns ==
    ASSUME SerialInv, NEW c \in Sessions, NEW n, Commit(c, n), Turn(c), pc[c] # "hold",
           NEW p \in Products
    PROVE  /\ stock'[p].reserved = UnitCount(HeldItems(p)')
           /\ stock'[p].sold = UnitCount(SoldItems(p)')
  <1>0. /\ stock[p].reserved = UnitCount(HeldItems(p))
        /\ stock[p].sold = UnitCount(SoldItems(p))
      BY DEF SerialInv, Accounting, UnitCount
  <1>1. CASE p \in touched[c]
    <2> DEFINE H == HeldItems(p)
               S == SoldItems(p)
               L == LetGo(c, p)
               T == Taken(c, p)
               N == SoldNow(c, p)
    <2>1. /\ H \in SUBSET Items /\ IsFiniteSet(H) /\ S \in SUBSET Items /\ IsFiniteSet(S)
          /\ T \in SUBSET Items /\ IsFiniteSet(T) /\ N \in SUBSET Items /\ IsFiniteSet(N)
          /\ UnitCount(L) \in Nat
        BY PresentFinite, WorkSets DEF SerialInv, WorkInv
    <2>2. /\ L \in SUBSET H /\ T \cap H = {} /\ N \cap S = {}
          /\ HeldItems(p)' = (H \ L) \cup T /\ SoldItems(p)' = S \cup N
        BY HeldTurns
    <2>3. stock'[p] = inv[c][p] /\ inv[c][p] \in StockRow
        BY <1>1 DEF Commit, SerialInv, WorkInv, BaseInv, TypeInv, TypeOK, MemoryOK
    <2>4. /\ inv[c][p].reserved + UnitCount(L) = UnitCount(H) + UnitCount(T)
          /\ inv[c][p].sold = UnitCount(S) + UnitCount(N)
        BY <1>0, <1>1 DEF SerialInv, WorkInv, TracksInv, Tracks, Follows
    <2> HIDE DEF H, S, L, T, N
    <2>5. /\ UnitCount((H \ L) \cup T) + UnitCount(L) = UnitCount(H) + UnitCount(T)
          /\ UnitCount(S \cup N) = UnitCount(S) + UnitCount(N)
          /\ UnitCount((H \ L) \cup T) \in Nat
        BY <2>1, <2>2, CountsTurn
    <2>6. inv[c][p].reserved \in Int
        BY <2>3 DEF StockRow
    <2>7. inv[c][p].reserved = UnitCount((H \ L) \cup T)
        BY <2>1, <2>4, <2>5, <2>6
    <2> QED BY <2>2, <2>3, <2>4, <2>5, <2>7
  <1>2. CASE p \notin touched[c]
    <2>1. \A i \in dirty[c] : ProductOf[i] # p
        BY <1>2 DEF SerialInv, WorkInv, BaseInv, LockInv, LockOK, DirtyGuarded, AtHold
    <2>2. LetGo(c, p) = {} /\ Taken(c, p) = {} /\ SoldNow(c, p) = {}
        BY <2>1 DEF LetGo, Taken, SoldNow
    <2>3. HeldItems(p)' = HeldItems(p) /\ SoldItems(p)' = SoldItems(p)
        BY <2>2, HeldTurns
    <2>4. stock'[p] = stock[p]
        BY <1>2 DEF Commit
    <2> QED BY <1>0, <2>3, <2>4
  <1> QED BY <1>1, <1>2

LEMMA AccountsTurn ==
    ASSUME SerialInv, NEW c \in Sessions, Moves(c)
    PROVE  Accounting' /\ IsFiniteSet(Present')
  <1>1. CASE UNCHANGED database
    <2>1. Present' = Present /\ \A p : HeldItems(p)' = HeldItems(p) /\ SoldItems(p)' = SoldItems(p)
        BY <1>1 DEF Present, HeldItems, SoldItems
    <2> QED BY <1>1, <2>1 DEF SerialInv, Accounting
  <1>2. ASSUME NEW n, Commit(c, n), Turn(c), pc[c] # "hold"
        PROVE  Accounting' /\ IsFiniteSet(Present')
    <2>1. Accounting'
        BY <1>2, StockTurns DEF Accounting, UnitCount
    <2>2. IsFiniteSet(Present \cup dirty[c])
        BY FS_Union DEF SerialInv, WorkInv, BaseInv, LoopInv, LoopOK, DirtyKnown
    <2>3. Present' \subseteq Present \cup dirty[c]
        BY <1>2, Flushed DEF Present, SerialInv, WorkInv, BaseInv
    <2> QED BY <2>1, <2>2, <2>3, FS_Subset
  <1> QED BY <1>1, <1>2, Commits

LEMMA NextSerial == SerialInv /\ [SerialNext]_vars => SerialInv'
  <1> SUFFICES ASSUME SerialInv, [SerialNext]_vars PROVE SerialInv'
      OBVIOUS
  <1>1. WorkInv' /\ LedgerInv'
      BY NextWork, NextLedger DEF SerialInv, WorkInv, BaseInv, SerialNext
  <1>2. OneAtATime'
    <2>1. CASE UNCHANGED vars
        BY <2>1 DEF vars, SerialInv, OneAtATime, Engaged
    <2> QED BY <2>1 DEF SerialNext
  <1>3. ASSUME NEW c \in Sessions, Moves(c) PROVE SerialInv'
    <2>1. \A d \in Sessions : SerialOK(d)'
        BY <1>3, SerialHere, SerialOther
    <2> QED BY <1>1, <1>2, <1>3, <2>1, RowsTurn, AccountsTurn DEF SerialInv
  <1>4. CASE (\E r \in Reservations : PassTTL(r)) \/ UNCHANGED vars
    <2>1. UNCHANGED <<database, pc, cursor, memory, allConfirmed>>
        BY <1>4 DEF PassTTL, vars
    <2>2. RowsCoherent'
        BY <2>1 DEF SerialInv, RowsCoherent, ItemsIn
    <2>3. Present' = Present /\ \A p : HeldItems(p)' = HeldItems(p) /\ SoldItems(p)' = SoldItems(p)
        BY <2>1 DEF Present, HeldItems, SoldItems
    <2>4. Accounting' /\ IsFiniteSet(Present')
        BY <2>1, <2>3 DEF SerialInv, Accounting
    <2>5. ASSUME NEW c \in Sessions PROVE SerialOK(c)'
      <3>1. InsertOK(c)' /\ UpstreamOK(c)'
          BY <2>1 DEF SerialInv, SerialOK, InsertOK, UpstreamOK, Wrote
      <3>2. ConfirmOK(c)' /\ CloseOK(c)' /\ BatchOK(c)'
          BY <2>1 DEF SerialInv, SerialOK, ConfirmOK, CloseOK, BatchOK, Wrote
      <3> QED BY <3>1, <3>2 DEF SerialOK
    <2> QED BY <1>1, <1>2, <2>2, <2>4, <2>5 DEF SerialInv
  <1> QED BY <1>3, <1>4 DEF SerialNext, Next, Finished, Moves

\* A reservation is all or nothing: through every failure, crash and deadlock,
\* its status says where each of its items is.
THEOREM RowsAreCoherent == SerialSpec => []RowsCoherent
  <1>1. SerialInv => RowsCoherent
      BY DEF SerialInv
  <1> QED BY <1>1, InitSerial, NextSerial, PTL DEF SerialSpec

\* The stock rows and the item rows tell the same story: every reserved unit
\* is of an item that is held, every sold one of an item that is confirmed.
THEOREM AccountsAgree == SerialSpec => []Accounting
  <1>1. SerialInv => Accounting
      BY DEF SerialInv
  <1> QED BY <1>1, InitSerial, NextSerial, PTL DEF SerialSpec

\* Nothing is oversold: the units of held and of confirmed items are the reserved
\* and the sold ones of the stock row, and the row balances with nothing below
\* zero on sale.
LEMMA AccountsBound == SerialInv => NeverOversold
  <1> SUFFICES ASSUME SerialInv, NEW p \in Products
               PROVE  Cardinality(UnitsOf(HeldItems(p) \cup SoldItems(p), Qty)) <= Stock0[p]
      BY DEF NeverOversold
  <1> DEFINE held == HeldItems(p)
             sold == SoldItems(p)
  <1>1. IsFiniteSet(held) /\ IsFiniteSet(sold) /\ held \in SUBSET Items /\ sold \in SUBSET Items
      BY PresentFinite DEF SerialInv, HeldItems, SoldItems
  <1>2. held \cap sold = {}
      BY DEF HeldItems, SoldItems, Holding
  <1>3. UnitCount(held \cup sold) = UnitCount(held) + UnitCount(sold)
      BY <1>1, <1>2, UnitCounts
  <1>4. stock[p].reserved = UnitCount(held) /\ stock[p].sold = UnitCount(sold)
      BY DEF SerialInv, Accounting, UnitCount
  <1>5. /\ stock[p] \in StockRow /\ Stock0[p] \in Nat
        /\ Units(stock[p]) = Stock0[p] /\ stock[p].available >= 0
      BY CheckoutAssumption
         DEF SerialInv, WorkInv, BaseInv, TypeInv, TypeOK, DatabaseOK, LedgerInv, Balanced
  <1>6. stock[p].reserved + stock[p].sold <= Stock0[p]
      BY <1>5 DEF Units, StockRow
  <1> QED BY <1>3, <1>4, <1>6 DEF UnitCount

\* However many checkouts, confirmations, cancellations and sweeps compete for
\* however much stock, items never hold and buy more than there was.
THEOREM NothingIsOversold == SerialSpec => []NeverOversold
  BY AccountsBound, InitSerial, NextSerial, PTL DEF SerialSpec

-----------------------------------------------------------------------------
(* Every step of a session is an atomic move of a reservation, or none. *)

LEMMA LedgerOf ==
    ASSUME NEW st \in [Products -> StockRow], NEW places,
           \A p \in Products :
               /\ Units(st[p]) = Stock0[p]
               /\ st[p].reserved = Cardinality(UnitsOf(
                      {i \in Items : ProductOf[i] = p /\ places[i] \in Held}, Qty))
               /\ st[p].sold = Cardinality(UnitsOf(
                      {i \in Items : ProductOf[i] = p /\ places[i] \in {"CONFIRMED"}}, Qty))
    PROVE  st = Atomic!Ledger(places)
  <1> DEFINE held(p) == Atomic!Count(places, p, {"HELD", "HELD_LOCAL"})
             sold(p) == Atomic!Count(places, p, {"CONFIRMED"})
  <1>0. \A S : /\ Atomic!UnitsOf(S, Qty) = UnitsOf(S, Qty)
               /\ Atomic!Cardinality(S) = Cardinality(S)
      BY DEF Atomic!UnitsOf, UnitsOf, Atomic!Cardinality, Cardinality
  <1>1. \A p \in Products : st[p].reserved = held(p) /\ st[p].sold = sold(p)
      BY <1>0 DEF Atomic!Count, Held
  <1>2. Atomic!Ledger(places) =
            [p \in Products |-> [available |-> Stock0[p] - held(p) - sold(p),
                                 reserved |-> held(p), sold |-> sold(p)]]
      BY DEF Atomic!Ledger
  <1> HIDE DEF held, sold
  <1>3. ASSUME NEW p \in Products
        PROVE  st[p] = [available |-> Stock0[p] - held(p) - sold(p),
                        reserved |-> held(p), sold |-> sold(p)]
    <2>1. /\ st[p] \in [available : Int, reserved : Int, sold : Int]
          /\ st[p].available + st[p].reserved + st[p].sold = Stock0[p]
        BY DEF StockRow, Units
    <2>2. st[p].available = Stock0[p] - held(p) - sold(p)
        BY <1>1, <2>1
    <2> QED BY <1>1, <2>1, <2>2
  <1> QED BY <1>2, <1>3

\* The places of the items, as the abstract specification sees them.
Places == [i \in Items |-> item[i].status]

LEMMA StockIsLedger == SerialInv => stock = Atomic!Ledger(Places)
  <1> SUFFICES ASSUME SerialInv PROVE stock = Atomic!Ledger(Places)
      OBVIOUS
  <1>1. stock \in [Products -> StockRow] /\ \A p \in Products : Units(stock[p]) = Stock0[p]
      BY DEF SerialInv, WorkInv, BaseInv, TypeInv, TypeOK, DatabaseOK, LedgerInv, Balanced
  <1>2. \A p : /\ HeldItems(p) = {i \in Items : ProductOf[i] = p /\ Places[i] \in Held}
               /\ SoldItems(p) = {i \in Items : ProductOf[i] = p /\ Places[i] \in {"CONFIRMED"}}
      BY DEF HeldItems, SoldItems, Holding, Held, Places
  <1>3. \A p \in Products : /\ stock[p].reserved = Cardinality(UnitsOf(HeldItems(p), Qty))
                            /\ stock[p].sold = Cardinality(UnitsOf(SoldItems(p), Qty))
      BY DEF SerialInv, Accounting
  <1> QED BY <1>1, <1>2, <1>3, LedgerOf

LEMMA StockIsLedgerNext == SerialInv' => (stock = Atomic!Ledger(Places))'
  BY StockIsLedger, PTL

\* A step that turns a reservation is the abstract move of it.
LEMMA MoveOfTurn ==
    ASSUME SerialInv, SerialInv', NEW c \in Sessions, Moves(c), pc[c] \notin Idle,
           NEW from, NEW here, NEW to, NEW there, Turns(c, from, here, to, there)
    PROVE  Atomic!Move(target[c], from, here, to, there)
  <1> DEFINE r == target[c]
             status == [q \in Reservations |-> resv[q].status]
  <1>1. r \in Reservations /\ status[r] \in from
      BY DEF Turns
  <1>2. \A i \in Items : CartOf[i] = r => Places[i] = here
      BY DEF Turns, Places, Cart
  <1>3. status' = [status EXCEPT ![r] = to]
    <2>1. \A q \in Reservations : resv'[q].status = IF q = r THEN to ELSE resv[q].status
        BY Elsewhere DEF Turns, SerialInv, WorkInv
    <2> QED BY <1>1, <2>1
  <1>4. Places' = [i \in Items |-> IF CartOf[i] = r THEN there ELSE Places[i]]
    <2>1. \A i \in Items : CartOf[i] \in Reservations
        BY CheckoutAssumption
    <2>2. ASSUME NEW i \in Items
          PROVE  item'[i].status = IF CartOf[i] = r THEN there ELSE item[i].status
      <3>1. CASE CartOf[i] = r
          BY <3>1 DEF Turns, Cart
      <3>2. CASE CartOf[i] # r
          BY <2>1, <3>2, Elsewhere DEF SerialInv, WorkInv, Cart
      <3> QED BY <3>1, <3>2
    <2> QED BY <2>2 DEF Places
  <1>5. stock' = Atomic!Ledger(Places')
      BY StockIsLedgerNext
  <1> QED BY <1>1, <1>2, <1>3, <1>4, <1>5 DEF Atomic!Move, Places

LEMMA InitAtomic == Init => Atomic!Init
  <1> SUFFICES ASSUME Init PROVE Atomic!Init
      OBVIOUS
  <1>1. stock = Atomic!Ledger(Places)
      BY InitSerial, StockIsLedger
  <1>2. /\ [r \in Reservations |-> resv[r].status] = [r \in Reservations |-> "absent"]
        /\ [i \in Items |-> item[i].status] = [i \in Items |-> "absent"]
      BY DEF Init, NoResv, NoItem
  <1> QED BY <1>1, <1>2 DEF Atomic!Init, Places

LEMMA NextAtomic == SerialInv /\ SerialInv' /\ [SerialNext]_vars => [Atomic!Next]_(Atomic!vars)
  <1> SUFFICES ASSUME SerialInv, SerialInv', [SerialNext]_vars
               PROVE  [Atomic!Next]_(Atomic!vars)
      OBVIOUS
  <1>1. ASSUME UNCHANGED database PROVE UNCHANGED Atomic!vars
      BY <1>1 DEF Atomic!vars
  <1>2. ASSUME NEW c \in Sessions, Moves(c), Turn(c), pc[c] \notin Idle PROVE Atomic!Next
    <2> DEFINE r == target[c]
    <2>1. r \in Reservations
        BY <1>2 DEF Turn, Turns
    <2>2. ASSUME NEW from, NEW here, NEW to, NEW there, Turns(c, from, here, to, there)
          PROVE  Atomic!Move(r, from, here, to, there)
        BY <1>2, <2>2, MoveOfTurn
    <2>3. CASE Turns(c, {"absent"}, "absent", "PENDING_LOCAL", "HELD_LOCAL")
      <3>1. Atomic!Move(r, {"absent"}, "absent", "PENDING_LOCAL", "HELD_LOCAL")
          BY <2>2, <2>3
      <3>2. \A p \in Products : stock'[p].available >= 0
          BY DEF SerialInv, LedgerInv, Balanced
      <3> QED BY <2>1, <3>1, <3>2 DEF Atomic!Next, Atomic!Hold
    <2>4. CASE Turns(c, {"PENDING_LOCAL"}, "HELD_LOCAL", "PENDING", "HELD")
      <3>1. Atomic!Move(r, {"PENDING_LOCAL"}, "HELD_LOCAL", "PENDING", "HELD")
          BY <2>2, <2>4
      <3> QED BY <2>1, <3>1 DEF Atomic!Next, Atomic!Activate
    <2>5. ASSUME NEW here \in {"HELD", "HELD_LOCAL"}, Turns(c, Confirmable, here, "CONFIRMING", here)
          PROVE  Atomic!Next
      <3>1. Atomic!Move(r, {"PENDING", "PENDING_LOCAL", "CONFIRMING"}, here, "CONFIRMING", here)
        <4>1. Confirmable = {"PENDING", "PENDING_LOCAL", "CONFIRMING"}
            BY DEF Confirmable, Open
        <4> QED BY <2>2, <2>5, <4>1
      <3> QED BY <2>1, <3>1 DEF Atomic!Next, Atomic!BeginConfirm
    <2>6. CASE Turns(c, {"CONFIRMING"}, "HELD", "CONFIRMED", "CONFIRMED")
      <3>1. Atomic!Move(r, {"CONFIRMING"}, "HELD", "CONFIRMED", "CONFIRMED")
          BY <2>2, <2>6
      <3> QED BY <2>1, <3>1 DEF Atomic!Next, Atomic!Settle
    <2>7. ASSUME NEW here \in {"HELD", "HELD_LOCAL"}, NEW to \in {"CANCELLED", "EXPIRED"},
                 Turns(c, Open, here, to, "RELEASED")
          PROVE  Atomic!Next
      <3>1. Atomic!Move(r, {"PENDING", "PENDING_LOCAL"}, here, to, "RELEASED")
          BY <2>2, <2>7 DEF Open
      <3> QED BY <2>1, <3>1 DEF Atomic!Next, Atomic!GiveBack
    <2> QED BY <1>2, <2>3, <2>4, <2>5, <2>6, <2>7 DEF Turn
  <1>3. ASSUME NEW c \in Sessions, Moves(c) PROVE [Atomic!Next]_(Atomic!vars)
      BY <1>1, <1>2, <1>3, Commits
  <1>4. CASE (\E r \in Reservations : PassTTL(r)) \/ UNCHANGED vars
      BY <1>1, <1>4 DEF PassTTL, vars
  <1> QED BY <1>3, <1>4 DEF SerialNext, Next, Finished, Moves

\* Every handler, with its several transactions, lock waits, failures, crashes
\* and rollbacks, amounts to at most a few atomic moves of a whole reservation
\* with all of its stock.
THEOREM CheckoutIsAtomic == SerialSpec => ImplementsAtomic
  BY InitSerial, NextSerial, InitAtomic, NextAtomic, PTL
     DEF SerialSpec, ImplementsAtomic, Atomic!Spec
=============================================================================
