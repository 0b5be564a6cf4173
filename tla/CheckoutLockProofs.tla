------------------------- MODULE CheckoutLockProofs -------------------------
(***************************************************************************)
(* What the row locks protect: no two sessions ever have uncommitted work  *)
(* on the same rows, for all values of the constants and any overlap.      *)
(***************************************************************************)
EXTENDS CheckoutProofs

USE DEF Sessions, Rows, database, locks, memory, cursor, outside

-----------------------------------------------------------------------------
(* A step of one session leaves every other session's work alone. *)

Moves(c) == Start(c) \/ Sweep(c) \/ Continue(c) \/ DeadlockAbort(c) \/ Crash(c)

\* Session d keeps its place, its loaded objects and its locks.
KeepsPlace(d) ==
    /\ pc'[d] = pc[d] /\ target'[d] = target[d] /\ batch'[d] = batch[d]
    /\ todo'[d] = todo[d] /\ at'[d] = at[d] /\ allConfirmed'[d] = allConfirmed[d]

KeepsObjects(d) ==
    /\ row'[d] = row[d] /\ attrs'[d] = attrs[d] /\ dirty'[d] = dirty[d]
    /\ inv'[d] = inv[d] /\ touched'[d] = touched[d]

KeepsLocks(d) ==
    \A x \in Rows : /\ holder'[x] = d <=> holder[x] = d
                    /\ d \in sharer'[x] <=> d \in sharer[x]

Undisturbed(d) == KeepsPlace(d) /\ KeepsObjects(d) /\ KeepsLocks(d)

\* The building blocks of a step of session c, seen from another session d.
LEMMA BlocksAside ==
    ASSUME TypeInv, NEW c \in Sessions, NEW d \in Sessions, c # d
    PROVE  /\ EndTransaction(c) => KeepsObjects(d) /\ KeepsLocks(d)
           /\ \A res : Leave(c, res) => KeepsPlace(d)
           /\ \A res : Rollback(c, res) => Undisturbed(d)
           /\ \A n : Commit(c, n) => KeepsObjects(d) /\ KeepsLocks(d)
           /\ \A S, next, body, after : Visit(c, S, next, body, after) =>
                  pc'[d] = pc[d] /\ todo'[d] = todo[d] /\ at'[d] = at[d]
           /\ \A step : Goto(c, step) => pc'[d] = pc[d]
           /\ \A p, s : LockStock(c, p, s) =>
                  /\ inv'[d] = inv[d] /\ touched'[d] = touched[d]
                  /\ \A x \in Rows : holder'[x] = d <=> holder[x] = d
           /\ \A i, r : WriteItem(c, i, r) => attrs'[d] = attrs[d] /\ dirty'[d] = dirty[d]
           /\ LoadItems(c) => attrs'[d] = attrs[d]
  <1>1. EndTransaction(c) => KeepsObjects(d) /\ KeepsLocks(d)
      BY CheckoutAssumption
         DEF TypeInv, TypeOK, LocksOK, MemoryOK, EndTransaction, KeepsObjects, KeepsLocks
  <1>2. \A res : Leave(c, res) => KeepsPlace(d)
      BY DEF TypeInv, TypeOK, CursorOK, Leave, KeepsPlace
  <1>3. /\ \A res : Rollback(c, res) => Undisturbed(d)
        /\ \A n : Commit(c, n) => KeepsObjects(d) /\ KeepsLocks(d)
      BY <1>1, <1>2 DEF Rollback, Commit, Undisturbed
  <1>4. \A step : Goto(c, step) => pc'[d] = pc[d]
      BY DEF TypeInv, TypeOK, Goto
  <1>5. \A S, next, body, after : Visit(c, S, next, body, after) =>
            pc'[d] = pc[d] /\ todo'[d] = todo[d] /\ at'[d] = at[d]
      BY <1>4 DEF TypeInv, TypeOK, CursorOK, Visit
  <1>6. ASSUME NEW p, NEW s, LockStock(c, p, s)
        PROVE  /\ inv'[d] = inv[d] /\ touched'[d] = touched[d]
               /\ \A x \in Rows : holder'[x] = d <=> holder[x] = d
    <2>1. inv'[d] = inv[d] /\ touched'[d] = touched[d]
        BY <1>6 DEF TypeInv, TypeOK, MemoryOK, LockStock
    <2>2. \A x \in Rows : holder'[x] = d <=> holder[x] = d
        BY <1>6, CheckoutAssumption DEF TypeInv, TypeOK, LocksOK, LockStock, CanLock
    <2> QED BY <2>1, <2>2
  <1>7. /\ \A i, r : WriteItem(c, i, r) => attrs'[d] = attrs[d] /\ dirty'[d] = dirty[d]
        /\ LoadItems(c) => attrs'[d] = attrs[d]
      BY DEF TypeInv, TypeOK, MemoryOK, WriteItem, LoadItems
  <1> QED BY <1>1, <1>2, <1>3, <1>4, <1>5, <1>6, <1>7

LEMMA OthersUndisturbed ==
    ASSUME TypeInv, NEW c \in Sessions, NEW d \in Sessions, c # d, Moves(c)
    PROVE  Undisturbed(d)
  <1> USE DEF Undisturbed, KeepsPlace, KeepsObjects, KeepsLocks
  <1>1. CASE Start(c)
      BY <1>1, BlocksAside
         DEF Start, CreateFind, ConfirmRead, CancelRead, ReadOrRefuse, TypeInv, TypeOK,
             CursorOK, MemoryOK
  <1>2. CASE Sweep(c)
    <2>1. target'[d] = target[d] /\ batch'[d] = batch[d] /\ row'[d] = row[d] /\ pc'[d] = pc[d]
        BY <1>2, BlocksAside DEF Sweep, TypeInv, TypeOK, CursorOK, MemoryOK
    <2>2. \A x \in Rows : holder'[x] = d <=> holder[x] = d
        BY <1>2, CheckoutAssumption DEF Sweep, FoundExpired
    <2> QED BY <1>2, <2>1, <2>2 DEF Sweep
  <1>3. CASE DeadlockAbort(c) \/ Crash(c)
      BY <1>3, BlocksAside DEF DeadlockAbort, Crash
  <1>4. CASE CreateInsert(c)
    <2>1. CASE Rollback(c, "integrityError")
        BY <2>1, BlocksAside
    <2>2. CASE ~Rollback(c, "integrityError")
      <3>1. \A x \in Rows : holder'[x] = d <=> holder[x] = d
          BY <1>4, <2>2, CheckoutAssumption
             DEF CreateInsert, CanLock, TypeInv, TypeOK, LocksOK
      <3> QED BY <1>4, <2>2, <3>1, BlocksAside DEF CreateInsert
    <2> QED BY <2>1, <2>2
  <1>5. CASE CreateAddItem(c)
    <2>1. \A x \in Rows : d \in sharer'[x] <=> d \in sharer[x]
        BY <1>5 DEF CreateAddItem, TypeInv, TypeOK, LocksOK
    <2> QED BY <1>5, <2>1, BlocksAside DEF CreateAddItem
  <1>6. CASE CreateHold(c)
    <2>1. CASE Rollback(c, "failed")
        BY <2>1, BlocksAside
    <2> QED BY <1>6, <2>1, BlocksAside DEF CreateHold
  <1>7. CASE CreateCommitLocal(c) \/ CreateMarkPending(c) \/ CreateMarkCancelled(c)
      BY <1>7, BlocksAside DEF CreateCommitLocal, CreateMarkPending, CreateMarkCancelled
  <1>8. ASSUME NEW mem, NextUpstream(c, mem)
        PROVE  pc'[d] = pc[d] /\ todo'[d] = todo[d] /\ at'[d] = at[d]
      BY <1>8, BlocksAside DEF NextUpstream
  <1>9. CASE CreateLoadItem(c)
    <2>1. attrs'[d] = attrs[d]
        BY <1>9 DEF CreateLoadItem, TypeInv, TypeOK, MemoryOK
    <2> QED BY <1>8, <1>9, <2>1, BlocksAside DEF CreateLoadItem
  <1>10. CASE CreateReserve(c)
      BY <1>8, <1>10, BlocksAside DEF CreateReserve
  <1>11. CASE CreateCompensate(c) \/ ReleaseHeldItem(c)
      BY <1>11, BlocksAside DEF CreateCompensate, ReleaseHeldItem, ReleaseItem
  <1>12. CASE ConfirmLock(c)
      BY <1>12, BlocksAside DEF ConfirmLock
  <1>13. CASE ConfirmRefresh(c) \/ ExpireReload(c)
      BY <1>13, BlocksAside DEF ConfirmRefresh, ExpireReload, TypeInv, TypeOK, MemoryOK
  <1>14. CASE ConfirmItems(c) \/ LoadHeldItems(c)
      BY <1>14, BlocksAside DEF ConfirmItems, LoadHeldItems, TypeInv, TypeOK
  <1>15. CASE ConfirmItem(c)
    <2>1. allConfirmed'[d] = allConfirmed[d]
        BY <1>15 DEF ConfirmItem, TypeInv, TypeOK
    <2> QED BY <1>15, <2>1, BlocksAside DEF ConfirmItem
  <1>16. CASE ConfirmFinal(c)
      BY <1>16, BlocksAside DEF ConfirmFinal
  <1>17. CASE CancelFinal(c)
      BY <1>17, BlocksAside DEF CancelFinal
  <1>18. CASE ExpireFinal(c)
    <2>1. target'[d] = target[d] /\ batch'[d] = batch[d]
        BY <1>18, BlocksAside DEF ExpireFinal, TypeInv, TypeOK, CursorOK
    <2> QED BY <1>18, <2>1, BlocksAside DEF ExpireFinal
  <1> QED BY <1>1, <1>2, <1>3, <1>4, <1>5, <1>6, <1>7, <1>9, <1>10, <1>11, <1>12, <1>13,
             <1>14, <1>15, <1>16, <1>17, <1>18 DEF Moves, Continue

-----------------------------------------------------------------------------
(* The invariant. *)

\* A checkout that has inserted its rows and not committed them.
Inserting == {"addItem", "hold", "commitLocal"}

\* The steps a session takes before it has written anything.
CleanSteps ==
    {"idle", "done", "insert", "confirmLock", "confirmRefresh", "confirmItems",
     "heldItems", "reload"}

\* FOR UPDATE excludes FOR KEY SHARE, and no foreign key refers to a
\* reservation row that another session has yet to commit.
LocksExclude ==
    /\ \A p \in Products : holder[p] # None => sharer[p] \subseteq {holder[p]}
    /\ \A r \in Reservations : sharer[r] = {}

\* Session c has inserted item i and has yet to take its stock row: all it
\* holds of that row is the share lock of the foreign key.
AtHold(c, i) == pc[c] = "hold" /\ at[c] = i /\ c \in sharer[ProductOf[i]]

TouchedHeld(c) == \A p \in touched[c] : holder[p] = c

RowHeld(c) == pc[c] \in Inserting => holder[target[c]] = c

DirtyGuarded(c) ==
    \A i \in dirty[c] : /\ i \in Cart(target[c])
                        /\ ProductOf[i] \in touched[c] \/ AtHold(c, i)

LoopInCart(c) ==
    pc[c] \in ItemSteps => at[c] \in todo[c] /\ todo[c] \subseteq Cart(target[c])

FreshWhenClean(c) == pc[c] \in CleanSteps => dirty[c] = {} /\ touched[c] = {}

LockOK(c) ==
    TouchedHeld(c) /\ RowHeld(c) /\ DirtyGuarded(c) /\ LoopInCart(c) /\ FreshWhenClean(c)

LockInv == LocksExclude /\ \A c \in Sessions : LockOK(c)

USE DEF LockOK, TouchedHeld, RowHeld, DirtyGuarded, LoopInCart, FreshWhenClean

LEMMA InitLock == Init => LockInv
  BY DEF Init, LockInv, LocksExclude, ItemSteps, Inserting, CleanSteps

\* Nobody else's locks or work are touched by a step of session c.
LEMMA LockFrame ==
    ASSUME TypeInv, LockInv, NEW d \in Sessions, Undisturbed(d)
    PROVE  LockOK(d)'
  <1>1. ASSUME NEW i \in dirty[d]
        PROVE  /\ ProductOf[i] \in Products
               /\ AtHold(d, i) => AtHold(d, i)'
    <2>1. i \in Items /\ ProductOf[i] \in Products
        BY CheckoutAssumption DEF TypeInv, TypeOK, MemoryOK
    <2> QED BY <2>1 DEF AtHold, Undisturbed, KeepsPlace, KeepsLocks
  <1>2. touched[d] \subseteq Products
      BY DEF TypeInv, TypeOK, MemoryOK
  <1>3. pc[d] \in Inserting => target[d] \in Reservations
      BY DEF TypeInv, OnCourse, Inserting
  <1>4. TouchedHeld(d)' /\ RowHeld(d)'
      BY <1>2, <1>3 DEF LockInv, Undisturbed, KeepsPlace, KeepsObjects, KeepsLocks
  <1>5. DirtyGuarded(d)'
      BY <1>1 DEF LockInv, Undisturbed, KeepsPlace, KeepsObjects
  <1>6. LoopInCart(d)' /\ FreshWhenClean(d)'
      BY DEF LockInv, Undisturbed, KeepsPlace, KeepsObjects
  <1> QED BY <1>4, <1>5, <1>6

\* Where a loop over items of the cart leaves the session.
LEMMA VisitInCart ==
    ASSUME TypeInv, NEW c \in Sessions, NEW S, NEW next, NEW body, NEW after,
           Visit(c, S, next, body, after), next \subseteq S, S \subseteq Cart(target[c]),
           target'[c] = target[c], after \notin ItemSteps
    PROVE  pc'[c] \in {body, after} /\ LoopInCart(c)'
  BY DEF TypeInv, TypeOK, CursorOK, Visit, Goto

LEMMA NextUpstreamInCart ==
    ASSUME TypeInv, LockInv, NEW c \in Sessions, pc[c] \in ItemSteps, NEW mem,
           NextUpstream(c, mem), target' = target
    PROVE  /\ pc'[c] \in {"loadItem", "compensate", "markPending", "markCancelled"}
           /\ LoopInCart(c)'
  <1> DEFINE rest == todo[c] \ {at[c]}
             held == {i \in Cart(target[c]) : mem[i].status \in Holding}
  <1>1. /\ rest \subseteq Cart(target[c]) /\ FirstOf(rest) \subseteq rest
        /\ held \subseteq Cart(target[c]) /\ FirstOf(held) \subseteq held
      BY DEF LockInv, FirstOf
  <1>2. CASE Visit(c, rest, FirstOf(rest), "loadItem", "markPending")
      BY <1>1, <1>2, VisitInCart DEF ItemSteps
  <1>3. CASE Visit(c, held, FirstOf(held), "compensate", "markCancelled")
      BY <1>1, <1>3, VisitInCart DEF ItemSteps
  <1>4. CASE Visit(c, {}, {}, "loadItem", "markPending")
      BY <1>4, VisitInCart DEF ItemSteps
  <1> QED BY <1>2, <1>3, <1>4 DEF NextUpstream

\* The end of a transaction gives everything back.
LEMMA LockEnded ==
    ASSUME TypeInv, LockInv, NEW c \in Sessions, EndTransaction(c),
           pc'[c] \notin Inserting, LoopInCart(c)'
    PROVE  LocksExclude' /\ LockOK(c)'
  <1>1. LocksExclude'
      BY DEF LockInv, LocksExclude, EndTransaction
  <1>2. LockOK(c)'
      BY <1>1 DEF EndTransaction, TypeInv, TypeOK, MemoryOK
  <1> QED BY <1>1, <1>2

LEMMA LockRolledBack ==
    ASSUME TypeInv, LockInv, NEW c \in Sessions, NEW res, Rollback(c, res)
    PROVE  LocksExclude' /\ LockOK(c)'
  <1>1. pc'[c] \in {"idle", "done"}
      BY DEF Rollback, Leave, TypeInv, TypeOK
  <1> QED BY <1>1, LockEnded DEF Rollback, Inserting, ItemSteps

\* Work on an item is done under the lock of its stock row.
LEMMA LockWorked ==
    ASSUME TypeInv, LockInv, NEW c \in Sessions, pc[c] \in ItemSteps \ {"addItem"}, NEW s,
           LockStock(c, ProductOf[at[c]], s),
           dirty' = dirty \/ \E r : WriteItem(c, at[c], r),
           UNCHANGED <<sharer, target>>,
           pc'[c] \notin CleanSteps, LoopInCart(c)', pc'[c] \in Inserting => pc[c] = "hold"
    PROVE  LocksExclude' /\ LockOK(c)'
  <1> DEFINE i == at[c]
             p == ProductOf[i]
  <1>1. i \in Items /\ p \in Products /\ target[c] \in Reservations
      BY AtItem
  <1>2. i \in Cart(target[c])
      BY DEF LockInv
  <1>3. LocksExclude'
      BY <1>1, CheckoutAssumption
         DEF LockInv, LocksExclude, LockStock, CanLock, TypeInv, TypeOK, LocksOK
  <1>4. touched'[c] = touched[c] \cup {p} /\ dirty'[c] \subseteq dirty[c] \cup {i}
      BY DEF LockStock, WriteItem, TypeInv, TypeOK, MemoryOK
  <1>5. TouchedHeld(c)'
      BY <1>1, <1>4 DEF LockInv, LockStock, TypeInv, TypeOK, LocksOK, MemoryOK
  <1>6. RowHeld(c)'
      BY <1>1, CheckoutAssumption DEF LockInv, LockStock, Inserting, TypeInv, TypeOK, LocksOK
  <1>7. DirtyGuarded(c)'
      BY <1>2, <1>4 DEF LockInv, AtHold
  <1> QED BY <1>3, <1>5, <1>6, <1>7

\* A step without locks, in a session that has written nothing.
LEMMA LockIdled ==
    ASSUME TypeInv, LockInv, NEW c \in Sessions, pc[c] \in CleanSteps,
           UNCHANGED <<holder, sharer, dirty, touched>>,
           pc'[c] \notin Inserting, LoopInCart(c)'
    PROVE  LocksExclude' /\ LockOK(c)'
  BY DEF LockInv, LocksExclude

\* The step of session c itself, one case per action.
LEMMA ContinueLock ==
    ASSUME TypeInv, LockInv, NEW c \in Sessions, Continue(c)
    PROVE  LocksExclude' /\ LockOK(c)'
  <1> DEFINE i == at[c]
             p == ProductOf[i]
             rest == todo[c] \ {i}
             cart == Cart(target[c])
  <1>0. /\ FirstOf(cart) \subseteq cart /\ FirstOf(rest) \subseteq rest
        /\ pc[c] \in ItemSteps => rest \subseteq cart
      BY DEF FirstOf, LockInv
  <1>1. CASE CreateInsert(c)
    <2>1. CASE Rollback(c, "integrityError")
        BY <2>1, LockRolledBack
    <2>2. CASE ~Rollback(c, "integrityError")
      <3>1. pc'[c] \in {"addItem", "commitLocal"} /\ LoopInCart(c)'
          BY <1>0, <1>1, <2>2, VisitInCart DEF CreateInsert, ItemSteps
      <3>2. target[c] \in Reservations
          BY <1>1 DEF CreateInsert, TypeInv, OnCourse
      <3>3. LocksExclude' /\ TouchedHeld(c)' /\ RowHeld(c)'
          BY <1>1, <2>2, <3>2, CheckoutAssumption
             DEF CreateInsert, LockInv, LocksExclude, CleanSteps, TypeInv, TypeOK, LocksOK
      <3>4. DirtyGuarded(c)' /\ FreshWhenClean(c)'
          BY <1>1, <2>2, <3>1 DEF CreateInsert, LockInv, CleanSteps
      <3> QED BY <3>1, <3>3, <3>4
    <2> QED BY <2>1, <2>2
  <1>2. CASE CreateAddItem(c)
    <2>1. i \in Items /\ p \in Products /\ i \in cart
        BY <1>2, AtItem DEF CreateAddItem, ItemSteps, LockInv
    <2>2. pc'[c] = "hold" /\ LoopInCart(c)'
        BY <1>2 DEF CreateAddItem, Goto, LockInv, TypeInv, TypeOK, ItemSteps
    <2>3. LocksExclude'
        BY <1>2, <2>1, CheckoutAssumption
           DEF CreateAddItem, CanShare, LockInv, LocksExclude, TypeInv, TypeOK, LocksOK
    <2>4. AtHold(c, i)'
        BY <1>2, <2>1, <2>2 DEF CreateAddItem, AtHold, TypeInv, TypeOK, LocksOK
    <2>5. \A j \in dirty[c] : ProductOf[j] \in touched[c]
        BY <1>2 DEF CreateAddItem, LockInv, AtHold
    <2>6. dirty'[c] = dirty[c] \cup {i}
        BY <1>2 DEF CreateAddItem, WriteItem, TypeInv, TypeOK, MemoryOK
    <2>7. DirtyGuarded(c)'
        BY <1>2, <2>1, <2>4, <2>5, <2>6 DEF CreateAddItem, LockInv
    <2>8. TouchedHeld(c)' /\ RowHeld(c)' /\ FreshWhenClean(c)'
        BY <1>2, <2>2 DEF CreateAddItem, LockInv, Inserting, CleanSteps
    <2> QED BY <2>2, <2>3, <2>7, <2>8
  <1>3. CASE CreateHold(c)
    <2>1. CASE Rollback(c, "failed")
        BY <2>1, LockRolledBack
    <2>2. CASE ~Rollback(c, "failed")
      <3>1. pc'[c] \in {"addItem", "commitLocal"} /\ LoopInCart(c)'
          BY <1>0, <1>3, <2>2, VisitInCart DEF CreateHold, ItemSteps
      <3> QED BY <1>3, <2>2, <3>1, LockWorked DEF CreateHold, ItemSteps, CleanSteps
    <2> QED BY <2>1, <2>2
  <1>4. CASE CreateCommitLocal(c)
    <2>1. pc'[c] \in {"loadItem", "markPending"} /\ LoopInCart(c)'
        BY <1>0, <1>4, VisitInCart DEF CreateCommitLocal, ItemSteps
    <2> QED BY <1>4, <2>1, LockEnded DEF CreateCommitLocal, Commit, Inserting
  <1>5. CASE CreateLoadItem(c)
    <2>1. pc'[c] \notin CleanSteps \cup Inserting /\ LoopInCart(c)'
      <3>1. CASE Goto(c, "reserve") /\ UNCHANGED <<todo, at>>
          BY <1>5, <3>1
             DEF CreateLoadItem, Goto, LockInv, ItemSteps, Inserting, CleanSteps, TypeInv, TypeOK
      <3>2. CASE NextUpstream(c, attrs'[c])
          BY <1>5, <3>2, NextUpstreamInCart
             DEF CreateLoadItem, ItemSteps, Inserting, CleanSteps
      <3> QED BY <1>5, <3>1, <3>2 DEF CreateLoadItem
    <2>2. \A j : ~AtHold(c, j)
        BY <1>5 DEF CreateLoadItem, AtHold
    <2> QED BY <1>5, <2>1, <2>2 DEF CreateLoadItem, LockInv, LocksExclude
  <1>6. CASE CreateReserve(c)
    <2>1. pc'[c] \notin CleanSteps \cup Inserting /\ LoopInCart(c)'
        BY <1>6, NextUpstreamInCart DEF CreateReserve, ItemSteps, Inserting, CleanSteps
    <2> QED BY <1>6, <2>1, LockWorked DEF CreateReserve, ItemSteps
  <1>7. CASE CreateCompensate(c) \/ ReleaseHeldItem(c)
    <2>1. /\ pc'[c] \in {"compensate", "markCancelled", "release", "close"}
          /\ LoopInCart(c)'
        BY <1>0, <1>7, VisitInCart DEF CreateCompensate, ReleaseHeldItem, ItemSteps
    <2> QED BY <1>7, <2>1, LockWorked
            DEF CreateCompensate, ReleaseHeldItem, ReleaseItem, ItemSteps, Inserting, CleanSteps
  <1>8. CASE CreateMarkCancelled(c)
      BY <1>8, LockRolledBack DEF CreateMarkCancelled
  <1>9. CASE CreateMarkPending(c) \/ CancelFinal(c) \/ ConfirmFinal(c)
    <2>1. ASSUME NEW res, Leave(c, res)
          PROVE  pc'[c] \notin Inserting /\ LoopInCart(c)'
        BY <2>1 DEF Leave, Inserting, ItemSteps, TypeInv, TypeOK
    <2> QED BY <1>9, <2>1, LockEnded, LockRolledBack
            DEF CreateMarkPending, CancelFinal, ConfirmFinal, Commit
  <1>10. CASE ConfirmLock(c)
    <2>1. CASE Rollback(c, "conflict")
        BY <2>1, LockRolledBack
    <2>2. CASE ~Rollback(c, "conflict")
      <3>1. pc'[c] \notin Inserting /\ LoopInCart(c)'
          BY <1>10, <2>2 DEF ConfirmLock, Goto, Inserting, ItemSteps, TypeInv, TypeOK
      <3> QED BY <1>10, <2>2, <3>1, LockEnded DEF ConfirmLock, Commit
    <2> QED BY <2>1, <2>2
  <1>11. CASE ConfirmRefresh(c) \/ ExpireReload(c)
    <2>1. pc'[c] \notin Inserting /\ LoopInCart(c)'
        BY <1>11 DEF ConfirmRefresh, ExpireReload, Goto, Inserting, ItemSteps, TypeInv, TypeOK
    <2> QED BY <1>11, <2>1, LockIdled DEF ConfirmRefresh, ExpireReload, CleanSteps
  <1>12. CASE ConfirmItems(c) \/ LoadHeldItems(c)
    <2>1. /\ pc'[c] \in {"confirmItem", "confirmFinal", "release", "close"}
          /\ LoopInCart(c)'
        BY <1>12, VisitInCart DEF ConfirmItems, LoadHeldItems, ItemSteps
    <2> QED BY <1>12, <2>1, LockIdled DEF ConfirmItems, LoadHeldItems, CleanSteps, Inserting
  <1>13. CASE ConfirmItem(c)
    <2>1. pc'[c] \in {"confirmItem", "confirmFinal"} /\ LoopInCart(c)'
        BY <1>0, <1>13, VisitInCart DEF ConfirmItem, ItemSteps
    <2> QED BY <1>13, <2>1, LockWorked DEF ConfirmItem, ItemSteps, Inserting, CleanSteps
  <1>14. CASE ExpireFinal(c)
    <2>1. pc'[c] \notin Inserting /\ LoopInCart(c)'
        BY <1>14 DEF ExpireFinal, Leave, Goto, Inserting, ItemSteps, TypeInv, TypeOK
    <2> QED BY <1>14, <2>1, LockEnded DEF ExpireFinal, Commit
  <1> QED BY <1>1, <1>2, <1>3, <1>4, <1>5, <1>6, <1>7, <1>8, <1>9, <1>10, <1>11, <1>12,
             <1>13, <1>14 DEF Continue

LEMMA MovesLock ==
    ASSUME TypeInv, LockInv, NEW c \in Sessions, Moves(c)
    PROVE  LocksExclude' /\ LockOK(c)'
  <1>1. CASE Start(c)
    <2>1. pc[c] = "idle" /\ pc'[c] \in {"insert", "done", "confirmLock", "heldItems"}
        BY <1>1
           DEF Start, CreateFind, ConfirmRead, CancelRead, ReadOrRefuse, Goto, TypeInv, TypeOK
    <2> QED BY <1>1, <2>1, LockIdled
            DEF Start, CreateFind, ConfirmRead, CancelRead, ReadOrRefuse, CleanSteps,
                Inserting, ItemSteps
  <1>2. CASE Sweep(c)
    <2>1. pc'[c] = "heldItems"
        BY <1>2 DEF Sweep, Goto, TypeInv, TypeOK
    <2>2. LocksExclude'
        BY <1>2, CheckoutAssumption DEF Sweep, FoundExpired, LockInv, LocksExclude
    <2> QED BY <1>2, <2>1, <2>2
            DEF Sweep, LockInv, CleanSteps, Inserting, ItemSteps
  <1>3. CASE DeadlockAbort(c) \/ Crash(c)
      BY <1>3, LockRolledBack DEF DeadlockAbort, Crash
  <1> QED BY <1>1, <1>2, <1>3, ContinueLock DEF Moves

LEMMA NextLock == TypeInv /\ LockInv /\ [Next]_vars => LockInv'
  <1> SUFFICES ASSUME TypeInv, LockInv, [Next]_vars PROVE LockInv'
      OBVIOUS
  <1>1. ASSUME NEW c \in Sessions, Moves(c) PROVE LockInv'
    <2>1. \A d \in Sessions : LockOK(d)'
        BY <1>1, MovesLock, OthersUndisturbed, LockFrame
    <2> QED BY <1>1, <2>1, MovesLock DEF LockInv
  <1>2. CASE (\E r \in Reservations : PassTTL(r)) \/ UNCHANGED vars
    <2>1. UNCHANGED <<locks, pc, cursor, memory>>
        BY <1>2 DEF PassTTL, vars
    <2>2. \A d \in Sessions : LockOK(d)'
        BY <2>1 DEF LockInv, AtHold
    <2> QED BY <2>1, <2>2 DEF LockInv, LocksExclude
  <1> QED BY <1>1, <1>2 DEF Next, Finished, Moves

\* Uncommitted work of two sessions never meets: not on an item, because both
\* would hold its stock row or be inserting under one reservation row, and not
\* on a stock row.
LEMMA WorkApart ==
    ASSUME TypeInv, LockInv, NEW c \in Sessions, NEW d \in Sessions, c # d
    PROVE  dirty[c] \cap dirty[d] = {} /\ touched[c] \cap touched[d] = {}
  <1>1. touched[c] \cap touched[d] = {}
      BY DEF LockInv
  <1>2. ASSUME NEW i \in dirty[c], i \in dirty[d] PROVE FALSE
    <2>1. ProductOf[i] \in Products /\ CartOf[i] = target[c] /\ CartOf[i] = target[d]
        BY <1>2, CheckoutAssumption DEF LockInv, Cart, TypeInv, TypeOK, MemoryOK
    <2>2. ASSUME NEW e \in Sessions, NEW f \in Sessions, e # f,
                 ProductOf[i] \in touched[e], AtHold(f, i)
          PROVE  FALSE
      <3>1. holder[ProductOf[i]] = e /\ e # None
          BY <2>2, CheckoutAssumption DEF LockInv
      <3> QED BY <2>1, <2>2, <3>1 DEF LockInv, LocksExclude, AtHold
    <2>3. CASE AtHold(c, i) /\ AtHold(d, i)
      <3>1. holder[target[c]] = c /\ holder[target[d]] = d
          BY <2>3 DEF LockInv, AtHold, Inserting
      <3> QED BY <2>1, <3>1
    <2> QED BY <1>1, <1>2, <2>2, <2>3 DEF LockInv
  <1> QED BY <1>1, <1>2

\* Two sessions never have uncommitted writes on one item, however requests
\* and workers overlap, deadlock and crash, although no code locks item rows.
THEOREM ItemRowsAreUncontended == Spec => []ItemRowsUncontended
  <1>1. TypeInv /\ LockInv => ItemRowsUncontended
      BY WorkApart DEF ItemRowsUncontended
  <1> QED BY <1>1, InitType, NextType, InitLock, NextLock, PTL DEF Spec
=============================================================================
