-------------------------- MODULE CheckoutSessions --------------------------
(***************************************************************************)
(* The reservation workflow over its real storage: the committed rows of   *)
(* PostgreSQL (READ COMMITTED), the row locks, and one SQLAlchemy session  *)
(* per request or worker pass, which keeps the rows it has loaded and does *)
(* not read them again until it commits (autoflush off, no                 *)
(* populate_existing: a SELECT, even FOR UPDATE, leaves loaded attributes  *)
(* alone).  A step of a session is what the service does between two       *)
(* points where another session can act: a lock wait, an unlocked read or  *)
(* a commit.                                                               *)
(***************************************************************************)
EXTENDS StockLedger

CONSTANTS
    Products,      \* product_inventories rows
    Reservations,  \* (user, client_idempotency_key) pairs: one row each at most
    Items,         \* reservation_items rows, numbered in request order
    Requests,      \* HTTP requests, each one call of the service
    Workers,       \* expiry worker threads
    None,          \* no session, no reservation, no item
    CartOf,        \* item -> its reservation
    ProductOf,     \* item -> its product
    Qty,           \* item -> quantity
    Stock0,        \* product -> units at the start
    Reservable,    \* products whose provider client implements Reservable
    Refs,          \* provider reservation references
    RefOf,         \* item -> the reference its provider answers with
    MaxFaults      \* bound on provider failures and crashed sessions

Sessions == Requests \cup Workers
Rows == Products \cup Reservations

ASSUME CheckoutAssumption ==
    /\ Items \subseteq Nat
    /\ CartOf \in [Items -> Reservations]
    /\ ProductOf \in [Items -> Products]
    /\ Qty \in [Items -> Nat \ {0}]
    /\ Stock0 \in [Products -> Nat]
    /\ Reservable \subseteq Products
    /\ RefOf \in [Items -> Refs]
    /\ MaxFaults \in Nat
    /\ Requests \cap Workers = {}
    /\ Products \cap Reservations = {}
    /\ None \notin Sessions \cup Reservations \cup Items

VARIABLES
    resv,          \* committed reservations rows
    item,          \* committed reservation_items rows
    stock,         \* committed product_inventories rows
    due,           \* reservation -> expires_at has passed
    upstream,      \* reference -> the provider's side of the hold
    holder,        \* row -> session holding it FOR UPDATE (or by INSERT / UPDATE)
    sharer,        \* row -> sessions holding it FOR KEY SHARE (foreign key)
    pc,            \* session -> the step it takes next
    target,        \* session -> reservation it works on
    batch,         \* worker -> reservations of the sweep still to come
    todo,          \* session -> items its loop has still to visit
    at,            \* session -> item its loop is at
    row,           \* session -> loaded attributes of the target reservation
    attrs,         \* session -> loaded attributes of items
    dirty,         \* session -> items it has written and not committed
    inv,           \* session -> loaded attributes of stock rows
    touched,       \* session -> stock rows it has loaded
    allConfirmed,  \* session -> confirm_reservation's local all_confirmed
    result,        \* request -> how it ended
    faults         \* provider failures and crashes so far

database == <<resv, item, stock>>
locks == <<holder, sharer>>
memory == <<row, attrs, dirty, inv, touched>>
cursor == <<target, batch, todo, at>>
outside == <<due, upstream, faults>>
vars == <<database, locks, pc, cursor, memory, allConfirmed, result, outside>>

ResvStatus == {"CREATING", "PENDING_LOCAL", "PENDING", "CONFIRMING",
               "CONFIRMED", "CANCELLED", "EXPIRED"}
ItemStatus == {"HELD_LOCAL", "HELD", "FAILED", "CONFIRMED", "RELEASED"}

\* Two mistakes: cancel and the sweep take a reservation being confirmed, or
\* pass over items whose provider has not been asked yet.
OpenOrConfirming == {"PENDING", "PENDING_LOCAL", "CONFIRMING"}
HeldUpstream == {"HELD"}

Open == {"PENDING", "PENDING_LOCAL"}
Confirmable == Open \cup {"CONFIRMING"}
Holding == {"HELD", "HELD_LOCAL"}

ResvRow == [status : ResvStatus \cup {"absent"}, version : Nat]
ItemRow == [status : ItemStatus \cup {"absent"}, ref : BOOLEAN]
NoResv == [status |-> "absent", version |-> 0]
NoItem == [status |-> "absent", ref |-> FALSE]
NoStock == FreshStock(0)

Cart(r) == {i \in Items : CartOf[i] = r}

Init ==
    /\ resv = [r \in Reservations |-> NoResv]
    /\ item = [i \in Items |-> NoItem]
    /\ stock = [p \in Products |-> FreshStock(Stock0[p])]
    /\ due = [r \in Reservations |-> FALSE]
    /\ upstream = [f \in Refs |-> "none"]
    /\ holder = [x \in Rows |-> None]
    /\ sharer = [x \in Rows |-> {}]
    /\ pc = [c \in Sessions |-> "idle"]
    /\ target = [c \in Sessions |-> None]
    /\ batch = [c \in Sessions |-> {}]
    /\ todo = [c \in Sessions |-> {}]
    /\ at = [c \in Sessions |-> None]
    /\ row = [c \in Sessions |-> NoResv]
    /\ attrs = [c \in Sessions |-> [i \in Items |-> NoItem]]
    /\ dirty = [c \in Sessions |-> {}]
    /\ inv = [c \in Sessions |-> [p \in Products |-> NoStock]]
    /\ touched = [c \in Sessions |-> {}]
    /\ allConfirmed = [c \in Sessions |-> TRUE]
    /\ result = [c \in Sessions |-> "none"]
    /\ faults = 0

-----------------------------------------------------------------------------
(* Row locks and the unit of work. *)

\* A mistake: get_locked without FOR UPDATE.
SelectUnlocked(c, x) == sharer[x] \subseteq {c}

\* SELECT ... FOR UPDATE, UPDATE and INSERT go ahead only when no other
\* session holds the row, not even FOR KEY SHARE.
CanLock(c, x) == holder[x] \in {None, c} /\ sharer[x] \subseteq {c}

\* The foreign-key check of an INSERT conflicts only with an exclusive lock.
CanShare(c, x) == holder[x] \in {None, c}

\* The stock row as the session sees it once it holds the lock: its own
\* loaded object if there is one, else the newest committed version.
MemStock(c, p) == IF p \in touched[c] THEN inv[c][p] ELSE stock[p]

\* get_locked on the stock row, which the session then keeps as s.
LockStock(c, p, s) ==
    /\ CanLock(c, p)
    /\ holder' = [holder EXCEPT ![p] = c]
    /\ inv' = [inv EXCEPT ![c][p] = s]
    /\ touched' = [touched EXCEPT ![c] = @ \cup {p}]

\* An assignment to a loaded item; the flush sends changed columns only, and
\* no code path clears a reference.
WriteItem(c, i, r) ==
    /\ attrs' = [attrs EXCEPT ![c][i] = r]
    /\ dirty' = [dirty EXCEPT ![c] = @ \cup {i}]

FlushedItem(c, i) ==
    [status |-> attrs[c][i].status, ref |-> item[i].ref \/ attrs[c][i].ref]

\* The end of a transaction: every lock goes, every loaded object expires.
EndTransaction(c) ==
    /\ holder' = [x \in Rows |-> IF holder[x] = c THEN None ELSE holder[x]]
    /\ sharer' = [x \in Rows |-> sharer[x] \ {c}]
    /\ row' = [row EXCEPT ![c] = NoResv]
    /\ attrs' = [attrs EXCEPT ![c] = [i \in Items |-> NoItem]]
    /\ dirty' = [dirty EXCEPT ![c] = {}]
    /\ inv' = [inv EXCEPT ![c] = [p \in Products |-> NoStock]]
    /\ touched' = [touched EXCEPT ![c] = {}]

Commit(c, newResv) ==
    /\ resv' = newResv
    /\ item' = [i \in Items |-> IF i \in dirty[c] THEN FlushedItem(c, i) ELSE item[i]]
    /\ stock' = [p \in Products |-> IF p \in touched[c] THEN inv[c][p] ELSE stock[p]]
    /\ EndTransaction(c)

\* The session leaves its handler: a request is answered, a worker sleeps.
Leave(c, res) ==
    /\ pc' = [pc EXCEPT ![c] = IF c \in Workers THEN "idle" ELSE "done"]
    /\ result' = [result EXCEPT ![c] = IF c \in Workers THEN "none" ELSE res]
    /\ target' = [target EXCEPT ![c] = IF c \in Workers THEN None ELSE @]
    /\ batch' = [batch EXCEPT ![c] = {}]
    /\ todo' = [todo EXCEPT ![c] = {}]
    /\ at' = [at EXCEPT ![c] = None]
    /\ allConfirmed' = [allConfirmed EXCEPT ![c] = TRUE]

\* A mistake: the session is neither rolled back nor closed.
LeaveOpen(c, res) == Leave(c, res) /\ UNCHANGED <<database, locks, memory>>

\* An exception leaves the handler: get_db_postgres (or the worker's close)
\* rolls back everything since the last commit.
Rollback(c, res) ==
    /\ EndTransaction(c)
    /\ Leave(c, res)
    /\ UNCHANGED database

Goto(c, step) == pc' = [pc EXCEPT ![c] = step]

\* A loop over the items S that visits one of `next` now: run `body` on it,
\* or go `after` the loop when there is none left.
Visit(c, S, next, body, after) ==
    /\ todo' = [todo EXCEPT ![c] = S]
    /\ \/ S = {} /\ at' = [at EXCEPT ![c] = None] /\ Goto(c, after)
       \/ \E i \in next : at' = [at EXCEPT ![c] = i] /\ Goto(c, body)

\* The first item of S in request order.
FirstOf(S) == {i \in S : \A j \in S : i <= j}

\* A provider call fails, or its answer is lost.
Fault == faults < MaxFaults /\ faults' = faults + 1

-----------------------------------------------------------------------------
(* create_reservation *)

\* find_by_client_idempotency_key: a row in any status ends the request.
CreateFind(c, r) ==
    /\ pc[c] = "idle" /\ c \in Requests
    /\ target' = [target EXCEPT ![c] = r]
    /\ \/ /\ resv[r].status # "absent"
          /\ pc' = [pc EXCEPT ![c] = "done"]
          /\ result' = [result EXCEPT ![c] = "existing"]
       \/ /\ resv[r].status = "absent"
          /\ Goto(c, "insert")
          /\ UNCHANGED result
    /\ UNCHANGED <<database, locks, batch, todo, at, memory, allConfirmed, outside>>

\* The INSERT waits for an uncommitted row with the same key; if that one
\* committed, the unique constraint raises and nothing catches it.
CreateInsert(c) ==
    LET r == target[c] IN
    /\ pc[c] = "insert" /\ CanLock(c, r)
    /\ \/ /\ resv[r].status # "absent"
          /\ Rollback(c, "integrityError")
       \/ /\ resv[r].status = "absent"
          /\ holder' = [holder EXCEPT ![r] = c]
          /\ Visit(c, Cart(r), FirstOf(Cart(r)), "addItem", "commitLocal")
          /\ UNCHANGED <<database, sharer, target, batch, memory, allConfirmed, result>>
    /\ UNCHANGED outside

\* reserve_local, the INSERT: its foreign-key check share-locks the stock row.
CreateAddItem(c) ==
    LET i == at[c]
        p == ProductOf[i] IN
    /\ pc[c] = "addItem" /\ CanShare(c, p)
    /\ sharer' = [sharer EXCEPT ![p] = @ \cup {c}]
    /\ WriteItem(c, i, [status |-> "HELD_LOCAL", ref |-> FALSE])
    /\ Goto(c, "hold")
    /\ UNCHANGED <<database, holder, cursor, row, inv, touched, allConfirmed, result, outside>>

\* reserve_local, hold_stock: too little stock for one item fails the whole
\* checkout and nothing of it stays.
CreateHold(c) ==
    LET i == at[c]
        p == ProductOf[i]
        s == MemStock(c, p)
        rest == todo[c] \ {i} IN
    /\ pc[c] = "hold" /\ CanLock(c, p)
    /\ \/ /\ ~CanHold(s, Qty[i])
          /\ Rollback(c, "failed")
       \/ /\ CanHold(s, Qty[i])
          /\ LockStock(c, p, HoldLocked(s, Qty[i]))
          /\ Visit(c, rest, FirstOf(rest), "addItem", "commitLocal")
          /\ UNCHANGED <<database, sharer, target, batch, row, attrs, dirty, allConfirmed, result>>
    /\ UNCHANGED outside

\* The first commit makes the reservation and its local holds visible.
CreateCommitLocal(c) ==
    LET r == target[c] IN
    /\ pc[c] = "commitLocal"
    /\ Commit(c, [resv EXCEPT ![r] = [status |-> "PENDING_LOCAL", version |-> 1]])
    /\ Visit(c, Cart(r), FirstOf(Cart(r)), "loadItem", "markPending")
    /\ UNCHANGED <<target, batch, allConfirmed, result, outside>>

\* Where the upstream loop goes once the items read `mem` in memory: on, or
\* to the compensation of a failed checkout, or to PENDING.
NextUpstream(c, mem) ==
    LET rest == todo[c] \ {at[c]}
        cart == Cart(target[c])
        held == {i \in cart : mem[i].status \in Holding} IN
    IF rest # {} THEN Visit(c, rest, FirstOf(rest), "loadItem", "markPending")
    ELSE IF \E i \in cart : mem[i].status = "FAILED"
         THEN Visit(c, held, FirstOf(held), "compensate", "markCancelled")
         ELSE Visit(c, {}, {}, "loadItem", "markPending")

\* The first access to an item after the commit reloads it, with no lock.
CreateLoadItem(c) ==
    LET i == at[c] IN
    /\ pc[c] = "loadItem"
    /\ attrs' = [attrs EXCEPT ![c][i] = item[i]]
    /\ \/ /\ item[i].status = "HELD_LOCAL"
          /\ Goto(c, "reserve")
          /\ UNCHANGED <<todo, at>>
       \/ /\ item[i].status # "HELD_LOCAL"
          /\ NextUpstream(c, attrs'[c])
    /\ UNCHANGED <<database, locks, target, batch, row, dirty, inv, touched,
                   allConfirmed, result, outside>>

\* A reservation is made with the provider, which answers with its
\* reference; asked again under the same key it answers the same.
UpstreamReserved(i) ==
    IF ProductOf[i] \notin Reservable THEN upstream
    ELSE [upstream EXCEPT ![RefOf[i]] = IF @ = "none" THEN "held" ELSE @]

\* reserve_upstream_and_update: the stock row is locked, the provider called,
\* and the item tested again, but on the attributes loaded before the lock.
\* A client that cannot be built fails the item like a call that raises,
\* whatever the provider is able to do.
CreateReserve(c) ==
    LET i == at[c]
        p == ProductOf[i]
        s == MemStock(c, p) IN
    /\ pc[c] = "reserve"
    /\ \/ /\ LockStock(c, p, s)
          /\ WriteItem(c, i, [status |-> "HELD", ref |-> p \in Reservable])
          /\ upstream' = UpstreamReserved(i)
          /\ UNCHANGED faults
       \/ /\ Fault
          /\ LockStock(c, p, ReleaseHold(s, Qty[i]))
          /\ WriteItem(c, i, [status |-> "FAILED", ref |-> FALSE])
          /\ upstream' \in {upstream, UpstreamReserved(i)}
    /\ NextUpstream(c, attrs'[c])
    /\ UNCHANGED <<database, sharer, target, batch, row, allConfirmed, result, due>>

\* The provider lets a hold go, or fails to: both are swallowed.
UpstreamReleased(c, i) ==
    \/ /\ upstream' = IF attrs[c][i].ref /\ upstream[RefOf[i]] = "held"
                      THEN [upstream EXCEPT ![RefOf[i]] = "released"]
                      ELSE upstream
       /\ UNCHANGED faults
    \/ attrs[c][i].ref /\ Fault /\ UNCHANGED upstream

\* One round of a loop that gives held items back.
ReleaseItem(c, i) ==
    LET p == ProductOf[i] IN
    /\ LockStock(c, p, ReleaseHold(MemStock(c, p), Qty[i]))
    /\ UpstreamReleased(c, i)
    /\ WriteItem(c, i, [attrs[c][i] EXCEPT !.status = "RELEASED"])

\* _release_all_held_items, one item.
CreateCompensate(c) ==
    LET rest == todo[c] \ {at[c]} IN
    /\ pc[c] = "compensate"
    /\ ReleaseItem(c, at[c])
    /\ Visit(c, rest, FirstOf(rest), "compensate", "markCancelled")
    /\ UNCHANGED <<database, sharer, target, batch, row, allConfirmed, result, due>>

\* The row is set to CANCELLED, and the error raised next undoes it together
\* with every release and every provider reference of this transaction.
CreateMarkCancelled(c) ==
    /\ pc[c] = "markCancelled" /\ CanLock(c, target[c])
    /\ Rollback(c, "failed")
    /\ UNCHANGED outside

\* The closing UPDATE tests nothing; get_db_postgres commits it.
CreateMarkPending(c) ==
    /\ pc[c] = "markPending" /\ CanLock(c, target[c])
    /\ Commit(c, [resv EXCEPT ![target[c]].status = "PENDING"])
    /\ Leave(c, "created")
    /\ UNCHANGED outside

-----------------------------------------------------------------------------
(* confirm_reservation *)

\* get_by_id and the status test of confirm and cancel.
ReadOrRefuse(c, r, allowed, step) ==
    /\ pc[c] = "idle" /\ c \in Requests
    /\ target' = [target EXCEPT ![c] = r]
    /\ \/ /\ resv[r].status \in allowed
          /\ row' = [row EXCEPT ![c] = resv[r]]
          /\ Goto(c, step)
          /\ UNCHANGED result
       \/ /\ resv[r].status \notin allowed
          /\ pc' = [pc EXCEPT ![c] = "done"]
          /\ result' = [result EXCEPT ![c] =
                 IF resv[r].status = "absent" THEN "notFound" ELSE "notPending"]
          /\ UNCHANGED row
    /\ UNCHANGED <<database, locks, batch, todo, at, attrs, dirty, inv, touched,
                   allConfirmed, outside>>

\* A mistake: the audit counter counts down.
VersionDown(c, new) ==
    [resv EXCEPT ![target[c]] = [status |-> new, version |-> row[c].version - 1]]

\* The row lock_and_transition leaves: the test passed on the loaded status,
\* the UPDATE carries the columns that differ from the loaded ones.
Transitioned(c, new) ==
    [resv EXCEPT ![target[c]] =
        [status |-> IF row[c].status = new THEN @.status ELSE new,
         version |-> row[c].version + 1]]

ConfirmRead(c, r) == ReadOrRefuse(c, r, Confirmable, "confirmLock")

\* The test is made on the status ConfirmRead loaded, so it cannot fail.
ConfirmLock(c) ==
    /\ pc[c] = "confirmLock" /\ CanLock(c, target[c])
    /\ IF row[c].status \in Confirmable
       THEN /\ Commit(c, Transitioned(c, "CONFIRMING"))
            /\ Goto(c, "confirmRefresh")
            /\ UNCHANGED <<cursor, allConfirmed, result>>
       ELSE Rollback(c, "conflict")
    /\ UNCHANGED outside

\* db.refresh: one SELECT, no lock.
ConfirmRefresh(c) ==
    /\ pc[c] = "confirmRefresh"
    /\ row' = [row EXCEPT ![c] = resv[target[c]]]
    /\ Goto(c, "confirmItems")
    /\ UNCHANGED <<database, locks, cursor, attrs, dirty, inv, touched,
                   allConfirmed, result, outside>>

\* reservation.items: one SELECT, no lock, in whatever order the heap gives.
LoadItems(c) ==
    attrs' = [attrs EXCEPT ![c] =
                 [i \in Items |-> IF CartOf[i] = target[c] THEN item[i] ELSE NoItem]]

\* Items that are not HELD are skipped and spoil the confirmation.
ConfirmItems(c) ==
    LET cart == Cart(target[c])
        held == {i \in cart : item[i].status = "HELD"} IN
    /\ pc[c] = "confirmItems"
    /\ LoadItems(c)
    /\ allConfirmed' = [allConfirmed EXCEPT ![c] = (held = cart)]
    /\ Visit(c, held, held, "confirmItem", "confirmFinal")
    /\ UNCHANGED <<database, locks, target, batch, row, dirty, inv, touched, result, outside>>

\* confirm_upstream says yes to a hold that stands, and to asking again.
UpstreamConfirmable(f) == upstream[f] \in {"held", "confirmed"}

\* A mistake: the provider is not told.
ConfirmNotSent(c, i) == UNCHANGED upstream

\* The provider confirms; a seller without holds still has enough.
UpstreamConfirmed(c, i) ==
    IF attrs[c][i].ref
    THEN /\ UpstreamConfirmable(RefOf[i])
         /\ upstream' = [upstream EXCEPT ![RefOf[i]] = "confirmed"]
    ELSE UNCHANGED upstream

\* The provider refuses or fails, or its yes is lost.
UpstreamUnconfirmed(c, i) ==
    \/ ~UpstreamConfirmable(RefOf[i]) /\ UNCHANGED <<upstream, faults>>
    \/ Fault /\ (UNCHANGED upstream \/ UpstreamConfirmed(c, i))

\* One item: confirmed and consumed; or left HELD; or, when the seller has
\* sold out or does not answer, FAILED and given back.
ConfirmItem(c) ==
    LET i == at[c]
        p == ProductOf[i]
        s == MemStock(c, p)
        rest == todo[c] \ {i} IN
    /\ pc[c] = "confirmItem"
    /\ \/ /\ UpstreamConfirmed(c, i)
          /\ LockStock(c, p, ConsumeHold(s, Qty[i]))
          /\ WriteItem(c, i, [attrs[c][i] EXCEPT !.status = "CONFIRMED"])
          /\ UNCHANGED <<faults, allConfirmed>>
       \/ /\ attrs[c][i].ref /\ UpstreamUnconfirmed(c, i)
          /\ LockStock(c, p, s)
          /\ allConfirmed' = [allConfirmed EXCEPT ![c] = FALSE]
          /\ UNCHANGED <<attrs, dirty>>
       \/ /\ ~attrs[c][i].ref /\ Fault
          /\ LockStock(c, p, ReleaseHold(s, Qty[i]))
          /\ WriteItem(c, i, [attrs[c][i] EXCEPT !.status = "FAILED"])
          /\ allConfirmed' = [allConfirmed EXCEPT ![c] = FALSE]
          /\ UNCHANGED upstream
    /\ Visit(c, rest, rest, "confirmItem", "confirmFinal")
    /\ UNCHANGED <<database, sharer, target, batch, row, result, due>>

\* The closing lock_and_transition, tested on the refreshed row; only a full
\* confirmation survives, the incomplete one raises and is rolled back.
ConfirmFinal(c) ==
    /\ pc[c] = "confirmFinal" /\ CanLock(c, target[c])
    /\ \/ /\ row[c].status = "CONFIRMING" /\ allConfirmed[c]
          /\ Commit(c, Transitioned(c, "CONFIRMED"))
          /\ Leave(c, "confirmed")
       \/ /\ row[c].status = "CONFIRMING" /\ ~allConfirmed[c]
          /\ Rollback(c, "incomplete")
       \/ /\ row[c].status # "CONFIRMING"
          /\ Rollback(c, "conflict")
    /\ UNCHANGED outside

-----------------------------------------------------------------------------
(* cancel_reservation and expire_reservations *)

CancelRead(c, r) == ReadOrRefuse(c, r, Open, "heldItems")

\* A mistake, made by get_expired_pending: PENDING_LOCAL is left out.
FoundPending ==
    {r \in Reservations : due[r] /\ resv[r].status = "PENDING" /\ holder[r] = None}

\* find_expired_and_lock: every open reservation past its time that nobody
\* has locked.
FoundExpired ==
    {r \in Reservations : due[r] /\ resv[r].status \in Open /\ holder[r] = None}

\* The worker locks them all and starts with one.
Sweep(w) ==
    /\ w \in Workers /\ pc[w] = "idle"
    /\ \E r \in FoundExpired :
           /\ target' = [target EXCEPT ![w] = r]
           /\ batch' = [batch EXCEPT ![w] = FoundExpired \ {r}]
           /\ row' = [row EXCEPT ![w] = resv[r]]
    /\ holder' = [x \in Rows |-> IF x \in FoundExpired THEN w ELSE holder[x]]
    /\ Goto(w, "heldItems")
    /\ UNCHANGED <<database, sharer, todo, at, attrs, dirty, inv, touched,
                   allConfirmed, result, outside>>

\* The commit after each reservation let every lock of the sweep go and
\* expired its rows: the next one is read again, unlocked and untested.
ExpireReload(w) ==
    /\ pc[w] = "reload"
    /\ row' = [row EXCEPT ![w] = resv[target[w]]]
    /\ Goto(w, "heldItems")
    /\ UNCHANGED <<database, locks, cursor, attrs, dirty, inv, touched,
                   allConfirmed, result, outside>>

\* reservation.items, of which only those still held are given back.
LoadHeldItems(c) ==
    LET held == {i \in Cart(target[c]) : item[i].status \in Holding} IN
    /\ pc[c] = "heldItems"
    /\ LoadItems(c)
    /\ Visit(c, held, held, "release", "close")
    /\ UNCHANGED <<database, locks, target, batch, row, dirty, inv, touched,
                   allConfirmed, result, outside>>

ReleaseHeldItem(c) ==
    LET rest == todo[c] \ {at[c]} IN
    /\ pc[c] = "release"
    /\ ReleaseItem(c, at[c])
    /\ Visit(c, rest, rest, "release", "close")
    /\ UNCHANGED <<database, sharer, target, batch, row, allConfirmed, result, due>>

\* This test, too, is made on the status CancelRead loaded.
CancelFinal(c) ==
    /\ pc[c] = "close" /\ c \in Requests /\ CanLock(c, target[c])
    /\ IF row[c].status \in Open
       THEN /\ Commit(c, Transitioned(c, "CANCELLED"))
            /\ Leave(c, "cancelled")
       ELSE Rollback(c, "conflict")
    /\ UNCHANGED outside

\* A reservation that has left Open is not expired, yet what was released
\* for it is committed all the same.
ExpireFinal(w) ==
    /\ pc[w] = "close" /\ w \in Workers /\ CanLock(w, target[w])
    /\ Commit(w, IF row[w].status \in Open THEN Transitioned(w, "EXPIRED") ELSE resv)
    /\ \/ batch[w] = {} /\ Leave(w, "none")
       \/ /\ \E r \in batch[w] :
                 /\ target' = [target EXCEPT ![w] = r]
                 /\ batch' = [batch EXCEPT ![w] = @ \ {r}]
          /\ Goto(w, "reload")
          /\ UNCHANGED <<todo, at, allConfirmed, result>>
    /\ UNCHANGED outside

-----------------------------------------------------------------------------
(* Time, the deadlock detector, crashes. *)

\* expires_at passes; only an open reservation is ever looked at again.
PassTTL(r) ==
    /\ resv[r].status \in Open /\ ~due[r]
    /\ due' = [due EXCEPT ![r] = TRUE]
    /\ UNCHANGED <<database, locks, pc, cursor, memory, allConfirmed, result, upstream, faults>>

\* The sessions that hold what session c needs for its next step.
Blockers(c) ==
    LET p == ProductOf[at[c]] IN
    CASE pc[c] \in {"hold", "reserve", "compensate", "confirmItem", "release"} ->
             ({holder[p]} \cup sharer[p]) \ {None, c}
      [] pc[c] = "addItem" -> {holder[p]} \ {None, c}
      [] pc[c] \in {"insert", "markCancelled", "markPending", "confirmLock",
                    "confirmFinal", "close"} -> {holder[target[c]]} \ {None, c}
      [] OTHER -> {}

WaitCycle(S) == S # {} /\ \A c \in S : Blockers(c) \cap S # {}

\* c waits in a smallest circle of sessions that wait for each other.
Deadlocked(c) ==
    \E S \in SUBSET Sessions :
        c \in S /\ WaitCycle(S) /\ \A T \in SUBSET S : WaitCycle(T) => T = S

\* PostgreSQL aborts one transaction of the circle.  Handlers swallow the
\* error of the statement, but in the aborted transaction the next one fails
\* too, so the session always ends in a rollback.
DeadlockAbort(c) ==
    /\ Deadlocked(c)
    /\ Rollback(c, "deadlock")
    /\ UNCHANGED outside

\* The process or the connection dies between two steps.
Crash(c) ==
    /\ pc[c] \notin {"idle", "done"}
    /\ Fault
    /\ Rollback(c, "crashed")
    /\ UNCHANGED <<due, upstream>>

-----------------------------------------------------------------------------

\* The step session c takes next in the handler it is in.
Continue(c) ==
    \/ CreateInsert(c) \/ CreateAddItem(c) \/ CreateHold(c) \/ CreateCommitLocal(c)
    \/ CreateLoadItem(c) \/ CreateReserve(c) \/ CreateCompensate(c)
    \/ CreateMarkCancelled(c) \/ CreateMarkPending(c)
    \/ ConfirmLock(c) \/ ConfirmRefresh(c) \/ ConfirmItems(c) \/ ConfirmItem(c)
    \/ ConfirmFinal(c)
    \/ ExpireReload(c) \/ LoadHeldItems(c) \/ ReleaseHeldItem(c)
    \/ CancelFinal(c) \/ ExpireFinal(c)

Start(c) == \E r \in Reservations : CreateFind(c, r) \/ ConfirmRead(c, r) \/ CancelRead(c, r)

\* Every request is answered and no sweep has anything to do.
Finished ==
    /\ \A c \in Requests : pc[c] = "done"
    /\ \A w \in Workers : pc[w] = "idle"
    /\ UNCHANGED vars

Next ==
    \/ \E c \in Sessions : Start(c) \/ Sweep(c) \/ Continue(c) \/ DeadlockAbort(c) \/ Crash(c)
    \/ \E r \in Reservations : PassTTL(r)
    \/ Finished

Spec == Init /\ [][Next]_vars

\* Requests run on server threads, workers on theirs, provider calls time out
\* and row locks are granted in the order they were asked for: a session that
\* can go on again and again does.  The database detects deadlocks, the sweep
\* comes back every interval.
Fairness ==
    /\ \A c \in Sessions : SF_vars(Continue(c)) /\ WF_vars(DeadlockAbort(c))
    /\ \A w \in Workers : WF_vars(Sweep(w))

FairSpec == Spec /\ Fairness

\* The reservations a session is working on.
Engaged(c) ==
    IF pc[c] \in {"idle", "done"} THEN {} ELSE batch[c] \cup {target[c]}

\* No two sessions work on one reservation at a time: what the design takes
\* for granted of its clients and its worker.
OneAtATime == \A c, d \in Sessions : c # d => Engaged(c) \cap Engaged(d) = {}

SerialNext == Next /\ OneAtATime'

SerialSpec == Init /\ [][SerialNext]_vars
=============================================================================
