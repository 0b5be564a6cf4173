--------------------------- MODULE CheckoutSafety ---------------------------
(***************************************************************************)
(* What the reservation workflow guarantees, under two environments: any   *)
(* overlap of requests and worker passes (Spec), and one session at a time *)
(* on each reservation, other reservations running beside it (SerialSpec). *)
(***************************************************************************)
EXTENDS CheckoutSessions

-----------------------------------------------------------------------------
(* Under any overlap. *)

DatabaseOK ==
    /\ resv \in [Reservations -> ResvRow]
    /\ item \in [Items -> ItemRow]
    /\ stock \in [Products -> StockRow]

LocksOK ==
    /\ holder \in [Rows -> Sessions \cup {None}]
    /\ sharer \in [Rows -> SUBSET Sessions]

Steps ==
    {"idle", "insert", "addItem", "hold", "commitLocal", "loadItem", "reserve",
     "compensate", "markCancelled", "markPending", "confirmLock", "confirmRefresh",
     "confirmItems", "confirmItem", "confirmFinal", "heldItems", "release",
     "close", "reload", "done"}

Answers ==
    {"none", "existing", "integrityError", "failed", "created", "notFound",
     "notPending", "conflict", "confirmed", "incomplete", "cancelled",
     "deadlock", "crashed"}

CursorOK ==
    /\ target \in [Sessions -> Reservations \cup {None}]
    /\ batch \in [Sessions -> SUBSET Reservations]
    /\ todo \in [Sessions -> SUBSET Items]
    /\ at \in [Sessions -> Items \cup {None}]

MemoryOK ==
    /\ row \in [Sessions -> ResvRow]
    /\ attrs \in [Sessions -> [Items -> ItemRow]]
    /\ dirty \in [Sessions -> SUBSET Items]
    /\ inv \in [Sessions -> [Products -> StockRow]]
    /\ touched \in [Sessions -> SUBSET Products]

OutsideOK ==
    /\ due \in [Reservations -> BOOLEAN]
    /\ upstream \in [Refs -> {"none", "held", "confirmed", "released"}]
    /\ faults \in Nat

\* Every row, lock and session variable keeps its type; the audit counter of a
\* reservation stays a natural number.
TypeOK ==
    /\ DatabaseOK /\ LocksOK /\ CursorOK /\ MemoryOK /\ OutsideOK
    /\ pc \in [Sessions -> Steps]
    /\ allConfirmed \in [Sessions -> BOOLEAN]
    /\ result \in [Sessions -> Answers]

\* Items on product p that session c has inserted and held, or let go of.
Taken(c, p) ==
    {i \in dirty[c] : /\ ProductOf[i] = p /\ item[i].status = "absent"
                      /\ ~(pc[c] = "hold" /\ at[c] = i)}
LetGo(c, p) ==
    {i \in dirty[c] : ProductOf[i] = p
                      /\ attrs[c][i].status \in {"RELEASED", "FAILED", "CONFIRMED"}}

\* No lost update on a stock row: whatever other sessions commit, the row a
\* session is about to write is the committed one plus what the session took
\* and minus what it let go.  This is what get_locked's row lock is for.
NoLostUpdate ==
    \A c \in Sessions : \A p \in touched[c] :
        inv[c][p].reserved + Cardinality(UnitsOf(LetGo(c, p), Qty))
            = stock[p].reserved + Cardinality(UnitsOf(Taken(c, p), Qty))

\* Two sessions never have uncommitted writes on one item, so that the item
\* rows, which no code locks, are protected by the locks on the stock rows.
ItemRowsUncontended ==
    \A c, d \in Sessions : c # d => dirty[c] \cap dirty[d] = {}

\* An item is never CONFIRMED against a hold its provider has not confirmed,
\* however confirm, create, cancel and the worker overlap on it.
ConfirmedUpstream ==
    \A i \in Items :
        item[i].status = "CONFIRMED" /\ item[i].ref => upstream[RefOf[i]] = "confirmed"

\* Every request is answered, also when requests lock each other out: each
\* exit of a handler, the failing ones too, lets its locks go.
EveryRequestEnds ==
    \A c \in Requests : pc[c] # "idle" ~> pc[c] = "done"

-----------------------------------------------------------------------------
(* One session at a time on each reservation. *)

HeldItems(p) == {i \in Items : ProductOf[i] = p /\ item[i].status \in Holding}
SoldItems(p) == {i \in Items : ProductOf[i] = p /\ item[i].status = "CONFIRMED"}

\* The stock rows and the item rows tell the same story: what is reserved is
\* exactly what some held item holds, what is sold what some item confirmed.
Accounting ==
    \A p \in Products :
        /\ stock[p].reserved = Cardinality(UnitsOf(HeldItems(p), Qty))
        /\ stock[p].sold = Cardinality(UnitsOf(SoldItems(p), Qty))

\* Nothing is oversold: the items that hold or have bought a product never stand
\* for more units than there were at the start, whatever checkouts compete for
\* the last ones and whatever is rolled back or given back beside them.
NeverOversold ==
    \A p \in Products :
        Cardinality(UnitsOf(HeldItems(p) \cup SoldItems(p), Qty)) <= Stock0[p]

ItemsIn(r, S) == \A i \in Cart(r) : item[i].status \in S

\* A reservation is all or nothing: its status says where each of its items
\* is, through every failure, crash and deadlock of the sessions on it.  For
\* CONFIRMED that is what the code does and not what ARCHITECTURE.md says of an
\* incomplete confirmation (IncompleteIsConfirmed in CheckoutClaims).
RowsCoherent ==
    \A r \in Reservations :
        CASE resv[r].status = "absent" -> ItemsIn(r, {"absent"})
          [] resv[r].status = "PENDING_LOCAL" -> ItemsIn(r, {"HELD_LOCAL"})
          [] resv[r].status = "PENDING" -> ItemsIn(r, {"HELD"})
          [] resv[r].status = "CONFIRMING" -> ItemsIn(r, {"HELD"}) \/ ItemsIn(r, {"HELD_LOCAL"})
          [] resv[r].status = "CONFIRMED" -> ItemsIn(r, {"CONFIRMED"})
          [] resv[r].status \in {"CANCELLED", "EXPIRED"} -> ItemsIn(r, {"RELEASED"})
          [] OTHER -> FALSE

Atomic == INSTANCE AtomicCheckout WITH
    status <- [r \in Reservations |-> resv[r].status],
    place <- [i \in Items |-> item[i].status]

\* Every handler, with its several transactions, lock waits, failures and
\* rollbacks, amounts to at most a few atomic moves of a whole reservation.
ImplementsAtomic == Atomic!Spec

\* An open reservation past its time does not stay open: the worker expires it,
\* through passes that fail or crash, unless a client has cancelled or begun to
\* confirm it.  (One that a client leaves CONFIRMING keeps its stock: the worker
\* looks at open reservations only.)
DueReservationsClose ==
    \A r \in Reservations :
        (due[r] /\ resv[r].status \in Open) ~> resv[r].status \notin Open
=============================================================================
