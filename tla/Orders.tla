------------------------------- MODULE Orders -------------------------------
(***************************************************************************)
(* Orders made from confirmed reservations, beside the reservation         *)
(* workflow that is still moving.  An order request reads reservations and *)
(* items with no lock and shares no row with a checkout session (orders    *)
(* have no foreign key to either): the two meet in committed rows only.    *)
(* The answer leaves when the handler returns, before get_db_postgres      *)
(* commits.                                                                *)
(***************************************************************************)
EXTENDS CheckoutSafety

CONSTANT OrderRequests   \* HTTP requests to the order routes, one call each

ASSUME OrderAssumption == OrderRequests \cap Sessions = {}

VARIABLES
    orders,   \* committed orders rows with their items, one per creating request
    draft,    \* request -> the order it has read or written and not committed
    step,     \* request -> the step it takes next
    asked,    \* request -> the reservation it names
    reply     \* request -> the answer that has left

orderVars == <<orders, draft, step, asked, reply>>
allVars == <<vars, orderVars>>

NoOrder == [status |-> "absent", items |-> {}]

OrderInit ==
    /\ Init
    /\ orders = [c \in OrderRequests |-> NoOrder]
    /\ draft = [c \in OrderRequests |-> NoOrder]
    /\ step = [c \in OrderRequests |-> "idle"]
    /\ asked = [c \in OrderRequests |-> None]
    /\ reply = [c \in OrderRequests |-> "none"]

\* The committed orders of reservation r; the inserts of r still uncommitted.
OrdersOf(r) == {d \in OrderRequests : orders[d].status # "absent" /\ asked[d] = r}
InsertsOf(r) == {d \in OrderRequests : draft[d].status # "absent" /\ asked[d] = r}

To(c, next) == step' = [step EXCEPT ![c] = next]

\* The exception leaves the handler: rollback, and an error is answered.
Refuse(c, answer) ==
    /\ reply' = [reply EXCEPT ![c] = answer]
    /\ draft' = [draft EXCEPT ![c] = NoOrder]
    /\ To(c, "done")

-----------------------------------------------------------------------------
(* Mistakes the properties must notice. *)

NeverTaken(r) == FALSE
SettlingOrConfirmed(r) == resv[r].status \in {"CONFIRMED", "CONFIRMING"}
DirtyGetOrder(c, d) ==
    /\ step[c] = "idle" /\ c # d
    /\ reply' = [reply EXCEPT ![c] =
           IF draft[d].status = "absent" THEN "orderNotFound" ELSE draft[d].status]
    /\ To(c, "done")
    /\ UNCHANGED <<orders, draft, asked>>
FailAndStay(c) ==
    /\ step[c] \notin {"idle", "done"}
    /\ To(c, "done")
    /\ UNCHANGED <<orders, draft, asked, reply>>

-----------------------------------------------------------------------------
(* create_order_from_reservation *)

\* get_by_reservation_id, on committed rows only.
OrderFind(c, r) ==
    /\ step[c] = "idle"
    /\ asked' = [asked EXCEPT ![c] = r]
    /\ \/ OrdersOf(r) # {} /\ Refuse(c, "alreadyExists")
       \/ OrdersOf(r) = {} /\ To(c, "read") /\ UNCHANGED <<draft, reply>>
    /\ UNCHANGED orders

Orderable(r) == resv[r].status = "CONFIRMED"

\* get_confirmed_reservation, the reservation row.
OrderRead(c) ==
    /\ step[c] = "read"
    /\ \/ ~Orderable(asked[c]) /\ Refuse(c, "notConfirmed")
       \/ Orderable(asked[c]) /\ To(c, "items") /\ UNCHANGED <<draft, reply>>
    /\ UNCHANGED <<orders, asked>>

\* reservation.items is a later query; items that are not CONFIRMED are left out.
ItemsToOrder(r) == {i \in Cart(r) : item[i].status = "CONFIRMED"}

OrderItems(c) ==
    /\ step[c] = "items"
    /\ draft' = [draft EXCEPT ![c].items = ItemsToOrder(asked[c])]
    /\ To(c, "insert")
    /\ UNCHANGED <<orders, asked, reply>>

\* What the unique key on reservation_id finds once no insert is in doubt.
KeyTaken(r) == OrdersOf(r) # {}

\* The INSERT waits for an uncommitted order of the same reservation; if that
\* one commits, the unique key raises and nothing catches it.
OrderInsert(c) ==
    LET r == asked[c] IN
    /\ step[c] = "insert" /\ InsertsOf(r) = {}
    /\ \/ KeyTaken(r) /\ Refuse(c, "integrityError")
       \/ /\ ~KeyTaken(r)
          /\ draft' = [draft EXCEPT ![c].status = "CREATED"]
          /\ To(c, "fill")
          /\ UNCHANGED reply
    /\ UNCHANGED <<orders, asked>>

\* The items, the final status, and the return of the handler.
OrderFill(c) ==
    /\ step[c] = "fill"
    /\ draft' = [draft EXCEPT ![c].status = "COMPLETED"]
    /\ reply' = [reply EXCEPT ![c] = "ordered"]
    /\ To(c, "commit")
    /\ UNCHANGED <<orders, asked>>

OrderCommit(c) ==
    /\ step[c] = "commit"
    /\ orders' = [orders EXCEPT ![c] = draft[c]]
    /\ draft' = [draft EXCEPT ![c] = NoOrder]
    /\ To(c, "done")
    /\ UNCHANGED <<asked, reply>>

\* get_order: order ids are those of the requests that created them.
GetOrder(c, d) ==
    /\ step[c] = "idle" /\ c # d
    /\ reply' = [reply EXCEPT ![c] =
           IF orders[d].status = "absent" THEN "orderNotFound" ELSE orders[d].status]
    /\ To(c, "done")
    /\ UNCHANGED <<orders, draft, asked>>

\* The process or its connection dies: an answer that has left stays left.
OrderCrash(c) ==
    /\ step[c] \notin {"idle", "done"}
    /\ draft' = [draft EXCEPT ![c] = NoOrder]
    /\ To(c, "done")
    /\ UNCHANGED <<orders, asked, reply>>

-----------------------------------------------------------------------------

OrderContinue(c) ==
    OrderRead(c) \/ OrderItems(c) \/ OrderInsert(c) \/ OrderFill(c) \/ OrderCommit(c)

OrderStep(c) ==
    \/ \E r \in Reservations : OrderFind(c, r)
    \/ \E d \in OrderRequests : GetOrder(c, d)
    \/ OrderContinue(c)
    \/ OrderCrash(c)

\* A reservation is handled by one session at a time (SerialNext); order
\* requests overlap with all of them and with each other.
OrderNext ==
    \/ SerialNext /\ UNCHANGED orderVars
    \/ \E c \in OrderRequests : OrderStep(c) /\ UNCHANGED vars

\* A request's thread runs on; the wait of an INSERT ends with the other's
\* transaction.
OrderSpec ==
    /\ OrderInit /\ [][OrderNext]_allVars
    /\ \A c \in OrderRequests : WF_allVars(OrderContinue(c) /\ UNCHANGED vars)

-----------------------------------------------------------------------------

OrderRow == [status : {"absent", "CREATED", "COMPLETED"}, items : SUBSET Items]

\* Every order row, draft and answer keeps its type; get_order never shows an
\* order that is not finished.
OrderTypeOK ==
    /\ orders \in [OrderRequests -> OrderRow]
    /\ draft \in [OrderRequests -> OrderRow]
    /\ step \in [OrderRequests ->
           {"idle", "read", "items", "insert", "fill", "commit", "done"}]
    /\ asked \in [OrderRequests -> Reservations \cup {None}]
    /\ reply \in [OrderRequests ->
           {"none", "alreadyExists", "notConfirmed", "integrityError", "ordered",
            "orderNotFound", "COMPLETED"}]

\* The units of product p that committed orders contain.
Ordered(p) ==
    UNION {{d} \X UnitsOf({i \in orders[d].items : ProductOf[i] = p}, Qty) :
               d \in OrderRequests}

\* Nothing is ordered that was not taken out of the stock, and nothing twice:
\* the two order requests that both find no order, the reservation that is
\* confirming while they look, and a confirmation that rolls back, cannot make
\* the orders of a product exceed what its stock row has sold.
OrderedIsSold == \A p \in Products : Cardinality(Ordered(p)) <= stock[p].sold

\* An order is the whole confirmed cart, finished: the unlocked reads of the
\* reservation and, later, of its items never meet a half confirmed one, and
\* no one sees an order before its items and final status are there.
OrderIsWholeCart ==
    \A d \in OrderRequests : orders[d].status # "absent" =>
        /\ orders[d] = [status |-> "COMPLETED", items |-> Cart(asked[d])]
        /\ resv[asked[d]].status = "CONFIRMED"

\* Every order request ends: whichever way a creating request goes, a commit, an
\* error or a crash, the one that waits for it on the unique key goes on.
OrderRequestsEnd ==
    \A c \in OrderRequests : step[c] # "idle" ~> step[c] = "done"
=============================================================================
