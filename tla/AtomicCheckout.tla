--------------------------- MODULE AtomicCheckout ---------------------------
(***************************************************************************)
(* What a checkout promises: a reservation moves as a whole, each move is  *)
(* one step, and the stock of every product is a function of where the     *)
(* items are.  No sessions, no locks, no partial results.                  *)
(***************************************************************************)
EXTENDS StockLedger

CONSTANTS Products, Reservations, Items, CartOf, ProductOf, Qty, Stock0

VARIABLES
    status,   \* reservation -> its status, or "absent"
    place,    \* item -> its status, or "absent"
    stock     \* product -> its stock row

vars == <<status, place, stock>>

\* How many units of product p belong to items with a status in S.
Count(at, p, S) ==
    Cardinality(UnitsOf({i \in Items : ProductOf[i] = p /\ at[i] \in S}, Qty))

\* The stock rows that go with the items being where `at` says.
Ledger(at) ==
    [p \in Products |->
        LET held == Count(at, p, {"HELD", "HELD_LOCAL"})
            sold == Count(at, p, {"CONFIRMED"}) IN
        [available |-> Stock0[p] - held - sold, reserved |-> held, sold |-> sold]]

Init ==
    /\ status = [r \in Reservations |-> "absent"]
    /\ place = [i \in Items |-> "absent"]
    /\ stock = Ledger(place)

\* Reservation r leaves one of the statuses `from`, its items standing at a
\* common place `here`; all of them and the stock move together.
Move(r, from, here, to, there) ==
    /\ status[r] \in from
    /\ \A i \in Items : CartOf[i] = r => place[i] = here
    /\ status' = [status EXCEPT ![r] = to]
    /\ place' = [i \in Items |-> IF CartOf[i] = r THEN there ELSE place[i]]
    /\ stock' = Ledger(place')

\* The whole cart is held, if there is enough of everything.
Hold(r) ==
    /\ Move(r, {"absent"}, "absent", "PENDING_LOCAL", "HELD_LOCAL")
    /\ \A p \in Products : stock'[p].available >= 0

\* The providers hold it too.
Activate(r) == Move(r, {"PENDING_LOCAL"}, "HELD_LOCAL", "PENDING", "HELD")

\* Payment has come in: nothing but a confirmation may follow.
BeginConfirm(r) ==
    \E here \in {"HELD", "HELD_LOCAL"} :
        Move(r, {"PENDING", "PENDING_LOCAL", "CONFIRMING"}, here, "CONFIRMING", here)

\* The whole cart is sold.  An incomplete confirmation settles nothing: the
\* code takes it back, whatever ARCHITECTURE.md says of it.
Settle(r) == Move(r, {"CONFIRMING"}, "HELD", "CONFIRMED", "CONFIRMED")

\* The whole cart goes back on sale.
GiveBack(r) ==
    \E here \in {"HELD", "HELD_LOCAL"}, to \in {"CANCELLED", "EXPIRED"} :
        Move(r, {"PENDING", "PENDING_LOCAL"}, here, to, "RELEASED")

Next ==
    \E r \in Reservations :
        Hold(r) \/ Activate(r) \/ BeginConfirm(r) \/ Settle(r) \/ GiveBack(r)

Spec == Init /\ [][Next]_vars
=============================================================================
