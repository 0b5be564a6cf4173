---------------------------- MODULE OrdersProofs ----------------------------
(***************************************************************************)
(* Proofs about Orders, for all values of the constants: an order is made  *)
(* of a whole confirmed cart, once, and never of more than has been sold,  *)
(* while checkouts and other order requests overlap with it.               *)
(***************************************************************************)
EXTENDS Orders, CheckoutSerialProofs

USE DEF Sessions, Rows, database, locks, memory, cursor, outside, orderVars

-----------------------------------------------------------------------------
(* The invariant. *)

Creating == {"read", "items", "insert", "fill", "commit"}

CartOrder(c, status) == [status |-> status, items |-> Cart(asked[c])]

\* What a creating request has in hand at each of its steps, and that the
\* reservation it has found confirmed still is.
DraftOK(c) ==
    /\ step[c] \in Creating => asked[c] \in Reservations
    /\ step[c] \in Creating \ {"read"} => resv[asked[c]].status = "CONFIRMED"
    /\ step[c] = "insert" => draft[c] = CartOrder(c, "absent")
    /\ step[c] = "fill" => draft[c] = CartOrder(c, "CREATED")
    /\ step[c] = "commit" => draft[c] = CartOrder(c, "COMPLETED")
    /\ step[c] \notin {"insert", "fill", "commit"} => draft[c] = NoOrder

\* A committed order belongs to a request that has ended.
OrderOK(c) ==
    \/ orders[c] = NoOrder
    \/ /\ orders[c] = CartOrder(c, "COMPLETED") /\ step[c] = "done"
       /\ asked[c] \in Reservations /\ resv[asked[c]].status = "CONFIRMED"

\* Request c has an order of its reservation, committed or not.
Claims(c) == orders[c].status # "absent" \/ draft[c].status # "absent"

\* What the unique key stands for.
OneOrder ==
    \A c, d \in OrderRequests : Claims(c) /\ Claims(d) /\ asked[c] = asked[d] => c = d

OrderInv ==
    /\ SerialInv /\ OrderTypeOK /\ OneOrder
    /\ \A c \in OrderRequests : DraftOK(c) /\ OrderOK(c)

LEMMA InitOrder == OrderInit => OrderInv
  <1> SUFFICES ASSUME OrderInit PROVE OrderInv
      OBVIOUS
  <1>1. SerialInv
      BY InitSerial DEF OrderInit
  <1>2. OrderTypeOK
      BY DEF OrderInit, OrderTypeOK, OrderRow, NoOrder
  <1>3. OneOrder
      BY DEF OrderInit, OneOrder, Claims, NoOrder
  <1>4. \A c \in OrderRequests : DraftOK(c) /\ OrderOK(c)
      BY DEF OrderInit, DraftOK, OrderOK, Creating
  <1> QED BY <1>1, <1>2, <1>3, <1>4 DEF OrderInv

-----------------------------------------------------------------------------
(* The workflow moves on beside the orders. *)

\* Nothing follows on a confirmation.
LEMMA ConfirmedStays ==
    ASSUME SerialInv, [SerialNext]_vars, NEW r \in Reservations, resv[r].status = "CONFIRMED"
    PROVE  resv'[r].status = "CONFIRMED"
  <1>1. ASSUME NEW c \in Sessions, Moves(c) PROVE resv'[r].status = "CONFIRMED"
    <2>1. CASE UNCHANGED database
        BY <2>1
    <2>2. CASE Turn(c)
      <3>1. r # target[c]
          BY <2>2 DEF Turn, Turns, Confirmable, Open
      <3> QED BY <1>1, <3>1, Elsewhere DEF SerialInv, WorkInv
    <2> QED BY <1>1, <2>1, <2>2, Commits
  <1>2. CASE (\E q \in Reservations : PassTTL(q)) \/ UNCHANGED vars
      BY <1>2 DEF PassTTL, vars
  <1> QED BY <1>1, <1>2 DEF SerialNext, Next, Finished, Moves

LEMMA WorkflowBeside ==
    ASSUME OrderInv, [SerialNext]_vars, UNCHANGED orderVars
    PROVE  OrderInv'
  <1>1. SerialInv'
      BY NextSerial DEF OrderInv
  <1>2. OrderTypeOK'
      BY DEF OrderInv, OrderTypeOK
  <1>3. OneOrder'
      BY DEF OrderInv, OneOrder, Claims
  <1>4. ASSUME NEW c \in OrderRequests PROVE DraftOK(c)' /\ OrderOK(c)'
    <2>1. asked[c] \in Reservations /\ resv[asked[c]].status = "CONFIRMED" =>
              resv'[asked[c]].status = "CONFIRMED"
        BY ConfirmedStays DEF OrderInv
    <2>2. DraftOK(c)'
        BY <2>1 DEF OrderInv, DraftOK, CartOrder, Creating
    <2>3. OrderOK(c)'
        BY <2>1 DEF OrderInv, OrderOK, CartOrder
    <2> QED BY <2>2, <2>3
  <1> QED BY <1>1, <1>2, <1>3, <1>4 DEF OrderInv

-----------------------------------------------------------------------------
(* A step of an order request, with the workflow standing still. *)

\* A finished request does nothing, and no step touches another request.
LEMMA OrderAside ==
    ASSUME OrderTypeOK, NEW c \in OrderRequests, OrderStep(c)
    PROVE  /\ step[c] # "done"
           /\ \A d \in OrderRequests \ {c} :
                  /\ orders'[d] = orders[d] /\ draft'[d] = draft[d] /\ step'[d] = step[d]
                  /\ asked'[d] = asked[d] /\ reply'[d] = reply[d]
  <1> USE DEF OrderTypeOK, To, Refuse
  <1>1. CASE \E r \in Reservations : OrderFind(c, r)
      BY <1>1 DEF OrderFind
  <1>2. CASE \E d \in OrderRequests : GetOrder(c, d)
      BY <1>2 DEF GetOrder
  <1>3. CASE OrderRead(c) \/ OrderItems(c) \/ OrderInsert(c)
      BY <1>3 DEF OrderRead, OrderItems, OrderInsert
  <1>4. CASE OrderFill(c) \/ OrderCommit(c) \/ OrderCrash(c)
      BY <1>4 DEF OrderFill, OrderCommit, OrderCrash
  <1> QED BY <1>1, <1>2, <1>3, <1>4 DEF OrderStep, OrderContinue

LEMMA OrderTypeHere ==
    ASSUME OrderInv, NEW c \in OrderRequests, OrderStep(c)
    PROVE  OrderTypeOK'
  <1> USE DEF OrderTypeOK, To, Refuse
  <1>0. /\ OrderTypeOK /\ NoOrder \in OrderRow
        /\ \A d \in OrderRequests : orders[d].status \in {"absent", "COMPLETED"}
      BY DEF OrderInv, OrderOK, CartOrder, NoOrder, OrderRow
  <1>1. CASE \E r \in Reservations : OrderFind(c, r)
      BY <1>0, <1>1 DEF OrderFind
  <1>2. CASE \E d \in OrderRequests : GetOrder(c, d)
      BY <1>0, <1>2 DEF GetOrder
  <1>3. CASE OrderRead(c)
      BY <1>0, <1>3 DEF OrderRead
  <1>4. CASE OrderItems(c)
      BY <1>0, <1>4 DEF OrderItems, ItemsToOrder, Cart, OrderRow
  <1>5. CASE OrderInsert(c)
    <2>1. [draft EXCEPT ![c].status = "CREATED"] \in [OrderRequests -> OrderRow]
        BY <1>0 DEF OrderRow
    <2> QED BY <1>0, <1>5, <2>1 DEF OrderInsert
  <1>6. CASE OrderFill(c)
    <2>1. [draft EXCEPT ![c].status = "COMPLETED"] \in [OrderRequests -> OrderRow]
        BY <1>0 DEF OrderRow
    <2> QED BY <1>0, <1>6, <2>1 DEF OrderFill
  <1>7. CASE OrderCommit(c) \/ OrderCrash(c)
      BY <1>0, <1>7 DEF OrderCommit, OrderCrash
  <1> QED BY <1>1, <1>2, <1>3, <1>4, <1>5, <1>6, <1>7 DEF OrderStep, OrderContinue

\* The items are read after the reservation, yet they are its whole cart.
LEMMA OrderHere ==
    ASSUME OrderInv, NEW c \in OrderRequests, OrderStep(c), UNCHANGED vars
    PROVE  DraftOK(c)' /\ OrderOK(c)'
  <1> USE DEF To, Refuse, CartOrder
  <1>0. /\ OrderTypeOK /\ DraftOK(c) /\ resv' = resv /\ item' = item
        /\ orders[c] = NoOrder
      BY OrderAside DEF OrderInv, OrderOK, vars
  <1>1. CASE \E r \in Reservations : OrderFind(c, r)
    <2>1. /\ step'[c] \in {"read", "done"} /\ asked'[c] \in Reservations
          /\ draft'[c] = NoOrder /\ orders' = orders
        BY <1>0, <1>1 DEF OrderFind, OrderTypeOK, DraftOK
    <2> QED BY <1>0, <2>1 DEF DraftOK, OrderOK, Creating
  <1>2. CASE \E d \in OrderRequests : GetOrder(c, d)
    <2>1. step'[c] = "done" /\ step[c] = "idle" /\ UNCHANGED <<orders, draft>>
        BY <1>0, <1>2 DEF GetOrder, OrderTypeOK
    <2> QED BY <1>0, <2>1 DEF DraftOK, OrderOK, Creating
  <1>3. CASE OrderRead(c)
    <2>1. /\ step[c] = "read" /\ UNCHANGED <<orders, asked>> /\ draft'[c] = NoOrder
          /\ \/ step'[c] = "done"
             \/ step'[c] = "items" /\ resv[asked[c]].status = "CONFIRMED"
        BY <1>0, <1>3 DEF OrderRead, Orderable, OrderTypeOK, DraftOK
    <2> QED BY <1>0, <2>1 DEF DraftOK, OrderOK, Creating
  <1>4. CASE OrderItems(c)
    <2>1. /\ step[c] = "items" /\ step'[c] = "insert" /\ UNCHANGED <<orders, asked>>
          /\ draft'[c] = [status |-> "absent", items |-> ItemsToOrder(asked[c])]
        BY <1>0, <1>4 DEF OrderItems, OrderTypeOK, DraftOK, NoOrder
    <2>2. asked[c] \in Reservations /\ resv[asked[c]].status = "CONFIRMED"
        BY <1>0, <2>1 DEF DraftOK, Creating
    <2>3. \A i \in Cart(asked[c]) : item[i].status = "CONFIRMED"
        BY <2>2 DEF OrderInv, SerialInv, RowsCoherent, ItemsIn
    <2>4. ItemsToOrder(asked[c]) = Cart(asked[c])
        BY <2>3 DEF ItemsToOrder
    <2> QED BY <1>0, <2>1, <2>2, <2>4 DEF DraftOK, OrderOK, Creating
  <1>5. CASE OrderInsert(c)
    <2>1. /\ step[c] = "insert" /\ UNCHANGED <<orders, asked>>
          /\ draft[c] = [status |-> "absent", items |-> Cart(asked[c])]
          /\ \/ step'[c] = "done" /\ draft'[c] = NoOrder
             \/ step'[c] = "fill" /\ draft'[c] = [draft[c] EXCEPT !.status = "CREATED"]
        BY <1>0, <1>5 DEF OrderInsert, OrderTypeOK, DraftOK
    <2> QED BY <1>0, <2>1 DEF DraftOK, OrderOK, Creating
  <1>6. CASE OrderFill(c)
    <2>1. /\ step[c] = "fill" /\ step'[c] = "commit" /\ UNCHANGED <<orders, asked>>
          /\ draft[c] = [status |-> "CREATED", items |-> Cart(asked[c])]
          /\ draft'[c] = [draft[c] EXCEPT !.status = "COMPLETED"]
        BY <1>0, <1>6 DEF OrderFill, OrderTypeOK, DraftOK
    <2> QED BY <1>0, <2>1 DEF DraftOK, OrderOK, Creating
  <1>7. CASE OrderCommit(c)
    <2>1. /\ step[c] = "commit" /\ step'[c] = "done" /\ UNCHANGED asked
          /\ orders'[c] = [status |-> "COMPLETED", items |-> Cart(asked[c])]
          /\ draft'[c] = NoOrder
        BY <1>0, <1>7 DEF OrderCommit, OrderTypeOK, DraftOK
    <2> QED BY <1>0, <2>1 DEF DraftOK, OrderOK, Creating
  <1>8. CASE OrderCrash(c)
    <2>1. step'[c] = "done" /\ UNCHANGED <<orders, asked>> /\ draft'[c] = NoOrder
        BY <1>0, <1>8 DEF OrderCrash, OrderTypeOK
    <2> QED BY <1>0, <2>1 DEF DraftOK, OrderOK, Creating
  <1> QED BY <1>1, <1>2, <1>3, <1>4, <1>5, <1>6, <1>7, <1>8 DEF OrderStep, OrderContinue

\* The INSERT waits until no other order of the reservation is in doubt.
LEMMA OneOrderHere ==
    ASSUME OrderInv, NEW c \in OrderRequests, OrderStep(c)
    PROVE  OneOrder'
  <1> USE DEF To, Refuse
  <1>0. OrderTypeOK /\ OneOrder /\ DraftOK(c) /\ orders[c] = NoOrder
      BY OrderAside DEF OrderInv, OrderOK
  <1>1. ASSUME Claims(c)'
        PROVE  /\ asked'[c] = asked[c]
               /\ \/ Claims(c)
                  \/ OrderInsert(c) /\ InsertsOf(asked[c]) = {} /\ OrdersOf(asked[c]) = {}
    <2>1. CASE \E r \in Reservations : OrderFind(c, r)
        BY <1>0, <1>1, <2>1 DEF OrderFind, Claims, DraftOK, OrderTypeOK, NoOrder
    <2>2. CASE \E d \in OrderRequests : GetOrder(c, d)
        BY <1>0, <1>1, <2>2 DEF GetOrder, Claims
    <2>3. CASE OrderRead(c) \/ OrderItems(c) \/ OrderCrash(c)
        BY <1>0, <1>1, <2>3
           DEF OrderRead, OrderItems, OrderCrash, Claims, DraftOK, OrderTypeOK, OrderRow, NoOrder
    <2>4. CASE OrderInsert(c)
        BY <1>0, <1>1, <2>4 DEF OrderInsert, KeyTaken, Claims, OrderTypeOK, NoOrder
    <2>5. CASE OrderFill(c) \/ OrderCommit(c)
        BY <1>0, <2>5 DEF OrderFill, OrderCommit, Claims, DraftOK, CartOrder
    <2> QED BY <2>1, <2>2, <2>3, <2>4, <2>5 DEF OrderStep, OrderContinue
  <1>2. \A d \in OrderRequests \ {c} : asked'[d] = asked[d] /\ (Claims(d)' <=> Claims(d))
      BY <1>0, OrderAside DEF Claims
  <1>3. ASSUME NEW d \in OrderRequests \ {c}, Claims(c)', Claims(d)', asked'[c] = asked'[d]
        PROVE  FALSE
    <2>1. Claims(d) /\ asked[c] = asked[d]
        BY <1>1, <1>2, <1>3
    <2>2. CASE Claims(c)
        BY <1>0, <2>1, <2>2 DEF OneOrder
    <2>3. CASE InsertsOf(asked[c]) = {} /\ OrdersOf(asked[c]) = {}
        BY <2>1, <2>3 DEF InsertsOf, OrdersOf, Claims
    <2> QED BY <1>1, <1>3, <2>2, <2>3
  <1> QED BY <1>0, <1>2, <1>3 DEF OneOrder

LEMMA NextOrder == OrderInv /\ [OrderNext]_allVars => OrderInv'
  <1> SUFFICES ASSUME OrderInv, [OrderNext]_allVars PROVE OrderInv'
      OBVIOUS
  <1>1. CASE [SerialNext]_vars /\ UNCHANGED orderVars
      BY <1>1, WorkflowBeside
  <1>2. ASSUME NEW c \in OrderRequests, OrderStep(c), UNCHANGED vars PROVE OrderInv'
    <2>1. SerialInv'
        BY <1>2, NextSerial DEF OrderInv
    <2>2. OrderTypeOK' /\ OneOrder'
        BY <1>2, OrderTypeHere, OneOrderHere
    <2>3. ASSUME NEW d \in OrderRequests PROVE DraftOK(d)' /\ OrderOK(d)'
      <3>1. CASE d = c
          BY <1>2, <3>1, OrderHere
      <3>2. CASE d # c
        <4>1. /\ orders'[d] = orders[d] /\ draft'[d] = draft[d] /\ step'[d] = step[d]
              /\ asked'[d] = asked[d] /\ reply'[d] = reply[d] /\ resv' = resv
            BY <1>2, <3>2, OrderAside DEF OrderInv, vars
        <4>2. DraftOK(d)'
            BY <4>1 DEF OrderInv, DraftOK, CartOrder
        <4>3. OrderOK(d)'
            BY <4>1 DEF OrderInv, OrderOK, CartOrder
        <4> QED BY <4>2, <4>3
      <3> QED BY <3>1, <3>2
    <2> QED BY <2>1, <2>2, <2>3 DEF OrderInv
  <1>3. CASE UNCHANGED allVars
      BY <1>1, <1>3 DEF allVars
  <1> QED BY <1>1, <1>2, <1>3 DEF OrderNext

-----------------------------------------------------------------------------

\* Every order row, draft and answer keeps its type, and get_order never shows
\* an order that is not finished.
THEOREM OrderTypeCorrect == OrderSpec => []OrderTypeOK
  <1>1. OrderInv => OrderTypeOK
      BY DEF OrderInv
  <1> QED BY <1>1, InitOrder, NextOrder, PTL DEF OrderSpec

\* An order is the whole confirmed cart, finished, although the reservation
\* and later its items are read with no lock.
THEOREM OrdersAreWhole == OrderSpec => []OrderIsWholeCart
  <1>1. OrderInv => OrderIsWholeCart
      BY DEF OrderInv, OrderOK, OrderIsWholeCart, CartOrder, NoOrder
  <1> QED BY <1>1, InitOrder, NextOrder, PTL DEF OrderSpec

\* Two orders never contain the same unit, and a unit that is ordered has left
\* the stock: dropping the order from a pair <<order, unit>> loses nothing.
LEMMA OrderedUnits ==
    ASSUME OrderInv, NEW p \in Products
    PROVE  Cardinality(Ordered(p)) <= Cardinality(UnitsOf(SoldItems(p), Qty))
  <1> DEFINE sold == UnitsOf(SoldItems(p), Qty)
             unit == [x \in Ordered(p) |-> x[2]]
             orderOf(i) == CHOOSE d \in OrderRequests : Claims(d) /\ asked[d] = CartOf[i]
  <1>1. ASSUME NEW d \in OrderRequests, NEW i \in orders[d].items
        PROVE  /\ i \in Items /\ item[i].status = "CONFIRMED" /\ d = orderOf(i)
    <2>0. orders[d] # NoOrder
        BY <1>1 DEF NoOrder
    <2>1. /\ asked[d] \in Reservations /\ resv[asked[d]].status = "CONFIRMED"
          /\ i \in Cart(asked[d]) /\ Claims(d)
      <3>1. /\ asked[d] \in Reservations /\ resv[asked[d]].status = "CONFIRMED"
            /\ orders[d] = CartOrder(d, "COMPLETED")
          BY <2>0 DEF OrderInv, OrderOK
      <3> QED BY <1>1, <3>1 DEF CartOrder, Claims
    <2>2. i \in Items /\ CartOf[i] = asked[d] /\ item[i].status = "CONFIRMED"
        BY <2>1 DEF Cart, OrderInv, SerialInv, RowsCoherent, ItemsIn
    <2>3. \A e \in OrderRequests : Claims(e) /\ asked[e] = CartOf[i] => e = d
        BY <2>1, <2>2 DEF OrderInv, OneOrder
    <2> QED BY <2>1, <2>2, <2>3
  <1> HIDE DEF orderOf
  <1>2. ASSUME NEW x \in Ordered(p)
        PROVE  x[2] \in sold /\ x = <<orderOf(x[2][1]), x[2]>>
    <2>1. PICK d \in OrderRequests :
              x \in {d} \X UnitsOf({i \in orders[d].items : ProductOf[i] = p}, Qty)
        BY <1>2 DEF Ordered
    <2>2. PICK i \in orders[d].items : ProductOf[i] = p /\ x[2] \in {i} \X (1 .. Qty[i])
        BY <2>1 DEF UnitsOf
    <2>3. x = <<d, x[2]>> /\ x[2][1] = i
        BY <2>1, <2>2
    <2>4. i \in SoldItems(p) /\ d = orderOf(i)
        BY <1>1, <2>2 DEF SoldItems
    <2>5. x[2] \in sold
        BY <2>2, <2>4 DEF UnitsOf
    <2> QED BY <2>3, <2>4, <2>5
  <1>3. unit \in Injection(Ordered(p), sold)
    <2>1. unit \in [Ordered(p) -> sold]
        BY <1>2
    <2>2. ASSUME NEW x \in Ordered(p), NEW y \in Ordered(p), unit[x] = unit[y] PROVE x = y
      <3>1. x[2] = y[2]
          BY <2>2
      <3> QED BY <1>2, <3>1
    <2> QED BY <2>1, <2>2 DEF Injection, IsInjective
  <1>4. IsFiniteSet(sold)
    <2>1. SoldItems(p) \in SUBSET Items /\ IsFiniteSet(SoldItems(p)) /\ Qty \in [Items -> Nat]
        BY PresentFinite, CheckoutAssumption DEF OrderInv
    <2> QED BY <2>1, UnitsFinite
  <1> HIDE DEF sold, unit
  <1> QED BY <1>3, <1>4, FS_Injection DEF sold

\* Nothing is ordered that was not taken out of the stock, and nothing twice:
\* whatever overlaps, the orders of a product never exceed what its row sold.
THEOREM OrdersAreSold == OrderSpec => []OrderedIsSold
  <1>1. OrderInv => OrderedIsSold
      BY OrderedUnits DEF OrderInv, SerialInv, Accounting, OrderedIsSold
  <1> QED BY <1>1, InitOrder, NextOrder, PTL DEF OrderSpec
=============================================================================
