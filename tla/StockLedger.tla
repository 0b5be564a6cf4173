---------------------------- MODULE StockLedger ----------------------------
(***************************************************************************)
(* The stock row of a product (product_inventories) and what the inventory *)
(* repository does to it.  `sold` is a history field: the database drops   *)
(* the units a confirmation consumes, the model keeps counting them.       *)
(* The audit counter `version` of the row is left out.                     *)
(***************************************************************************)
EXTENDS Integers, FiniteSets

StockRow == [available : Int, reserved : Int, sold : Int]

\* A product's row before any reservation.
FreshStock(n) == [available |-> n, reserved |-> 0, sold |-> 0]

-----------------------------------------------------------------------------
(* Mistakes the properties must notice; no specification uses them. *)

HoldUnchecked(s, n) == TRUE
HoldForgetsReserved(s, n) ==
    [available |-> s.available - n, reserved |-> s.reserved, sold |-> s.sold]
ConsumeFromAvailable(s, n) ==
    [available |-> s.available - n, reserved |-> s.reserved, sold |-> s.sold + n]

-----------------------------------------------------------------------------

\* hold_locked's test: is there enough left?
CanHold(s, n) == n <= s.available

HoldLocked(s, n) ==
    [available |-> s.available - n, reserved |-> s.reserved + n, sold |-> s.sold]

ReleaseHold(s, n) ==
    [available |-> s.available + n, reserved |-> s.reserved - n, sold |-> s.sold]

ConsumeHold(s, n) ==
    [available |-> s.available, reserved |-> s.reserved - n, sold |-> s.sold + n]

\* The single units that the items S stand for, qty[i] of item i.
UnitsOf(S, qty) == UNION {{i} \X (1 .. qty[i]) : i \in S}

\* The units the row accounts for, wherever they are.
Units(s) == s.available + s.reserved + s.sold
=============================================================================
