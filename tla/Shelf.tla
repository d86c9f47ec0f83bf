-------------------------------- MODULE Shelf --------------------------------
(***************************************************************************)
(* What doors 3 to 6 promise about goods: an order's goods leave the shelf  *)
(* once, and are then sold or put back as they were taken, never both.      *)
(***************************************************************************)
EXTENDS Integers

CONSTANTS Orders, Skus

VARIABLES stock,    \* what is on the shelf, by sku
          counted,  \* what was put there, at the start and since
          hold      \* where an order's goods are, and what is held of them

Nothing == [k \in Skus |-> 0]

ShelfInit ==
    /\ stock \in [Skus -> Nat] /\ counted = stock
    /\ hold = [o \in Orders |-> [as |-> "none", goods |-> Nothing]]

(* Never more than there is: stock stays a natural number. *)
Take(o) ==
    /\ hold[o].as = "none"
    /\ stock' \in [Skus -> Nat] /\ \A k \in Skus : stock'[k] <= stock[k]
    /\ hold' = [hold EXCEPT ![o] = [as |-> "held", goods |-> [k \in Skus |-> stock[k] - stock'[k]]]]
    /\ UNCHANGED counted

Sell(o) ==
    /\ hold[o].as = "held"
    /\ hold' = [hold EXCEPT ![o] = [as |-> "sold", goods |-> Nothing]]
    /\ UNCHANGED <<stock, counted>>

PutBack(o) ==
    /\ hold[o].as = "held"
    /\ stock' = [k \in Skus |-> stock[k] + hold[o].goods[k]]
    /\ hold' = [hold EXCEPT ![o] = [as |-> "back", goods |-> Nothing]]
    /\ UNCHANGED counted

(* A parcel comes back, or the Merchant counts: no hold is touched. *)
Recount ==
    /\ stock' = [k \in Skus |-> stock[k] + counted'[k] - counted[k]]
    /\ UNCHANGED hold

ShelfNext == Recount \/ \E o \in Orders : Take(o) \/ Sell(o) \/ PutBack(o)
=============================================================================
