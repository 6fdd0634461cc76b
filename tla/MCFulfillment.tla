--------------------------- MODULE MCFulfillment ----------------------------
(***************************************************************************)
(* Two orders and two products: one product both orders compete for.       *)
(***************************************************************************)
EXTENDS Fulfillment

CONSTANTS p1, p2

\* An order of one product, one of both, and an empty (donation) order.
MCCarts == {[p \in Products |-> IF p = p1 THEN 2 ELSE 0],
            [p \in Products |-> 1],
            [p \in Products |-> 0]}

\* Approval times are only compared, so that both late is both early; and
\* three units serve any order, and not any two.
SmallWarehouse ==
  /\ \E o \in Orders : approvedAt[o] < MaxTime
  /\ Total(onHand, Products) <= 3
=============================================================================
