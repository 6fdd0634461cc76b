----------------------------- MODULE MCSessions ------------------------------
(***************************************************************************)
(* Two sessions over two orders: one wants two units of p1, the other one  *)
(* unit of p1 and one of p2.                                               *)
(***************************************************************************)
EXTENDS FulfillmentSessions, TLC

CONSTANTS s1, s2, p1, p2

MCCarts == {[p \in Products |-> 1],
            [p \in Products |-> IF p = p1 THEN 2 ELSE 0]}

SessionSymmetry == Permutations(Sessions)

\* Two units in all: enough for either order, and for one unit of each
\* product to arrive in two receipts at once.
TwoUnits ==
  /\ line[1][p1] > line[2][p1]
  /\ Total(onHand, Products) <= 2
=============================================================================
