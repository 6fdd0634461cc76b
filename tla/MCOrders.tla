------------------------------ MODULE MCOrders ------------------------------
(***************************************************************************)
(* Sessions and products of the runs of Orders.                            *)
(***************************************************************************)
EXTENDS Orders, TLC

CONSTANTS s1, s2, p1, p2

SessionSymmetry == Permutations(Sessions)
=============================================================================
