--------------------------- MODULE MCIdempotency ----------------------------
(***************************************************************************)
(* Three calls that may share a key; requests that may differ.             *)
(***************************************************************************)
EXTENDS Idempotency, TLC

CONSTANTS c1, c2, c3, k1, k2, r1, r2

CallSymmetry == Permutations(Calls)
=============================================================================
