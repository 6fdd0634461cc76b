-------------------------- MODULE MCAllocationLoop --------------------------
(***************************************************************************)
(* Three orders (two may share an approval time), one product.             *)
(***************************************************************************)
EXTENDS DomainInventory

CONSTANT p1

LOCAL INSTANCE FiniteSetsExt

\* Total of Quantities is the sum that the code computes.
ASSUME TotalIsTheSum ==
  \A f \in [1..3 -> 0..3] :
    Total(f, 1..3) = MapThenSumSet(LAMBDA x : f[x], 1..3)
=============================================================================
