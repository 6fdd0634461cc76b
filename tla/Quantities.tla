----------------------------- MODULE Quantities -----------------------------
(***************************************************************************)
(* Totals of quantities.  The code adds quantities up in loops (reserved   *)
(* units of a product over the orders that hold it, planned units of a     *)
(* line over the tasks of its order).  Here a total is the number of       *)
(* units: f[x] numbered units for every x of S, counted.  Nothing in the   *)
(* definition is recursive, so the theorems of AllocationProofs about it   *)
(* follow from facts on finite sets alone.                                 *)
(***************************************************************************)
EXTENDS Naturals, FiniteSets

\* The units that f gives to the elements of S: <<x, 1>> .. <<x, f[x]>>.
Units(f, S) == UNION {{x} \X (1..f[x]) : x \in S}

\* The sum of f[x] over the elements x of S.
Total(f, S) == Cardinality(Units(f, S))

AtMost(a, b) == IF a <= b THEN a ELSE b

\* a - b, and zero when b is the larger (quantities are never negative).
Beyond(a, b) == IF a >= b THEN a - b ELSE 0
=============================================================================
