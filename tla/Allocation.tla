----------------------------- MODULE Allocation -----------------------------
(***************************************************************************)
(* How stock of ONE product is shared among the approved orders, as a      *)
(* closed form.  InventoryRepository.allocate_approved_orders walks the    *)
(* approved orders by (approved_at, id) and gives each line                *)
(*     min(remaining, quantity_on_hand - reserved_quantity)                *)
(* units, updating reserved_quantity as it goes.  What a line gets is      *)
(* therefore its remaining demand, cut to what is left once every order    *)
(* ahead of it has been served.  AllocationLoop is the walk itself and     *)
(* shows that it computes exactly this.                                    *)
(*                                                                         *)
(* Orders are natural numbers: only the order of their ids matters, as the *)
(* tie-break of equal approval times.                                      *)
(***************************************************************************)
EXTENDS Quantities

\* ORDER BY approved_at, id
Before(at, a, b) == \/ at[a] < at[b]
                    \/ at[a] = at[b] /\ a < b

\* Mutant of AheadOf: the walk is sorted by id alone.
AheadOfById(queue, at, o) == {a \in queue : a < o}

\* The approved orders that the walk visits before o.
AheadOf(queue, at, o) == {a \in queue : Before(at, a, o)}

\* What order o of the queue is given out of avail free units, when want[a]
\* is the remaining demand of order a.
Grant(want, avail, queue, at, o) ==
  IF o \in queue
    THEN AtMost(want[o], Beyond(avail, Total(want, AheadOf(queue, at, o))))
    ELSE 0
=============================================================================
