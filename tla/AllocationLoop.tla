--------------------------- MODULE AllocationLoop ---------------------------
(***************************************************************************)
(* The nested loops of InventoryRepository.allocate_approved_orders, one   *)
(* iteration of the inner loop per step, from every input the bounds       *)
(* allow.  The outer loop takes the approved orders by (approved_at, id);  *)
(* the inner one takes the lines of an order by position, which is any     *)
(* order of its products here.  An order has one line per product (quantity*)
(* 0: no such line); reservation 0 and onHand 0 stand for a missing        *)
(* reservation row and a missing inventory row.                            *)
(***************************************************************************)
EXTENDS Allocation

CONSTANTS Orders, Products,
          MaxQuantity,  \* largest quantity of a line
          MaxStock,     \* largest stock of a product
          MaxTime       \* largest approval time

ASSUME LoopOrdersAssumption   == Orders \subseteq Nat /\ IsFiniteSet(Orders)
ASSUME LoopBoundsAssumption   == /\ MaxQuantity \in Nat /\ MaxStock \in Nat
                                 /\ MaxTime \in Nat

VARIABLES
  queue,        \* the approved orders
  approvedAt,   \* their approval times
  line,         \* line[o][p]: quantity that order o asks of product p
  onHand,       \* inventory rows: quantity_on_hand
  reserved,     \* inventory rows: reserved_quantity
  reservation,  \* reservation[o][p]: quantity of the reservation row
  start,        \* reserved and reservation when the loops began
  done          \* the lines the loops have been through

vars == <<queue, approvedAt, line, onHand, reserved, reservation, start, done>>
inputs == <<queue, approvedAt, line, onHand, start>>

TypeOK ==
  /\ queue \in SUBSET Orders
  /\ approvedAt \in [Orders -> Nat]
  /\ line \in [Orders -> [Products -> Nat]]
  /\ onHand \in [Products -> Nat]
  /\ reserved \in [Products -> Nat]
  /\ reservation \in [Orders -> [Products -> Nat]]
  /\ start \in [reserved : [Products -> Nat],
                reservation : [Orders -> [Products -> Nat]]]
  /\ done \in SUBSET (queue \X Products)

Init ==
  /\ queue \in SUBSET Orders
  /\ approvedAt \in [Orders -> 0..MaxTime]
  /\ line \in [Orders -> [Products -> 0..MaxQuantity]]
  /\ onHand \in [Products -> 0..MaxStock]
  /\ reserved \in [Products -> 0..MaxStock]
  /\ \A p \in Products : reserved[p] <= onHand[p]
  /\ reservation \in [Orders -> [Products -> 0..MaxQuantity]]
  /\ \A o \in Orders, p \in Products : reservation[o][p] <= line[o][p]
  /\ start = [reserved |-> reserved, reservation |-> reservation]
  /\ done = {}

Remaining(o, p) == line[o][p] - reservation[o][p]

\* Mutant of Taken: the stock that is left is not looked at.
TakenInFull(o, p) == Remaining(o, p)

\* quantity = min(remaining, quantity_on_hand - reserved_quantity)
Taken(o, p) == AtMost(Remaining(o, p), onHand[p] - reserved[p])

Serves(o, p) ==
  /\ done' = done \cup {<<o, p>>}
  /\ IF Remaining(o, p) > 0 /\ Taken(o, p) > 0
       THEN /\ reservation' = [reservation EXCEPT ![o][p] = @ + Taken(o, p)]
            /\ reserved' = [reserved EXCEPT ![p] = @ + Taken(o, p)]
       ELSE UNCHANGED <<reservation, reserved>>
  /\ UNCHANGED inputs

\* Mutant of ServeLine: the orders come in any order.
ServeLineUnsorted(o, p) == o \in queue /\ <<o, p>> \notin done /\ Serves(o, p)

\* One turn of the inner loop, for the line of product p of order o: every
\* order ahead of o has been through its own lines.
ServeLine(o, p) ==
  /\ o \in queue
  /\ <<o, p>> \notin done
  /\ \A a \in AheadOf(queue, approvedAt, o) : {a} \X Products \subseteq done
  /\ Serves(o, p)

Next == \E o \in Orders, p \in Products : ServeLine(o, p)

Spec == Init /\ [][Next]_vars

Finished == done = queue \X Products

-----------------------------------------------------------------------------
\* The demand, the free stock and the grants of the closed form, as the
\* loops found them.
Wanted(p)  == [o \in Orders |-> line[o][p] - start.reservation[o][p]]
Free(p)    == onHand[p] - start.reserved[p]
Given(o, p) == Grant(Wanted(p), Free(p), queue, approvedAt, o)

\* When the loops end, every line has been given exactly what the closed form
\* of Allocation says, and reserved_quantity has grown by the sum of it.
LoopComputesGrant ==
  Finished =>
    \A p \in Products :
      /\ \A o \in Orders :
           reservation[o][p] = start.reservation[o][p] + Given(o, p)
      /\ reserved[p] = start.reserved[p] + Total([o \in Orders |-> Given(o, p)], Orders)

\* The select of each iteration flushes the rows written so far, so the check
\* constraint ck_inventory_available (reserved_quantity <= quantity_on_hand)
\* has to hold between any two iterations, not only at the end.
EveryFlushAccepted == \A p \in Products : reserved[p] <= onHand[p]
=============================================================================
