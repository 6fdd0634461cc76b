--------------------------- MODULE DomainInventory ---------------------------
(***************************************************************************)
(* Inventory.allocate_approved_orders of inventory.py, the in-memory twin  *)
(* of the allocation in repositories.py.  It is given the approved orders  *)
(* as a list, sorts them by approved_at alone (a stable sort, so that ties *)
(* stay as listed) and keeps its reservations in dictionaries.  Here it is *)
(* run on the inputs of AllocationLoop and compared with where those loops *)
(* end.                                                                    *)
(***************************************************************************)
EXTENDS AllocationLoop, Sequences, Functions

\* Inventory.items (stock and reserved units of each product) and
\* Inventory._reservations.
Inventory(stock, taken, held) ==
  [onHand |-> stock, reserved |-> taken, reservations |-> held]

AvailableQuantity(inv, p) == inv.onHand[p] - inv.reserved[p]

\* min(remaining_quantity, available_quantity(sku)), or nothing when the line
\* has all it asks for
ReservableQuantity(inv, o, p) ==
  AtMost(Beyond(line[o][p], inv.reservations[o][p]), AvailableQuantity(inv, p))

\* The turn of order o: _reserve for each of its products.
ReserveOrder(inv, o) ==
  [inv EXCEPT
     !.reserved        = [p \in Products |-> @[p] + ReservableQuantity(inv, o, p)],
     !.reservations[o] = [p \in Products |-> @[p] + ReservableQuantity(inv, o, p)]]

\* Mutant of SortedByApproval: the orders are served as they are listed.
AsListed(orders) == orders

\* The i-th order of the list is served before the j-th.
Earlier(orders, i, j) ==
  \/ approvedAt[orders[i]] < approvedAt[orders[j]]
  \/ approvedAt[orders[i]] = approvedAt[orders[j]] /\ i < j

\* sorted(approved_orders, key=lambda order: order.approved_at): the k-th
\* order is the one that k - 1 others come before.
SortedByApproval(orders) ==
  LET EarlierThan(i) == {j \in DOMAIN orders : Earlier(orders, j, i)}
  IN  [k \in DOMAIN orders |->
         orders[CHOOSE i \in DOMAIN orders : Cardinality(EarlierThan(i)) = k - 1]]

\* The inventory after each turn of the outer loop.
Turns(inv, orders) ==
  LET after[k \in 0..Len(orders)] ==
        IF k = 0 THEN inv ELSE ReserveOrder(after[k - 1], orders[k])
  IN  after

AllocateInMemory(inv, orders) == Turns(inv, SortedByApproval(orders))[Len(orders)]

-----------------------------------------------------------------------------
\* The lists of the approved orders in which equal approval times are listed
\* by id, which is how the repository breaks ties.
Listings ==
  {orders \in Injection(1..Cardinality(queue), queue) :
     \A i, j \in DOMAIN orders :
       i < j /\ approvedAt[orders[i]] = approvedAt[orders[j]] => orders[i] < orders[j]}

\* The two implementations of the allocation agree: from the same stock, the
\* same reservations and however the orders are listed, the in-memory one
\* ends with the reservations and counters that the loops over rows end with.
DomainAgrees ==
  Finished =>
    \A orders \in Listings :
      AllocateInMemory(Inventory(onHand, start.reserved, start.reservation), orders)
        = Inventory(onHand, reserved, reservation)
=============================================================================
