---------------------------- MODULE Fulfillment -----------------------------
(***************************************************************************)
(* Orders from submission to ready_to_ship, the stock promised to them and *)
(* the warehouse tasks cut from it.  Every action is one request: the API  *)
(* runs it in one transaction (get_session) and either commits all of it   *)
(* or, when a check raises, rolls all of it back.  A refused request is a  *)
(* stuttering step.  Here requests run one after the other.                *)
(*                                                                         *)
(* Order ids are natural numbers (their order breaks ties between equal    *)
(* approval times).  An order has at most one line per product: line[o][p] *)
(* is its quantity, 0 when there is no such line.  A reservation of 0 is a *)
(* missing reservation row, onHand 0 a missing inventory row (stock is     *)
(* only ever added, in positive quantities).                               *)
(***************************************************************************)
EXTENDS Allocation, Integers, Sequences

CONSTANTS
  Orders, Products,
  Carts,        \* the item lists that drafts are submitted with
  MaxReceipt,   \* largest quantity of one stock receipt
  MaxStock,     \* bound on the stock of a product
  MaxTime,      \* bound on approval times
  MaxRequests   \* bound on the change requests of one order

ASSUME OrdersAssumption == Orders \subseteq Nat /\ IsFiniteSet(Orders)
ASSUME CartsAssumption  == Carts \subseteq [Products -> Nat]
ASSUME BoundsAssumption == /\ MaxReceipt \in Nat /\ MaxStock \in Nat
                           /\ MaxTime \in Nat /\ MaxRequests \in Nat

VARIABLES
  status,       \* OrderModel.status
  line,         \* OrderItemModel.quantity, by order and product
  partial,      \* OrderModel.partial_fulfillment_approved
  approvedAt,   \* OrderModel.approved_at
  onHand,       \* InventoryItemModel.quantity_on_hand
  reserved,     \* InventoryItemModel.reserved_quantity
  reservation,  \* InventoryReservationModel.quantity, by order and product
  tasks,        \* the shipments of each order, oldest first
  requests      \* the change requests of each order, oldest first

vars == <<status, line, partial, approvedAt, onHand, reserved, reservation,
          tasks, requests>>
orderVars == <<status, line, partial, approvedAt>>
stockVars == <<onHand, reserved, reservation>>

-----------------------------------------------------------------------------
OrderStatus == {"draft", "pending_approval", "approved", "rejected",
                "cancelled", "ready_to_ship"}

\* Mutant of NextStatus: packed tasks get a status of their own.
NextStatusShipped == [pending  |-> "picking",
                      picking  |-> "labeling",
                      labeling |-> "packing",
                      packing  |-> "shipped"]

\* ShipmentRepository._NEXT_STATUS
NextStatus == [pending  |-> "picking",
               picking  |-> "labeling",
               labeling |-> "packing",
               packing  |-> "ready_to_ship"]

OpenStatus == DOMAIN NextStatus
TaskStatus == OpenStatus \cup {"ready_to_ship", "cancelled"}

Nothing == [p \in Products |-> 0]
Task == [status : TaskStatus, items : [Products -> Nat]]
Request == [type : {"change", "cancellation"},
            status : {"pending", "approved", "rejected"}]

TypeOK ==
  /\ status \in [Orders -> OrderStatus]
  /\ line \in [Orders -> [Products -> Nat]]
  /\ partial \in [Orders -> BOOLEAN]
  /\ approvedAt \in [Orders -> Nat]
  /\ onHand \in [Products -> Nat]
  /\ reserved \in [Products -> Nat]
  /\ reservation \in [Orders -> [Products -> Nat]]
  /\ tasks \in [Orders -> Seq(Task)]
  /\ requests \in [Orders -> Seq(Request)]

Init ==
  /\ status = [o \in Orders |-> "draft"]
  /\ line = [o \in Orders |-> Nothing]
  /\ partial = [o \in Orders |-> FALSE]
  /\ approvedAt = [o \in Orders |-> 0]
  /\ onHand = Nothing
  /\ reserved = Nothing
  /\ reservation = [o \in Orders |-> Nothing]
  /\ tasks = [o \in Orders |-> <<>>]
  /\ requests = [o \in Orders |-> <<>>]

-----------------------------------------------------------------------------
\* Mutant of Approved: every order that was once approved.
ApprovedOnce == {o \in Orders : status[o] \in {"approved", "cancelled"}}

Approved == {o \in Orders : status[o] = "approved"}

\* How much of product p each task of a sequence ships.
Ships(ts, p) == [i \in DOMAIN ts |-> ts[i].items[p]]

\* _shipped_quantities: every shipment counts, whatever its status.
Planned(o, p) == Total(Ships(tasks[o], p), DOMAIN tasks[o])

\* ready_quantities of _mark_order_ready_if_complete
ReadyTasks(o) == {i \in DOMAIN tasks[o] : tasks[o][i].status = "ready_to_ship"}
ReadyQuantity(o, p) == Total(Ships(tasks[o], p), ReadyTasks(o))

FullyReserved(o) == \A p \in Products : reservation[o][p] = line[o][p]
Complete(o) == \A p \in Products : ReadyQuantity(o, p) = line[o][p]

NewTask(items) == [status |-> "pending", items |-> items]

-----------------------------------------------------------------------------
(***************************************************************************)
(* FulfillmentAutomation.process, at the end of the requests that approve  *)
(* an order or receive stock, after their own writes (the primed status,   *)
(* partial, approvedAt, line and onHand): allocate_approved_orders, then   *)
(* create_task_for_allocation for every approved order.                    *)
(***************************************************************************)
Wanted(p) == [o \in Orders |-> line[o][p] - reservation[o][p]]

\* Mutant of Granted: a line gets all it lacks or nothing.
GrantedWhole(o, p) ==
  LET got == Grant(Wanted(p), onHand'[p] - reserved[p], Approved', approvedAt', o)
  IN  IF got = Wanted(p)[o] THEN got ELSE 0

Granted(o, p) ==
  Grant(Wanted(p), onHand'[p] - reserved[p], Approved', approvedAt', o)

\* Mutant of AllocateApprovedOrders: what a line lacks is reserved whether or
\* not there is stock for it.
AllocateInFull ==
  LET Lacking(o, p) == IF o \in Approved' THEN Wanted(p)[o] ELSE 0
  IN  /\ reservation' = [o \in Orders |->
                           [p \in Products |-> reservation[o][p] + Lacking(o, p)]]
      /\ reserved' = [p \in Products |->
                        reserved[p] + Total([o \in Orders |-> Lacking(o, p)], Orders)]

AllocateApprovedOrders ==
  /\ reservation' = [o \in Orders |->
                       [p \in Products |-> reservation[o][p] + Granted(o, p)]]
  /\ reserved' = [p \in Products |->
                    reserved[p] + Total([o \in Orders |-> Granted(o, p)], Orders)]

\* Mutant of Unplanned: earlier tasks are not subtracted.
UnplannedAll(o) == [p \in Products |-> reservation'[o][p]]

\* The reserved units of o that no task has yet.
Unplanned(o) == [p \in Products |-> Beyond(reservation'[o][p], Planned(o, p))]

\* Mutant of CreateTasks: the Boss's partial fulfillment decision is ignored.
CreateTasksAlways ==
  tasks' = [o \in Orders |->
              IF o \in Approved' /\ Unplanned(o) # Nothing
                THEN Append(tasks[o], NewTask(Unplanned(o)))
                ELSE tasks[o]]

CreateTasks ==
  tasks' = [o \in Orders |->
              IF /\ o \in Approved'
                 /\ FullyReserved(o)' \/ partial'[o]
                 /\ Unplanned(o) # Nothing
                THEN Append(tasks[o], NewTask(Unplanned(o)))
                ELSE tasks[o]]

Process == AllocateApprovedOrders /\ CreateTasks

-----------------------------------------------------------------------------
\* The draft is filled and confirmed.
Submit(o, cart) ==
  /\ status[o] = "draft"
  /\ status' = [status EXCEPT ![o] = "pending_approval"]
  /\ line' = [line EXCEPT ![o] = cart]
  /\ UNCHANGED <<partial, approvedAt, stockVars, tasks, requests>>

\* The Boss approves; approved_at is whatever the clock says (it may be equal
\* for two orders, and need not grow).
ApproveOrder(o, allowPartial, now) ==
  /\ status[o] = "pending_approval"
  /\ status' = [status EXCEPT ![o] = "approved"]
  /\ partial' = [partial EXCEPT ![o] = allowPartial]
  /\ approvedAt' = [approvedAt EXCEPT ![o] = now]
  /\ UNCHANGED <<line, onHand, requests>>
  /\ Process

RejectOrder(o) ==
  /\ status[o] = "pending_approval"
  /\ status' = [status EXCEPT ![o] = "rejected"]
  /\ UNCHANGED <<line, partial, approvedAt, stockVars, tasks, requests>>

StockProduct(p, quantity) ==
  /\ onHand[p] + quantity <= MaxStock
  /\ onHand' = [onHand EXCEPT ![p] = @ + quantity]
  /\ UNCHANGED <<orderVars, requests>>
  /\ Process

\* InventoryRepository.reserve, which no endpoint calls.
Reserve(o, p, quantity) ==
  /\ status[o] = "approved"
  /\ onHand[p] > 0
  /\ reservation[o][p] + quantity <= line[o][p]
  /\ onHand[p] - reserved[p] >= quantity
  /\ reservation' = [reservation EXCEPT ![o][p] = @ + quantity]
  /\ reserved' = [reserved EXCEPT ![p] = @ + quantity]
  /\ UNCHANGED <<orderVars, onHand, tasks, requests>>

\* The checks of create_shipment on the quantities of a new task.
ShipmentAllowed(o, items) ==
  /\ status[o] = "approved"
  /\ items # Nothing
  /\ ~partial[o] =>
       \A p \in Products : /\ reservation[o][p] = line[o][p]
                           /\ items[p] = line[o][p] - Planned(o, p)
  /\ \A p \in Products :
       items[p] > 0 => items[p] <= reservation[o][p] - Planned(o, p)

\* ShipmentRepository.create_shipment with quantities of the caller's choice.
CreateShipment(o, items) ==
  /\ ShipmentAllowed(o, items)
  /\ tasks' = [tasks EXCEPT ![o] = Append(@, NewTask(items))]
  /\ UNCHANGED <<orderVars, stockVars, requests>>

\* Mutant of AdvanceStatus: the order is ready when its tasks are, whatever
\* they cover.
AdvanceStatusByTasks(o, i) ==
  /\ tasks[o][i].status \in OpenStatus
  /\ tasks' = [tasks EXCEPT ![o][i].status = NextStatus[@]]
  /\ UNCHANGED <<line, partial, approvedAt, stockVars, requests>>
  /\ status' = IF ReadyTasks(o)' = DOMAIN tasks[o]
                 THEN [status EXCEPT ![o] = "ready_to_ship"]
                 ELSE status

\* Mutant of AdvanceStatus: the order is never looked at.
AdvanceStatusOfTask(o, i) ==
  /\ tasks[o][i].status \in OpenStatus
  /\ tasks' = [tasks EXCEPT ![o][i].status = NextStatus[@]]
  /\ UNCHANGED <<status, line, partial, approvedAt, stockVars, requests>>

\* A worker moves task i of order o on; the last move of the last task makes
\* the order ready.
AdvanceStatus(o, i) ==
  /\ tasks[o][i].status \in OpenStatus
  /\ tasks' = [tasks EXCEPT ![o][i].status = NextStatus[@]]
  /\ UNCHANGED <<line, partial, approvedAt, stockVars, requests>>
  /\ status' = IF tasks'[o][i].status = "ready_to_ship" /\ Complete(o)'
                 THEN [status EXCEPT ![o] = "ready_to_ship"]
                 ELSE status

RequestChange(o, type) ==
  /\ status[o] = "approved"
  /\ Len(requests[o]) < MaxRequests
  /\ requests' = [requests EXCEPT
                    ![o] = Append(@, [type |-> type, status |-> "pending"])]
  /\ UNCHANGED <<orderVars, stockVars, tasks>>

CancelTasks(o) ==
  tasks' = [tasks EXCEPT
              ![o] = [i \in DOMAIN @ |-> [@[i] EXCEPT !.status = "cancelled"]]]

CancelStatus(o) ==
  /\ status' = [status EXCEPT ![o] = "cancelled"]
  /\ UNCHANGED <<line, partial, approvedAt, onHand>>

ReleaseReservations(o) ==
  /\ reserved' = [p \in Products |-> reserved[p] - reservation[o][p]]
  /\ reservation' = [reservation EXCEPT ![o] = Nothing]

\* Mutants of CancelOrder: the stock is not released; its rows are deleted
\* and not subtracted from the counter; the tasks are left as they were.
CancelOrderKeepsStock(o) ==
  CancelTasks(o) /\ UNCHANGED <<reserved, reservation>> /\ CancelStatus(o)

CancelOrderKeepsCounter(o) ==
  /\ CancelTasks(o)
  /\ reservation' = [reservation EXCEPT ![o] = Nothing]
  /\ UNCHANGED reserved
  /\ CancelStatus(o)

CancelOrderKeepsTasks(o) ==
  UNCHANGED tasks /\ ReleaseReservations(o) /\ CancelStatus(o)

\* cancel_order_tasks, release_order_reservations and the order's new status
CancelOrder(o) == CancelTasks(o) /\ ReleaseReservations(o) /\ CancelStatus(o)

\* The Boss decides the i-th change request of o.  Only the request has to be
\* pending: the status of the order is not looked at again.
DecideChangeRequest(o, i, approve) ==
  /\ requests[o][i].status = "pending"
  /\ requests' = [requests EXCEPT
                    ![o][i].status = IF approve THEN "approved" ELSE "rejected"]
  /\ IF approve /\ requests[o][i].type = "cancellation"
       THEN CancelOrder(o)
       ELSE UNCHANGED <<orderVars, stockVars, tasks>>

Next ==
  \/ \E o \in Orders, cart \in Carts : Submit(o, cart)
  \/ \E o \in Orders, allowPartial \in BOOLEAN, now \in 0..MaxTime :
       ApproveOrder(o, allowPartial, now)
  \/ \E o \in Orders : RejectOrder(o)
  \/ \E p \in Products, quantity \in 1..MaxReceipt : StockProduct(p, quantity)
  \/ \E o \in Orders, p \in Products : \E quantity \in 1..line[o][p] :
       Reserve(o, p, quantity)
  \/ \E o \in Orders, items \in [Products -> 0..MaxStock] :
       CreateShipment(o, items)
  \/ \E o \in Orders : \E i \in DOMAIN tasks[o] : AdvanceStatus(o, i)
  \/ \E o \in Orders, type \in {"change", "cancellation"} : RequestChange(o, type)
  \/ \E o \in Orders, approve \in BOOLEAN : \E i \in DOMAIN requests[o] :
       DecideChangeRequest(o, i, approve)

Spec == Init /\ [][Next]_vars

\* Warehouse staff keep working: an order with an open task is eventually
\* worked on.  No other request ever has to come.
FairSpec ==
  /\ Spec
  /\ \A o \in Orders : WF_vars(\E i \in DOMAIN tasks[o] : AdvanceStatus(o, i))

-----------------------------------------------------------------------------
Live == {"approved", "ready_to_ship"}

\* The reserved_quantity of a product is the sum of its reservation rows, and
\* the stock on hand covers it: the counter that allocate, reserve and
\* release each update by hand never drifts from the rows it counts.
StockLedger ==
  \A p \in Products :
    /\ reserved[p] = Total([o \in Orders |-> reservation[o][p]], Orders)
    /\ reserved[p] <= onHand[p]

\* Only approved and ready orders hold stock: a draft, pending, rejected or
\* cancelled order has no reservation left.
OnlyLiveOrdersHoldStock ==
  \A o \in Orders : status[o] \notin Live => reservation[o] = Nothing

\* The tasks of an order never ship more of a line than is reserved for it,
\* and no more is reserved than was ordered, over any sequence of automatic
\* and manual reservations and tasks.
TasksWithinReservation ==
  \A o \in Orders, p \in Products :
    /\ reservation[o][p] <= line[o][p]
    /\ status[o] \in Live => Planned(o, p) <= reservation[o][p]

\* An order that the Boss withholds until it is complete has no task, or
\* tasks for the whole of it.  Together with TasksWithinReservation this is
\* why the checks of create_shipment never refuse a task of the automation.
WithheldShipsWhole ==
  \A o \in Orders :
    status[o] \in Live /\ ~partial[o] /\ tasks[o] # <<>> =>
      \A p \in Products : Planned(o, p) = line[o][p]

\* The warehouse only works on approved orders: once an order is cancelled or
\* ready, none of its tasks can move.
OpenTaskMeansApproved ==
  \A o \in Orders : \A i \in DOMAIN tasks[o] :
    tasks[o][i].status \in OpenStatus => status[o] = "approved"

\* An order with tasks is ready_to_ship exactly when the ready tasks cover
\* every line, whichever task came last.
ReadyExactlyWhenComplete ==
  \A o \in Orders :
    status[o] \in Live /\ tasks[o] # <<>> =>
      (status[o] = "ready_to_ship" <=> Complete(o))

\* A request that ran the automation: it received stock or approved an order.
ProcessStep ==
  \/ onHand' # onHand
  \/ \E o \in Orders : status[o] = "pending_approval" /\ status'[o] = "approved"

\* Earlier approvals come first: when the automation gives an order more of a
\* product, every approved order ahead of it has all it asked of that product.
PriorityRespected ==
  [][ProcessStep =>
       \A a, b \in Approved', p \in Products :
         Before(approvedAt', a, b) /\ reservation'[b][p] > reservation[b][p]
           => reservation'[a][p] = line'[a][p]]_vars

\* The automation leaves no stock idle: after it, a product that an approved
\* order still lacks is reserved to the last unit.
NoIdleStock ==
  [][ProcessStep =>
       \A o \in Approved', p \in Products :
         reservation'[o][p] < line'[o][p] => reserved'[p] = onHand'[p]]_vars

\* Nothing touches a cancelled order again: no late advance, no automation
\* and no second cancellation request changes its status, tasks or stock.
CancelledIsFinal ==
  [][\A o \in Orders :
       status[o] = "cancelled" =>
         /\ status'[o] = "cancelled"
         /\ tasks'[o] = tasks[o]
         /\ reservation'[o] = reservation[o]]_vars

\* An approved order whose lines are all in tasks becomes ready_to_ship (or
\* is cancelled) by the work of the warehouse alone.
PlannedOrderBecomesReady ==
  \A o \in Orders :
    (/\ status[o] = "approved"
     /\ line[o] # Nothing
     /\ \A p \in Products : Planned(o, p) = line[o][p])
    ~> status[o] \in {"ready_to_ship", "cancelled"}

\* The stock that requests move implements the contract of StockPromises.
Promises == INSTANCE StockPromises WITH
              stock     <- onHand,
              demand    <- line,
              promised  <- reservation,
              withdrawn <- {o \in Orders : status[o] = "cancelled"}

\* No request takes stock from an order that was promised it, other than by
\* cancelling the order, or gives a cancelled order any.
PromisesKept == Promises!Spec
=============================================================================
