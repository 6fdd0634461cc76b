------------------------- MODULE FulfillmentSessions -------------------------
(***************************************************************************)
(* The requests of Fulfillment as database sessions that overlap, statement*)
(* by statement.  The variables of Fulfillment are the committed rows; what*)
(* a session has read or written and not yet committed is in its cache.    *)
(*                                                                         *)
(* PostgreSQL runs READ COMMITTED: a plain select sees what is committed   *)
(* when it runs and waits for nobody, an UPDATE or SELECT FOR UPDATE takes *)
(* the row's lock and keeps it to the end of the transaction.  SQLAlchemy  *)
(* does not refresh an object that the session already holds, so a SELECT  *)
(* FOR UPDATE of a row that was loaded before locks it and goes on with    *)
(* the old values; and a counter is written as a value, not as a           *)
(* difference.  An object that nothing refers to any more (the orders,     *)
(* once allocate_approved_orders has returned) is loaded afresh.           *)
(*                                                                         *)
(* Orders start submitted and keep their lines (Orders models drafting and *)
(* rejection).  Change requests are left out: a cancellation may be decided*)
(* for any order that was once approved.                                   *)
(***************************************************************************)
EXTENDS Fulfillment

CONSTANT Sessions

VARIABLES
  step,    \* where the request of each session is
  job,     \* what each session was asked to do
  holds,   \* the rows each session has locked
  cache,   \* the rows each session has loaded, and those it has written
  alone    \* the session whose request no other has overlapped, if any

sessionVars == <<step, job, holds, cache, alone>>
allVars == <<vars, sessionVars>>

-----------------------------------------------------------------------------
OrderRow(o)   == <<"order", o>>
StockRow(p)   == <<"stock", p>>
TaskRow(o, i) == <<"task", o, i>>

Approve(o, allowPartial, now) ==
  [op |-> "approve", order |-> o, partial |-> allowPartial, at |-> now]
Stock(p, quantity) == [op |-> "stock", product |-> p, quantity |-> quantity]
Advance(o, i)      == [op |-> "advance", order |-> o, task |-> i]
Cancel(o)          == [op |-> "cancel", order |-> o]
NoJob              == [op |-> "none"]

\* What a session holds: the approved orders it found; the stock rows and
\* reservation rows as it sees them, of which it has written those in rows;
\* the lines and orders its loops have been through; the tasks it has made.
NoCache == [queue       |-> {},
            onHand      |-> Nothing,
            reserved    |-> Nothing,
            reservation |-> [o \in Orders |-> Nothing],
            rows        |-> {},
            served      |-> {},
            looked      |-> {},
            new         |-> [o \in Orders |-> Nothing]]

Steps == {"idle", "receive", "orders", "stock", "reservations", "allocate",
          "siblings", "mark", "commit", "stop", "counter", "release"}

SessionTypeOK ==
  /\ TypeOK
  /\ step \in [Sessions -> Steps]
  /\ \A s \in Sessions :
       /\ cache[s].queue \in SUBSET Orders
       /\ cache[s].onHand \in [Products -> Nat]
       /\ cache[s].reserved \in [Products -> Nat]
       /\ cache[s].reservation \in [Orders -> [Products -> Nat]]
       /\ cache[s].rows \in SUBSET (Orders \X Products)
       /\ cache[s].served \in SUBSET (Orders \X Products)
       /\ cache[s].looked \in SUBSET Orders
       /\ cache[s].new \in [Orders -> [Products -> Nat]]
       /\ step[s] = "idle" => holds[s] = {} /\ job[s] = NoJob
  /\ alone \in SUBSET Sessions

SessionInit ==
  /\ status = [o \in Orders |-> "pending_approval"]
  /\ line \in [Orders -> Carts]
  /\ partial = [o \in Orders |-> FALSE]
  /\ approvedAt = [o \in Orders |-> 0]
  /\ onHand = Nothing
  /\ reserved = Nothing
  /\ reservation = [o \in Orders |-> Nothing]
  /\ tasks = [o \in Orders |-> <<>>]
  /\ requests = [o \in Orders |-> <<>>]
  /\ step = [s \in Sessions |-> "idle"]
  /\ job = [s \in Sessions |-> NoJob]
  /\ holds = [s \in Sessions |-> {}]
  /\ cache = [s \in Sessions |-> NoCache]
  /\ alone = {}

-----------------------------------------------------------------------------
Goto(s, label) == step' = [step EXCEPT ![s] = label]

Free(s, row) == \A t \in Sessions \ {s} : row \notin holds[t]

\* s takes the locks of these rows, once nobody else has them.
Lock(s, rows) ==
  /\ \A row \in rows : Free(s, row)
  /\ holds' = [holds EXCEPT ![s] = @ \cup rows]

\* The request j arrives at s, and its first statement locks these rows.
Begin(s, j, label, rows) ==
  /\ step[s] = "idle"
  /\ Goto(s, label)
  /\ job' = [job EXCEPT ![s] = j]
  /\ Lock(s, rows)
  /\ alone' = IF \A t \in Sessions : step[t] = "idle" THEN {s} ELSE {}

\* Mutant of End: a row lock outlives its transaction.
EndHolding(s) ==
  /\ Goto(s, "idle")
  /\ job' = [job EXCEPT ![s] = NoJob]
  /\ cache' = [cache EXCEPT ![s] = NoCache]
  /\ alone' = alone \ {s}
  /\ UNCHANGED holds

\* The transaction of s has ended, and its session is closed.
End(s) ==
  /\ Goto(s, "idle")
  /\ job' = [job EXCEPT ![s] = NoJob]
  /\ holds' = [holds EXCEPT ![s] = {}]
  /\ cache' = [cache EXCEPT ![s] = NoCache]
  /\ alone' = alone \ {s}

\* Flush and commit of the stock rows that s has written.
CommitStock(s) ==
  LET c == cache[s]
  IN  /\ onHand' = IF job[s].op = "stock"
                     THEN [onHand EXCEPT ![job[s].product] = c.onHand[job[s].product]]
                     ELSE onHand
      /\ reserved' = [p \in Products |->
                        IF \E o \in Orders : <<o, p>> \in c.rows
                          THEN c.reserved[p] ELSE reserved[p]]
      /\ reservation' = [o \in Orders |-> [p \in Products |->
                           IF <<o, p>> \in c.rows
                             THEN c.reservation[o][p] ELSE reservation[o][p]]]

-----------------------------------------------------------------------------
(***************************************************************************)
(* An approval locks its order at once; the decision is the session's own  *)
(* until it commits.                                                       *)
(***************************************************************************)
BeginApproval(s, o, allowPartial, now) ==
  /\ status[o] = "pending_approval"
  /\ Begin(s, Approve(o, allowPartial, now), "orders", {OrderRow(o)})
  /\ UNCHANGED <<vars, cache>>

\* The columns of the orders as s sees them, with its own approval.
Decides(s, o) == job[s].op = "approve" /\ job[s].order = o
StatusIn(s)   == [o \in Orders |-> IF Decides(s, o) THEN "approved" ELSE status[o]]
PartialIn(s)  == [o \in Orders |-> IF Decides(s, o) THEN job[s].partial ELSE partial[o]]
ApprovedIn(s) == [o \in Orders |-> IF Decides(s, o) THEN job[s].at ELSE approvedAt[o]]

\* A receipt: product.inventory_item is loaded without a lock.
BeginReceipt(s, p, quantity) ==
  /\ Begin(s, Stock(p, quantity), "receive", {})
  /\ cache' = [cache EXCEPT ![s].onHand[p] = onHand[p],
                            ![s].reserved[p] = reserved[p]]
  /\ UNCHANGED vars

\* stock_product writes the stock it read plus what has arrived.  A first
\* receipt inserts the row, which product_id lets only one session do.
Receive(s) ==
  LET p     == job[s].product
      total == cache[s].onHand[p] + job[s].quantity
  IN  /\ step[s] = "receive"
      /\ total <= MaxStock
      /\ Lock(s, {StockRow(p)})
      /\ cache[s].onHand[p] = 0 => onHand[p] = 0
      /\ reserved[p] <= total
      /\ cache' = [cache EXCEPT ![s].onHand[p] = total]
      /\ Goto(s, "orders")
      /\ UNCHANGED <<vars, job, alone>>

-----------------------------------------------------------------------------
(***************************************************************************)
(* allocate_approved_orders: three selects without locks, then the loops.  *)
(***************************************************************************)
\* Mutant of SelectOrders: the approval is not flushed before the select.
SelectOrdersUnflushed(s) ==
  /\ step[s] = "orders"
  /\ cache' = [cache EXCEPT ![s].queue = Approved]
  /\ Goto(s, "stock")
  /\ UNCHANGED <<vars, job, holds, alone>>

SelectOrders(s) ==
  /\ step[s] = "orders"
  /\ cache' = [cache EXCEPT ![s].queue =
                 {o \in Orders : StatusIn(s)[o] = "approved"}]
  /\ Goto(s, "stock")
  /\ UNCHANGED <<vars, job, holds, alone>>

\* The row of the product that s has received is in the session already.
SelectStock(s) ==
  LET Kept(p) == job[s].op = "stock" /\ job[s].product = p
  IN  /\ step[s] = "stock"
      /\ cache' = [cache EXCEPT
                     ![s].onHand   = [p \in Products |-> IF Kept(p) THEN @[p] ELSE onHand[p]],
                     ![s].reserved = [p \in Products |-> IF Kept(p) THEN @[p] ELSE reserved[p]]]
      /\ Goto(s, "reservations")
      /\ UNCHANGED <<vars, job, holds, alone>>

SelectReservations(s) ==
  /\ step[s] = "reservations"
  /\ cache' = [cache EXCEPT ![s].reservation = reservation]
  /\ Goto(s, "allocate")
  /\ UNCHANGED <<vars, job, holds, alone>>

\* The lines that the loops have yet to lock the stock row for.
LinesLeft(s) ==
  {l \in (cache[s].queue \X Products) \ cache[s].served :
     cache[s].reservation[l[1]][l[2]] < line[l[1]][l[2]] /\ cache[s].onHand[l[2]] > 0}

TakenBy(s, o, p) == AtMost(line[o][p] - cache[s].reservation[o][p],
                           cache[s].onHand[p] - cache[s].reserved[p])

\* The stock of p as it is, not as s has loaded it.
StockNow(s, p) == IF job[s].op = "stock" /\ job[s].product = p
                    THEN cache[s].onHand[p] ELSE onHand[p]

\* One line: the stock row is locked, and what is written is flushed.  A new
\* reservation row has to be the first of its line, an old one to be still
\* there, and ck_inventory_available to hold.
AllocateLine(s, o, p) ==
  LET taken == TakenBy(s, o, p)
  IN  /\ step[s] = "allocate"
      /\ <<o, p>> \in LinesLeft(s)
      /\ \A l \in LinesLeft(s) : ~Before(ApprovedIn(s), l[1], o)
      /\ Lock(s, {StockRow(p)})
      /\ IF taken = 0
           THEN cache' = [cache EXCEPT ![s].served = @ \cup {<<o, p>>}]
           ELSE /\ cache[s].reservation[o][p] = 0 <=> reservation[o][p] = 0
                /\ cache[s].reserved[p] + taken <= StockNow(s, p)
                /\ cache' = [cache EXCEPT ![s].served = @ \cup {<<o, p>>},
                                          ![s].rows = @ \cup {<<o, p>>},
                                          ![s].reserved[p] = @ + taken,
                                          ![s].reservation[o][p] = @ + taken]
      /\ UNCHANGED <<vars, step, job, alone>>

\* The orders that create_task_for_allocation has yet to lock.
OrdersLeft(s) ==
  {o \in cache[s].queue \ cache[s].looked :
     \/ PartialIn(s)[o]
     \/ \A p \in Products : cache[s].reservation[o][p] = line[o][p]}

\* The reservation rows of o, read again: those of s, and committed ones.
ReservedNow(s, o) ==
  [p \in Products |-> IF <<o, p>> \in cache[s].rows
                        THEN cache[s].reservation[o][p] ELSE reservation[o][p]]

\* Mutant of UnplannedBy: the tasks of other sessions are not subtracted.
UnplannedByLine(s, o) == ReservedNow(s, o)

UnplannedBy(s, o) == [p \in Products |-> Beyond(ReservedNow(s, o)[p], Planned(o, p))]

\* Mutant of TaskAllowed: an order selected as approved is taken to be so.
TaskAllowedAsSelected(s, o) ==
  ~PartialIn(s)[o] =>
    \A p \in Products : ReservedNow(s, o)[p] = line[o][p]

\* The checks of create_shipment on the order that has just been locked.
TaskAllowed(s, o) ==
  /\ StatusIn(s)[o] = "approved"
  /\ ~PartialIn(s)[o] =>
       \A p \in Products : /\ ReservedNow(s, o)[p] = line[o][p]
                           /\ UnplannedBy(s, o)[p] = line[o][p] - Planned(o, p)

\* Mutants of PlanTask: the orders of the queue are taken in any order; every
\* order of it gets a task for what it has.
PlanTaskAnyOrder(s, o) ==
  /\ step[s] = "allocate"
  /\ LinesLeft(s) = {}
  /\ o \in OrdersLeft(s)
  /\ Lock(s, {OrderRow(o)})
  /\ UnplannedBy(s, o) # Nothing => TaskAllowed(s, o)
  /\ cache' = [cache EXCEPT ![s].looked = @ \cup {o},
                            ![s].new[o] = UnplannedBy(s, o)]
  /\ UNCHANGED <<vars, step, job, alone>>

PlanTaskForAll(s, o) ==
  /\ step[s] = "allocate"
  /\ LinesLeft(s) = {}
  /\ o \in cache[s].queue \ cache[s].looked
  /\ Lock(s, {OrderRow(o)})
  /\ StatusIn(s)[o] = "approved"
  /\ cache' = [cache EXCEPT ![s].looked = @ \cup {o},
                            ![s].new[o] = UnplannedBy(s, o)]
  /\ UNCHANGED <<vars, step, job, alone>>

\* create_task_for_allocation for the next order of the queue.
PlanTask(s, o) ==
  /\ step[s] = "allocate"
  /\ LinesLeft(s) = {}
  /\ o \in OrdersLeft(s)
  /\ \A a \in OrdersLeft(s) : ~Before(ApprovedIn(s), a, o)
  /\ Lock(s, {OrderRow(o)})
  /\ UnplannedBy(s, o) # Nothing => TaskAllowed(s, o)
  /\ cache' = [cache EXCEPT ![s].looked = @ \cup {o},
                            ![s].new[o] = UnplannedBy(s, o)]
  /\ UNCHANGED <<vars, step, job, alone>>

\* The request that ran the automation commits.
CommitProcess(s) ==
  LET c == cache[s]
  IN  /\ step[s] = "allocate"
      /\ LinesLeft(s) = {} /\ OrdersLeft(s) = {}
      /\ status' = StatusIn(s) /\ partial' = PartialIn(s) /\ approvedAt' = ApprovedIn(s)
      /\ CommitStock(s)
      /\ tasks' = [o \in Orders |-> IF c.new[o] = Nothing THEN tasks[o]
                                     ELSE Append(tasks[o], NewTask(c.new[o]))]
      /\ End(s)
      /\ UNCHANGED <<line, requests>>

-----------------------------------------------------------------------------
\* advance_status, of a task that is not about to be ready: nothing else is
\* read, so it is one step.
AdvanceOpenTask(s, o, i) ==
  /\ step[s] = "idle"
  /\ Free(s, TaskRow(o, i))
  /\ tasks[o][i].status \in OpenStatus \ {"packing"}
  /\ tasks' = [tasks EXCEPT ![o][i].status = NextStatus[@]]
  /\ alone' = {}
  /\ UNCHANGED <<status, line, partial, approvedAt, stockVars, requests,
                 step, job, holds, cache>>

BeginLastAdvance(s, o, i) ==
  /\ tasks[o][i].status = "packing"
  /\ Begin(s, Advance(o, i), "siblings", {TaskRow(o, i)})
  /\ UNCHANGED <<vars, cache>>

\* The tasks of the order that s works on, as s sees them: its own one is
\* ready, the others are what is committed.
TasksIn(s) ==
  [tasks EXCEPT ![job[s].order][job[s].task].status = "ready_to_ship"]

\* Mutant of CompleteIn: open tasks count as well.
CompleteInTasks(s, o) ==
  \A p \in Products : Total(Ships(TasksIn(s)[o], p), DOMAIN tasks[o]) = line[o][p]

CompleteIn(s, o) ==
  LET ts    == TasksIn(s)[o]
      ready == {i \in DOMAIN ts : ts[i].status = "ready_to_ship"}
  IN  \A p \in Products : Total(Ships(ts, p), ready) = line[o][p]

\* _mark_order_ready_if_complete reads the order and its tasks without locks.
ReadSiblings(s) ==
  LET o == job[s].order
  IN  /\ step[s] = "siblings"
      /\ Goto(s, IF CompleteIn(s, o) /\ status[o] # "ready_to_ship"
                   THEN "mark" ELSE "commit")
      /\ UNCHANGED <<vars, job, holds, cache, alone>>

\* The order row is locked by its UPDATE, which does not look at its status.
CommitAdvance(s) ==
  LET o == job[s].order
  IN  /\ \/ step[s] = "commit" /\ UNCHANGED status
         \/ /\ step[s] = "mark"
            /\ Free(s, OrderRow(o))
            /\ status' = [status EXCEPT ![o] = "ready_to_ship"]
      /\ tasks' = TasksIn(s)
      /\ End(s)
      /\ UNCHANGED <<line, partial, approvedAt, stockVars, requests>>

-----------------------------------------------------------------------------
\* decide_change_request approves a cancellation: the order is locked and
\* its reservations are loaded.
BeginCancellation(s, o) ==
  /\ status[o] \notin {"draft", "pending_approval", "rejected"}
  /\ Begin(s, Cancel(o), "stop", {OrderRow(o)})
  /\ cache' = [cache EXCEPT ![s].reservation[o] = reservation[o]]
  /\ UNCHANGED vars

LiveTasks(o) == {TaskRow(o, i) : i \in {j \in DOMAIN tasks[o] : tasks[o][j].status # "cancelled"}}

\* Mutant of StopTasks: the tasks are updated without being locked first.
StopTasksUnlocked(s) ==
  /\ step[s] = "stop"
  /\ Goto(s, "counter")
  /\ UNCHANGED <<vars, job, holds, cache, alone>>

\* cancel_order_tasks locks every task that is not cancelled.
StopTasks(s) ==
  /\ step[s] = "stop"
  /\ Lock(s, LiveTasks(job[s].order))
  /\ Goto(s, "counter")
  /\ UNCHANGED <<vars, job, cache, alone>>

\* The lines that release_order_reservations has yet to go through.
LinesHeld(s) == {p \in Products : cache[s].reservation[job[s].order][p] > 0}

\* item.product.inventory_item is loaded, without a lock, for one line ...
ReadCounter(s, p) ==
  /\ step[s] = "counter"
  /\ p \in LinesHeld(s)
  /\ cache' = [cache EXCEPT ![s].reserved[p] = reserved[p],
                            ![s].served = {<<job[s].order, p>>}]
  /\ Goto(s, "release")
  /\ UNCHANGED <<vars, job, holds, alone>>

\* ... then locked, and its counter is written.
ReleaseLine(s, p) ==
  LET o    == job[s].order
      held == cache[s].reservation[o][p]
  IN  /\ step[s] = "release"
      /\ <<o, p>> \in cache[s].served
      /\ Lock(s, {StockRow(p)})
      /\ cache[s].reserved[p] >= held
      /\ cache[s].reserved[p] - held <= onHand[p]
      /\ cache' = [cache EXCEPT ![s].reserved[p] = @ - held,
                                ![s].reservation[o][p] = 0,
                                ![s].rows = @ \cup {<<o, p>>}]
      /\ Goto(s, "counter")
      /\ UNCHANGED <<vars, job, alone>>

CommitCancellation(s) ==
  /\ step[s] = "counter"
  /\ LinesHeld(s) = {}
  /\ CancelTasks(job[s].order)
  /\ CommitStock(s)
  /\ CancelStatus(job[s].order)
  /\ End(s)
  /\ UNCHANGED requests

-----------------------------------------------------------------------------
\* A check or a constraint refuses the request, PostgreSQL aborts it to break
\* a deadlock, or its connection or process is lost: nothing is committed.
RollBack(s) ==
  /\ step[s] # "idle"
  /\ End(s)
  /\ UNCHANGED vars

SessionNext ==
  \E s \in Sessions :
    \/ \E o \in Orders, allowPartial \in BOOLEAN, now \in 0..MaxTime :
         BeginApproval(s, o, allowPartial, now)
    \/ \E p \in Products, quantity \in 1..MaxReceipt : BeginReceipt(s, p, quantity)
    \/ Receive(s)
    \/ SelectOrders(s)
    \/ SelectStock(s)
    \/ SelectReservations(s)
    \/ \E o \in Orders, p \in Products : AllocateLine(s, o, p)
    \/ \E o \in Orders : PlanTask(s, o)
    \/ CommitProcess(s)
    \/ \E o \in Orders : \E i \in DOMAIN tasks[o] :
         AdvanceOpenTask(s, o, i) \/ BeginLastAdvance(s, o, i)
    \/ ReadSiblings(s)
    \/ CommitAdvance(s)
    \/ \E o \in Orders : BeginCancellation(s, o)
    \/ StopTasks(s)
    \/ \E p \in Products : ReadCounter(s, p) \/ ReleaseLine(s, p)
    \/ CommitCancellation(s)
    \/ RollBack(s)

SessionSpec == SessionInit /\ [][SessionNext]_allVars

-----------------------------------------------------------------------------
\* No line is promised or put into tasks beyond what was ordered, whatever
\* sessions overlap, although the counters may drift from the rows.
LinesNotExceeded ==
  \A o \in Orders, p \in Products :
    reservation[o][p] <= line[o][p] /\ Planned(o, p) <= line[o][p]

\* An order is only ready when ready tasks cover every line of it.
ReadyMeansComplete ==
  \A o \in Orders : status[o] = "ready_to_ship" => Complete(o)

\* Once an order is cancelled its status and its tasks never change, however
\* far another session had come with it.
CancelledWorkIsFinal ==
  [][\A o \in Orders :
       status[o] = "cancelled" =>
         status'[o] = "cancelled" /\ tasks'[o] = tasks[o]]_allVars

\* A request that no other has overlapped does what its one-step action in
\* Fulfillment does, from whatever rows earlier overlaps have left.
AloneIsAtomic ==
  [][\A s \in alone :
       step[s] # "idle" /\ step'[s] = "idle" /\ vars' # vars =>
         \/ \E o \in Orders, allowPartial \in BOOLEAN, now \in 0..MaxTime :
              /\ job[s] = Approve(o, allowPartial, now)
              /\ ApproveOrder(o, allowPartial, now)
         \/ \E p \in Products, quantity \in 1..MaxReceipt :
              job[s] = Stock(p, quantity) /\ StockProduct(p, quantity)
         \/ \E o \in Orders : \E i \in DOMAIN tasks[o] :
              job[s] = Advance(o, i) /\ AdvanceStatus(o, i)
         \/ \E o \in Orders : job[s] = Cancel(o) /\ CancelOrder(o)]_allVars

\* The order and task rows that s may be waiting for.
Awaits(s) ==
  CASE step[s] = "mark" -> {OrderRow(job[s].order)}
    [] step[s] = "stop" -> LiveTasks(job[s].order)
    [] step[s] = "allocate" /\ LinesLeft(s) = {} ->
         {OrderRow(o) : o \in {a \in OrdersLeft(s) :
            \A b \in OrdersLeft(s) : ~Before(ApprovedIn(s), b, a)}}
    [] OTHER -> {}

\* Order and task rows are locked in an order that cannot deadlock, except
\* that a cancellation takes the order before its tasks and a worker's last
\* advance the task before its order.  (Stock rows do deadlock, in receipts
\* of different products.)
OnlyCancellationDeadlocks ==
  \A s \in Sessions : \A t \in Sessions \ {s} :
    Awaits(s) \cap holds[t] # {} /\ Awaits(t) \cap holds[s] # {} =>
      "cancel" \in {job[s].op, job[t].op}

\* The stock on hand covers what the reservations promise.
StockCoversReservations ==
  \A p \in Products :
    Total([o \in Orders |-> reservation[o][p]], Orders) <= onHand[p]

\* An order whose ready tasks cover every line is ready_to_ship.
CompleteMeansReady ==
  \A o \in Orders :
    tasks[o] # <<>> /\ Complete(o) => status[o] # "approved"
=============================================================================
