# Residential clothing automation: a TLA+ verification project

The program is a FastAPI service over PostgreSQL (`src/backend`) by which a small
clothing provider takes orders for residents of care facilities, gets them
approved, reserves stock for them and has a warehouse pack them. This directory
models the parts of it that carry state, model-checks them with TLC and proves
the core of them with TLAPS.

Run TLC as `tlc -config X.cfg M` and the proofs as `tlapm M.tla`, in this directory.

## 1. Inventory: the system and its parts

| part | state | operations (source) | modelled in |
|---|---|---|---|
| Draft orders, budget, invoice | `orders`, `order_items`, `invoices`; catalog prices | `OrderRepository.add`, `add_item_to_draft`, `confirm_draft` (repositories.py:76-193), rules of `orders.py`, `pricing.py` | `Orders` |
| Approval, change requests, cancellation | `orders.status`, `approved_at`, `partial_fulfillment_approved`, `change_requests` | `OrderWorkflowRepository` (repositories.py:397-538) | `Orders`, `Fulfillment`, `FulfillmentSessions` |
| Inventory and allocation | `inventory_items` (on hand, reserved), `inventory_reservations` | `InventoryRepository` (repositories.py:264-394), `FulfillmentAutomation.process` (workflows.py:19-40) | `Fulfillment`, `Allocation`, `AllocationLoop`, `FulfillmentSessions` |
| Fulfillment tasks | `shipments`, `shipment_items` | `ShipmentRepository` (repositories.py:541-699) | `Fulfillment`, `FulfillmentSessions` |
| Idempotency and retries | `idempotency_records` | `reliability_middleware` (api.py:220-328), `IdempotencyRepository`, `retry_transient_database_operation` (reliability.py) | `Idempotency`, `OnceOnly` |
| In-memory inventory | dictionaries of `inventory.py` | `Inventory` (used by no endpoint) | `DomainInventory` |
| Operations page | panels and inputs of the page, `context` in localStorage | handlers of `static/app.js` | `Workspace` |
| Catalog, people, HTTP formatting, migrations, deployment | single rows, or none | create and read endpoints, alembic, Docker | not modelled (section 8) |

How they interact. Every request is one database transaction: `get_session`
(api.py:194-205) commits when the endpoint returns and rolls back when it raises.
Approving an order and receiving stock call `FulfillmentAutomation.process` in the same
transaction, which first allocates stock to all approved orders and then cuts
tasks. A task that becomes `ready_to_ship` may make its order ready; an approved
cancellation stops the tasks, releases the stock and ends the order. The
idempotency middleware wraps every POST and uses transactions of its own, before
and after that of the endpoint. The page calls the endpoints from asynchronous handlers, one
request after the other within a handler and several handlers at once.

What is hard:

* one counter, many writers: `reserved_quantity` is kept by hand beside the
  reservation rows it counts, in three methods;
* automatic and manual reservations and tasks over the same lines, partial and
  withheld orders, receipts in between, cancellation at any point;
* requests that read without locks and write later, in concurrent sessions; counters
  computed from objects that were loaded before their row was locked;
* rows locked in different orders by cancellation, warehouse work and the automation;
* two transactions for one keyed request, with a process that may die, a commit
  whose answer is lost and a client that sends it again in between;
* a page whose panels are filled by answers that may be late, lost or out of order.

What makes each part correct:

* stock: the counter equals its rows and never exceeds the stock; promises are only
  taken back by cancellation; earlier approvals are served first; nothing is left idle;
* tasks: never more than is reserved, withheld orders whole, an order ready exactly when
  its ready tasks cover it, and ready in the end; nothing moves after cancellation;
* orders: submitted within budget and positive, the invoice is for the items that
  are there, prices locked, submitted and decided once;
* keys: at most one application per key, every answer a replay of the original,
  and a key that was taken is settled;
* page: what it shows is true once it is quiet, and a task moves as the button said.

`PROJECT.json` lists the hazards line by line, with the properties that cover each.

## 2. Modules

| module | what it is |
|---|---|
| `Quantities` | totals of quantities: the number of units, counted. No recursion, so that facts about it are provable |
| `Allocation` | the closed form of one product's allocation: `Grant` |
| `AllocationLoop` | the nested loops of `allocate_approved_orders`, one iteration per step, shown to compute `Grant` |
| `StockPromises` | abstract specification: what the inventory promises to orders |
| `Fulfillment` | the core: orders from submission to ready, stock, tasks, change requests; implements `StockPromises` |
| `FulfillmentSessions` | the requests of `Fulfillment` as overlapping database sessions, statement by statement, over the same rows |
| `DomainInventory` | the allocation of inventory.py, compared with the loops of `AllocationLoop` |
| `Orders` | one order in concurrent sessions, from draft to decision |
| `OnceOnly` | abstract specification: what a key promises to the calls that carry it |
| `Idempotency` | keyed POST calls, the middleware, the records, and faults; implements `OnceOnly` |
| `Workspace` | the operations page in one window, its requests and their answers |
| `AllocationProofs`, `AllocationLoopProofs`, `FulfillmentProofs`, `FulfillmentTaskProofs`, `FulfillmentSessionProofs`, `IdempotencyProofs`, `OrdersProofs`, `WorkspaceProofs` | theorems |
| `MC*` | constants, carts and symmetry of the runs |

Definitions marked "Mutant of X" are not part of any specification. Each is a plausible
bug; substituted for X it makes one of the checked properties fail, which shows that
the property depends on the code.

### Fulfillment and the code

One action is one request, the whole of it. A request that a check refuses is
rolled back, so it is a stuttering step. `status`, `line`, `partial`, `approvedAt`,
`onHand`, `reserved`, `reservation`, `tasks`, `requests` are the columns of the
tables named in the module. An order has one line per product (`Order.add_item`
merges them), so a line is a number indexed by product, 0 when it is missing; likewise a
reservation of 0 is a missing row, because the code never stores a 0.

`ApproveOrder` and `StockProduct` contain `Process`, with its two parts in the order of
workflows.py: `AllocateApprovedOrders` gives every line its `Grant` at once (that the
loops compute this is what `AllocationLoop` is for), and `CreateTasks` appends a task
for all that is reserved and not yet planned. The checks that `create_shipment`
makes on such a task are not in `CreateTasks`; by `TasksWithinReservation` and `WithheldShipsWhole` they
cannot fail, otherwise the request would be rolled back. `Submit` stands for filling and confirming a
draft, whose details are in `Orders`; the validation that `approve_order` repeats is there as
well, so here any submitted order may be approved. `Reserve`, `CreateShipment`, `RequestChange` and `DecideChangeRequest`
are repository methods without an endpoint in this version (a `withdrawn` change request
is only a value of the enumeration). Approval times are arbitrary: the clock may repeat or go back.

### FulfillmentSessions and the code

The variables of `Fulfillment` are here the committed rows; a session has a step, the request
it serves, the row locks it holds and its cache. Three facts about the libraries carry the model:

* PostgreSQL runs READ COMMITTED (nothing in database.py changes that): a plain select sees
  what is committed when it runs, FOR UPDATE and UPDATE take the row lock and keep it to the end;
* SQLAlchemy's identity map: a select that returns a row which the session holds already does
  not refresh the object, even when it is FOR UPDATE, unless it says `populate_existing`, and none
  does. So `allocate_approved_orders` locks the stock row (repositories.py:337) and goes on with the
  `reserved_quantity` it loaded before (lines 315-318), and writes a value, not a difference;
* the map refers to objects weakly: the orders of `allocate_approved_orders` are gone when it
  returns, and `create_task_for_allocation` locks and loads them afresh.

`CommitProcess`, `CommitAdvance` and `CommitCancellation` write what the session has computed.
What the database refuses is a guard: `ck_inventory_available`, the one reservation row per line,
an update of a row that has gone. `RollBack` may happen at any step: it stands for such a refusal, for
the victim of a deadlock and for a lost connection. An advance that does not make a task ready touches
one row and is one step. Left out: `reserve` and `create_shipment` (no endpoint calls
them), change requests (a cancellation may be decided for any order that was approved), drafts.

`alone` is a history variable: the session whose request no other has overlapped. With it
`AloneIsAtomic` ties this module to `Fulfillment`: such a request commits exactly what its
one-step action there does, from any rows, including those that earlier overlaps have spoilt.

### DomainInventory and the code

`AllocateInMemory` is `Inventory.allocate_approved_orders`: `SortedByApproval` is the stable sort, `Turns` the loop over
the sorted orders as a recursive function, `ReserveOrder` the turn of one order. `DomainAgrees`
runs it on every start of `AllocationLoop` and every listing of its queue and compares the result with
the end of the loops. The in-memory sort has no second key, so ties stay as listed; lists with ties
in another order than by id are left out, since the two do differ there.

### Orders and the code

A session's request runs in three steps: it selects the order row, then the items with
their products, then writes and commits. Under READ COMMITTED each select sees what
was committed when it ran. Approval and rejection take the order row FOR UPDATE at the first step
and hold it to the end. The write steps keep what the database enforces: a new item
needs a free position (`uq_order_items_position`) and, by its foreign key, shares the
order row, which waits for the Boss's lock; a status update waits for it too; a second
invoice is refused by the unique `order_id`. `RollBack` may happen at any step.
Amounts are whole cents.

### Idempotency and the code

A call is one POST with a key, served by a process of its own. `Select`, `Insert`,
`InsertRefused` and `Reread` are `begin`, a transaction each; `Execute` is the endpoint's transaction;
`Complete` is `complete`. `BeginFails` covers any database error in `begin`, retried a bounded
number of times. `Faults` adds a process that dies, a commit whose answer is lost, and an
outcome that cannot be recorded. `commitFirst` says when the commit in `get_session` runs:
requirements.txt admits FastAPI 0.115 and later; up to 0.117 the code after `yield` runs
before the response is handed to the middleware, from 0.118 after it (`CommitLate`).
POSTs without a key bypass all of this, and a malformed key is refused before it.

`KeysAreOnceOnly` maps `OnceOnly`'s outcome of a key to the response of the call that has
executed it, the performed operations to the committed ones and what was told to the answers that are outcomes.
A refusal (409, 503) is not an outcome.

### Workspace and the code

An order is shown as a number that grows with each change of it; of the tasks of an order one is
modelled. `call[h]` is a handler between two awaits: `Submit`, `Reject`, `LoadTasks`, `Click` and
`Restore` start one, the `Serve...` actions are the server, and `ShowOrder`, `ShowAdvanced`,
`ShowTasks` and `ShowError` run it from one await to the next: the first shows an order
(`setOrderSummary`, and after an approval goes on to the tasks), the second and third are the two halves
of `loadTasks` after an advance. A `Click` sends the status after the one
on the card, which `advance_status` accepts only from that status. Every answer may be lost, before or
after the request was served; other windows change orders and tasks at any time (`Elsewhere`).

The commit of `get_session` comes before the answer or after it, depending on the installed FastAPI (see
Idempotency above). Therefore `ServeCreate`, `ServeChange` and `ServeAdvance` only open a `transaction`, with what it
will change and has locked, and answer; `Commit` and `CommitFails` are steps of their own, at any later
time: before the answer arrives, after it, or after the handler's next requests. No choice between the releases is
needed: those that commit first have the behaviours in which each commit comes before its answer is shown. A row that an
open transaction has locked makes others wait (`TaskFree`, `Free`); plain selects (`ServeOrder`, `ServeTasks`) do not wait and
read what is committed. Bound: a handler stands for a new request only when the transaction of its last one has ended.

`disturbed` says when the page cannot be expected to be right: requests overlapped, one
was lost, the later request of a handler failed, somebody else changed something, the field with the order
of the cards was emptied under them, a request was served before the commit of an earlier one that it depends on, or a commit
failed after its answer. The last two need a FastAPI that answers first. `ScreenIsTrue` holds when nothing of this has happened, and then what
is shown is what the rows are once the open transactions have committed (`Coming`, `TaskComing`); that all
forms and buttons work again holds always. `MovedAsShown` is about all workers at once, disturbed or not: a move that was told is
made when its request commits, and only a failed commit takes it back.

## 3. Runs

| run | cfg | states | shows |
|---|---|---|---|
| alloc_loop | MCAllocationLoop | 345,600 | the loops compute `Grant` from every state; no flush inside them breaks `ck_inventory_available`; the in-memory allocation ends where they end |
| fulfillment | MCFulfillment | 835,000 | stock, tasks and status; priority, no idle stock; `CancelledIsFinal`; implements `StockPromises`; a planned order becomes ready or is cancelled |
| sessions | MCSessions | 2.51 million | what survives every overlap of two sessions; a request that nothing overlaps is atomic |
| sessions_stock | MCSessionsStock | violation | two approvals at once reserve one unit twice |
| sessions_ready | MCSessionsReady | violation | the last two tasks finished at once leave the order approved |
| idempotency | MCIdempotency | 805,000 | one application per key, replays, under every fault; implements `OnceOnly` |
| idempotency_live | MCIdempotencyLive | 295,000 | without faults: keys are settled, "in progress" is true |
| idempotency_crash | MCIdempotencyCrash | violation | a crash makes "in progress" untrue for good |
| orders | MCOrders | 1.75 million | budget, invoice and quantities, requests one at a time |
| orders_races | MCOrdersRaces | 366,000 | what survives two racing sessions |
| orders_budget | MCOrdersBudget | violation | an add racing a confirmation breaks the budget |
| workspace | MCWorkspace | 3.86 million | the page is true when it is quiet; tasks move as the buttons said, whenever the commits come |

Deadlock is not checked: every model may stop (all orders decided, all calls answered,
all bounds reached).

Bounds. *fulfillment*: two orders compete for one product while one of them needs a second;
carts of 2, of 1+1 and of nothing; receipts of 1 or 2, so that lines are served in parts and in
several runs of the automation; equal and different approval times; one change request per order, which is enough for
a cancellation at any point, but not for a second request about a cancelled order: that nothing touches the order then
either is covered by the theorem `CancelledCorrect` alone. The CONSTRAINT `SmallWarehouse` leaves out what only repeats it (two late approvals are two early
ones) and keeps the stock to three units in all, less than two orders of two want; without it the instance has 1.96 million states and was checked once as well. Priority among three orders is in *alloc_loop* and proved by
`GrantPriority` and `PriorityCorrect`. *sessions*: two sessions, an order of two units of p1 and one of a unit of each product, two
units of stock in all, arriving one by one: enough for partial and whole reservations, for orders with two tasks, and for a collision on one
row or on two; approval times are equal there, since the order of the queue is `Fulfillment`'s matter. *alloc_loop* starts
from every consistent state within lines of 2 and stock of 3. *idempotency*: three calls,
the first to run, one that races it and one that comes late; two keys and two
requests for reuse of a key. Two attempts instead of three in this run: a second retry
repeats the states of the first (*idempotency_live* has three). *orders*: prices 0, 1, 2 with budget 3 and shipping 0
or 1 reach every limit at equality and one above. *orders_races* has one product, which is
where sessions collide; the second product is in *orders*. *workspace*: two handlers at once
(one more would only wait as well), two orders of two states and a task of three statuses, one of them moved at a time, and, once the page is disturbed,
one order only (CONSTRAINT `SmallPage`).

Two properties hold only without concurrency and are in *orders* for that reason:
`InvoiceMatchesOrder` and `QuantitiesAddUp` (with two sessions, two additions to one
line may both write the quantity they read plus their own, although
docs/business-process.md:36 has the line's quantity increase). Section 5 says which overlaps it takes: the theorems about them
are for any number of sessions. Likewise `StockLedger`, `OnlyLiveOrdersHoldStock` and
`ReadyExactlyWhenComplete` hold in *fulfillment* and not in *sessions*, which checks what is left of them:
`LinesNotExceeded`, `OpenTaskMeansApproved`, `ReadyMeansComplete`.

## 4. Fairness

`Fulfillment!FairSpec` has weak fairness, per order, of the advance of some open task: warehouse staff
keep working on what they have. Nobody has to approve, deliver or
cancel anything. `Idempotency!FairSpec` has weak fairness of serving each call: a process that
lives goes on. It is used only with `Faults = {}`: no process dies, no answer of a commit is lost and every outcome is recorded; with crashes the property is false, which is the finding.

## 5. What is proved

For all values of the constants (any finite set of orders, any products, carts and bounds):

* `AllocationProofs`: `Total` is zero on the empty set, adds up element by element
  (`TotalAdd`), is additive over the pointwise sum of functions (`TotalSum`), is monotone; grants stay within the stock (`GrantsWithinStock`), use it up or
  satisfy everyone (`GrantsUseStock`), and follow priority (`GrantPriority`). The argument lays
  the demands of the queue end to end in queue order (`Serial`) and maps granted units injectively
  into the free units.
* `AllocationLoopProofs`: the loops compute `Grant` (`LoopIsGrant`), and no flush inside them is refused (`LoopFlushes`). The
  invariant says, for each line that has been served, that it has its grant, and for each product that
  what is reserved is what was reserved plus the grants so far. And `DomainCorrect`: the in-memory allocation ends where the loops end. The sort puts
  on place k the order that k - 1 others come before; that every place is taken by exactly one order is a counting argument (`PlaceFacts`), and what the recursion
  computes is shown by induction (`UpTo`), from the library's fact that the finite subsets of a set are well-founded.
* `FulfillmentProofs`: `TypeCorrect`, `LedgerCorrect`, `HoldersCorrect`, from one
  inductive invariant (`LedgerInv`). The ledger alone is not inductive: release subtracts a
  reservation and needs to know that it was counted, and allocation needs grants to be within
  the free stock.
* `FulfillmentTaskProofs`: `TasksCorrect`, `WithheldCorrect`, `OpenTasksCorrect`,
  `ReadyCorrect` from `FulfillmentInv`, which adds to the ledger what relates lines,
  reservations, planned quantities and task statuses (for example that an order that was never approved has no
  task, and that a ready order has only ready tasks, because its tasks never exceed its
  lines); then the action properties `PriorityCorrect`, `NoIdleStockCorrect`, `CancelledCorrect`; and
  `PromisesRefined`, that `Fulfillment` implements `StockPromises`.
* `IdempotencyProofs`: `AppliedOnceCorrect`, `ReplayCorrect`, `SuccessCorrect`, `OutcomeCorrect` for any
  calls, keys, attempts and faults, from `KeyInv`: of the calls with one key at most one gets past `begin` (`OneOwner`), the
  record is the one made for it, recorded outcomes and final answers are its response, and only it commits. None of the conclusions
  is inductive without the owner, who is chosen by the unique key at `Insert` and by nothing later. Then
  `OnceRefined`: every step of `Idempotency` is a step of `OnceOnly` or changes nothing there.
  `InProgressCorrect` needs a hypothesis, because a crash refutes its conclusion (finding 1): `NothingAbandoned`, that no call which has made a record
  dies, is not told that it made it, or fails to complete it. Then every record that is processing is being served (`RecordServed`), through all
  other faults: endpoints that fail, commits that are late or whose answers are lost, attempts of `begin` that are given up, and calls that die before they own a record.
* `OrdersProofs`: for any number of racing sessions `InvoiceBudgetCorrect`, `DecidedOnceCorrect` and `PriceLockedCorrect`,
  from `OrderInv`: a decision holds the order row, so what it has seen of the status is true (`DecisionHolds`);
  lines never go away, so that an equal number of them is the same lines (`SeenLinesRemain`); an order has its invoice exactly when it is no draft.
  What races refute (finding 2) is proved of the runs without the one overlap it takes, again for any number of sessions: `InvoiceMatchCorrect` and
  `OrderBudgetCorrect` as long as no item is added while a confirmation is under way (`ConfirmedAlone`), `QuantitiesCorrect`
  as long as no two sessions add the same product at once (`AddedAlone`). The invariants say that an add that saw a draft adds to a draft, that a confirmation has
  seen the items there are (`InvoiceInv`), and that an add has seen the line of its product (`QuantityInv`).
* `FulfillmentSessionProofs`: `SessionTypesCorrect`, `SessionLinesCorrect`, `SessionWithheldCorrect`, `SessionOpenTasksCorrect`, `SessionReadyCorrect`,
  `SessionCancelledCorrect` and `DeadlockCorrect`, for any number of sessions, from `SessionsInv`. A conclusion such as "a cancelled order keeps its cancelled tasks" is not inductive: a session that
  selected the order before its cancellation will write later. The invariant therefore says what each session at each step has locked (`JobInv`) and which of its cached rows are
  still the committed ones because of that (`StockInv`, `PlanInv`, `MarkInv`, `QueueInv`); that no row is locked twice (`Exclusive`); and, per order, what is committed of its lines, tasks and status
  (`OrderInv`). The step lemmas have two halves: what the session that moves makes of its own facts, and that it leaves the facts of the others alone, because it writes only rows that it has
  locked (`Kept`). `DeadlockCorrect` follows from the order in which requests take their locks.
  `AloneCorrect` is the refinement behind `AloneIsAtomic`: from `AloneInv` (the selects of a session that nobody overlaps have found the committed rows; its loop has given each line it has been through what `Grant` says; the tasks it
  has planned are the unplanned reservations; what it has released is what it held) its commit is the one-step action of `Fulfillment`, with the same totals (`GrantsTotal`).
* `WorkspaceProofs`: `WorkspaceTypesCorrect`, `MovesCorrect` and `ScreenCorrect`, for any number of orders, handlers and statuses, from `WorkspaceInv`, which relates
  calls to the handlers that wait for them (`CallInv`), open transactions to the tasks that they have locked (`LockInv`), requests to move a task to what the button had said and what the database has made of them or holds locked for them (`MoveInv`), and what is on the page, or still on its way to it,
  to the database and what is about to be committed to it (`PageInv`, `ScreenInv`). Two told moves of one task differ because the row is locked until the first commits: whoever is served later finds the status it left.
  A page that waits for nothing is right only because of what it was right about while it was waiting.

Assumptions are the named ASSUMEs of the modules: sets are finite where totals are taken,
bounds and carts are natural numbers, orders are natural numbers (which stand for ids and their order), names of
sessions, calls and the like differ from the words that mean nobody.

## 6. What is only model-checked

`PlannedOrderBecomesReady` and `KeyIsSettled`: liveness under weak fairness needs ENABLED, which the provers do not handle. Every other property of a passing
run is stated by a theorem. `InProgressIsTrue`, `InvoiceMatchesOrder`, `OrderWithinBudget` and `QuantitiesAddUp` are proved under the hypotheses of section 5, since the code does not keep them without.
That `Total` is the sum that the code adds up is checked on small instances (`TotalIsTheSum` of `MCAllocationLoop`); `TotalEmpty` and `TotalAdd` prove the two equations of that sum.

## 7. Findings

1. *A crash makes a key unusable* (run `idempotency_crash`). `begin` commits the
   record before the endpoint runs. If the process dies before `complete`, every retry is
   answered 409 "still processing", and nothing ever cleans the record up, although the error is
   documented as another request still executing (reliability.py:85) and callers are told that they can safely
   retry (docs/reliability.md:31-34). The same happens when the answer to the commit of `begin` is lost:
   the retry meets its own record.
2. *An order may exceed its budget* (run `orders_budget`). An item added while the draft is being
   confirmed is neither validated nor invoiced: neither request locks the order.
3. *One unit is reserved twice* (run `sessions_stock`). Two concurrent approvals load
   `reserved_quantity` before either locks the row, and each writes what it read plus its own.
   The counter and the check constraint are content with 1, and two orders hold a reservation of the
   only unit: inventory.py:3 says a reservation promises available stock. `populate_existing` on
   the locking select (repositories.py:337-341) would refresh the object.
4. *An order of two ready tasks stays approved* (run `sessions_ready`). Two workers finish the last two tasks at
   once; each session sees the other task still in packing (repositories.py:685-692), and nothing looks again.

Worth knowing, though no document says otherwise: a transient failure (a 500) is replayed for ever under its key; a
commit whose answer is lost is recorded as failed although it was applied; with FastAPI 0.118 or later a
success may be recorded and replayed whose commit then fails (`SuccessIsCommitted` is therefore stated for
`commitFirst`); stock released by a cancellation waits for the next approval or receipt; two concurrent receipts of one product may count
as one (repositories.py:274); an order that is cancelled while an automation runs may be given stock that nobody releases; receipts and
approvals lock stock rows in the order of orders and lines, so that they may deadlock, and a cancellation may with a worker's last
advance, in which case PostgreSQL aborts one of the two requests. On the page: saving a facility, a user or a resident, or clearing the saved ids, may empty the
field that names the order of the cards (app.js:34), and a click on a card then moves its task, reports an error and leaves the old card
(app.js:249-256); with FastAPI 0.118 or later the page may load the tasks and the order before the commit of the
advance or approval that it has just announced and so show old rows as new (app.js:249-252, 330-334), or announce a move that is then rolled back, which another worker makes again; overlapping loads append their cards to one list; the button "Refresh catalog" (index.html:105) has no handler;
each click has a key of its own, so a receipt that is sent again because its answer was lost is received twice.

## 8. Not modelled, and why

* Create and read endpoints of the catalog, facilities, residents and users: single-row
  inserts and reads. Role checks of actors: guards on data that no modelled request changes.
* Rounding of money: amounts are cents already when they reach the modelled code.
* The catalog table of the page and its forms for people, products and stock, but for what they do to the remembered ids:
  each shows the answer to one request.
* HTTP formatting and validation, migrations, deployment and CI: no state of the system.
* `stock_product` of inventory.py (it adds two numbers) and `remove_item` of orders.py (nothing calls it).

## 9. Plan

Done: all modules of section 2, and theorems for every safety property of the passing runs.

1. The hypotheses of `OrdersProofs` sharpened to the steps that collide: an add that commits between the select of the items and the commit of a confirmation, instead of requests that overlap.
2. A theorem about the stock in `FulfillmentSessions` (`StockLedger`) as long as no two automations overlap, as `ConfirmedAlone` is for `Orders`.
