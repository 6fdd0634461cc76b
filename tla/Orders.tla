------------------------------- MODULE Orders -------------------------------
(***************************************************************************)
(* One order from its draft to the Boss's decision: OrderRepository and    *)
(* OrderWorkflowRepository over the domain rules of orders.py.  Requests   *)
(* run in concurrent database sessions.  Each first selects the order row, *)
(* then its items with their products (two statements, which under READ    *)
(* COMMITTED may see different commits), checks what it has seen, and      *)
(* writes and commits.  Only the Boss's decisions lock the order row.      *)
(*                                                                         *)
(* Orders never touch each other's rows here, so one order is enough.      *)
(* Amounts are whole cents (money() of an amount that is already in cents  *)
(* is that amount).  line[p].quantity is 0 when the draft has no line for  *)
(* product p.                                                              *)
(***************************************************************************)
EXTENDS Quantities

CONSTANTS
  Sessions, Products,
  Prices,       \* prices of the catalog
  Budgets, Shippings,
  MaxQuantity   \* bound on the quantity of a line

ASSUME ProductsAssumption == IsFiniteSet(Products)
ASSUME AmountsAssumption ==
  Prices \subseteq Nat /\ Budgets \subseteq Nat /\ Shippings \subseteq Nat
ASSUME QuantityAssumption == MaxQuantity \in Nat
ASSUME SessionsAssumption == "free" \notin Sessions

VARIABLES
  orderType,  \* OrderModel.order_type
  budget,     \* OrderModel.budget_amount
  status,     \* OrderModel.status
  line,       \* the order's items: quantity and locked unit price
  invoice,    \* the order's invoice row
  catalog,    \* the products: unit price and is_active
  lock,       \* the session that holds the order row FOR UPDATE
  step,       \* where the request of each session is
  request,    \* what each session was asked to do
  seen        \* what its selects returned

order == <<orderType, budget, status, line, invoice>>
vars == <<order, catalog, lock, step, request, seen>>

-----------------------------------------------------------------------------
OrderType == {"normal", "donation", "compensatory"}
OrderStatus == {"draft", "pending_approval", "approved", "rejected"}

Line == [quantity : Nat, price : Nat]
NoLine == [quantity |-> 0, price |-> 0]
NoLines == [p \in Products |-> NoLine]

Invoice == [issued : BOOLEAN, items : Nat, shipping : Nat]
NoInvoice == [issued |-> FALSE, items |-> 0, shipping |-> 0]

Added(p, q)  == [op |-> "add", product |-> p, quantity |-> q]
Confirmed(c) == [op |-> "confirm", shipping |-> c]
Decided(d)   == [op |-> d]
NoRequest    == [op |-> "none"]

Decision == {"approve", "reject"}
Requests == {Added(p, q) : p \in Products, q \in 1..MaxQuantity}
              \cup {Confirmed(c) : c \in Shippings}
              \cup {Decided(d) : d \in Decision}

Unseen == [status |-> "draft", line |-> NoLines, active |-> {}]
Seen == [status : OrderStatus, line : [Products -> Line], active : SUBSET Products]

TypeOK ==
  /\ orderType \in OrderType
  /\ budget \in Nat
  /\ status \in OrderStatus
  /\ line \in [Products -> Line]
  /\ invoice \in Invoice
  /\ catalog \in [Products -> [price : Prices, active : BOOLEAN]]
  /\ lock \in Sessions \cup {"free"}
  /\ step \in [Sessions -> {"idle", "items", "write"}]
  /\ request \in [Sessions -> Requests \cup {NoRequest}]
  /\ seen \in [Sessions -> Seen]

\* An order has been created: an empty draft with a budget of its own.
Init ==
  /\ orderType \in OrderType
  /\ budget \in Budgets
  /\ status = "draft"
  /\ line = NoLines
  /\ invoice = NoInvoice
  /\ catalog \in [Products -> [price : Prices, active : {TRUE}]]
  /\ lock = "free"
  /\ step = [s \in Sessions |-> "idle"]
  /\ request = [s \in Sessions |-> NoRequest]
  /\ seen = [s \in Sessions |-> Unseen]

-----------------------------------------------------------------------------
Lines(ln) == {p \in Products : ln[p].quantity > 0}

\* calculate_item_subtotal over the line subtotals
Subtotal(ln) ==
  Total([p \in Products |-> ln[p].quantity * ln[p].price], Products)

\* Mutant of ValidForSubmission: the budget is for the items alone.
ValidWithoutShipping(s, shipping) ==
  /\ Lines(seen[s].line) \subseteq seen[s].active
  /\ Subtotal(seen[s].line) <= budget
  /\ orderType = "normal" => Lines(seen[s].line) # {}

\* validate_order_for_submission, on the order as session s has seen it
ValidForSubmission(s, shipping) ==
  /\ Lines(seen[s].line) \subseteq seen[s].active
  /\ Subtotal(seen[s].line) + shipping <= budget
  /\ orderType = "normal" => /\ Lines(seen[s].line) # {}
                             /\ Subtotal(seen[s].line) + shipping > 0

\* The request of s has committed or rolled back.
Done(s) ==
  /\ step' = [step EXCEPT ![s] = "idle"]
  /\ request' = [request EXCEPT ![s] = NoRequest]
  /\ seen' = [seen EXCEPT ![s] = Unseen]
  /\ lock' = IF lock = s THEN "free" ELSE lock

Writes(s, op) ==
  /\ step[s] = "write"
  /\ request[s].op = op
  /\ Done(s)

-----------------------------------------------------------------------------
\* A request arrives and selects the order row; the Boss's decisions wait for
\* its lock.
ReadOrder(s, r) ==
  /\ step[s] = "idle"
  /\ IF r.op \in Decision
       THEN lock = "free" /\ lock' = s
       ELSE UNCHANGED lock
  /\ step' = [step EXCEPT ![s] = "items"]
  /\ request' = [request EXCEPT ![s] = r]
  /\ seen' = [seen EXCEPT ![s].status = status]
  /\ UNCHANGED <<order, catalog>>

\* selectinload: the items, and the products they refer to
ReadItems(s) ==
  /\ step[s] = "items"
  /\ step' = [step EXCEPT ![s] = "write"]
  /\ seen' = [seen EXCEPT ![s].line = line,
                          ![s].active = {p \in Products : catalog[p].active}]
  /\ UNCHANGED <<order, catalog, lock, request>>

\* Mutant of MergedLine: the new quantity replaces the old one.
MergedLineReplaced(s) ==
  LET p == request[s].product
  IN  [quantity |-> request[s].quantity,
       price    |-> IF seen[s].line[p].quantity > 0 THEN seen[s].line[p].price
                                                    ELSE catalog[p].price]

\* Order.add_item on what s has seen: the line of the product as it will be,
\* with the price it was locked at or the price of today.
MergedLine(s) ==
  LET p   == request[s].product
      old == seen[s].line[p]
  IN  [quantity |-> old.quantity + request[s].quantity,
       price    |-> IF old.quantity > 0 THEN old.price ELSE catalog[p].price]

\* Mutant of AddItem: the status of the order is not looked at.
AddItemAnyTime(s) ==
  /\ Writes(s, "add")
  /\ LET p == request[s].product
     IN  /\ MergedLine(s).quantity <= MaxQuantity
         /\ Subtotal([seen[s].line EXCEPT ![p] = MergedLine(s)]) <= budget
         /\ line' = [line EXCEPT ![p] = MergedLine(s)]
  /\ UNCHANGED <<orderType, budget, status, invoice, catalog>>

\* Mutant of AddItem: two lines may take the same position, and the later one
\* counts.
AddItemAnyPosition(s) ==
  /\ Writes(s, "add")
  /\ seen[s].status = "draft"
  /\ LET p == request[s].product
     IN  /\ MergedLine(s).quantity <= MaxQuantity
         /\ Subtotal([seen[s].line EXCEPT ![p] = MergedLine(s)]) <= budget
         /\ line' = [line EXCEPT ![p] = MergedLine(s)]
  /\ UNCHANGED <<orderType, budget, status, invoice, catalog>>

\* add_item_to_draft.  A new item takes the next position and has to share
\* the order row with no FOR UPDATE; an update writes the quantity only.
AddItem(s) ==
  /\ Writes(s, "add")
  /\ seen[s].status = "draft"
  /\ LET p == request[s].product
     IN  /\ MergedLine(s).quantity <= MaxQuantity
         /\ Subtotal([seen[s].line EXCEPT ![p] = MergedLine(s)]) <= budget
         /\ IF p \in Lines(seen[s].line)
              THEN line' = [line EXCEPT ![p].quantity = MergedLine(s).quantity]
              ELSE /\ lock = "free"
                   /\ Cardinality(Lines(line)) = Cardinality(Lines(seen[s].line))
                   /\ line' = [line EXCEPT ![p] = MergedLine(s)]
  /\ UNCHANGED <<orderType, budget, status, invoice, catalog>>

\* Mutant of ConfirmDraft: an order may have several invoices.
ConfirmDraftAgain(s) ==
  /\ Writes(s, "confirm")
  /\ seen[s].status = "draft"
  /\ ValidForSubmission(s, request[s].shipping)
  /\ lock = "free"
  /\ status' = "pending_approval"
  /\ invoice' = [issued |-> TRUE, items |-> Subtotal(seen[s].line),
                 shipping |-> request[s].shipping]
  /\ UNCHANGED <<orderType, budget, line, catalog>>

\* confirm_draft: the new status waits for a lock, and a second invoice is
\* refused by the unique order_id.
ConfirmDraft(s) ==
  /\ Writes(s, "confirm")
  /\ seen[s].status = "draft"
  /\ ValidForSubmission(s, request[s].shipping)
  /\ lock = "free"
  /\ ~invoice.issued
  /\ status' = "pending_approval"
  /\ invoice' = [issued |-> TRUE, items |-> Subtotal(seen[s].line),
                 shipping |-> request[s].shipping]
  /\ UNCHANGED <<orderType, budget, line, catalog>>

\* OrderWorkflowRepository.approve_order, which validates the order again
ApproveOrder(s) ==
  /\ Writes(s, "approve")
  /\ seen[s].status = "pending_approval"
  /\ ValidForSubmission(s, invoice.shipping)
  /\ status' = "approved"
  /\ UNCHANGED <<orderType, budget, line, invoice, catalog>>

\* Mutant of RejectOrder: the order is given the status of cancelled orders.
RejectOrderAsCancelled(s) ==
  /\ Writes(s, "reject")
  /\ seen[s].status = "pending_approval"
  /\ status' = "cancelled"
  /\ UNCHANGED <<orderType, budget, line, invoice, catalog>>

RejectOrder(s) ==
  /\ Writes(s, "reject")
  /\ seen[s].status = "pending_approval"
  /\ status' = "rejected"
  /\ UNCHANGED <<orderType, budget, line, invoice, catalog>>

\* A check or a constraint refuses the request, or its connection is lost.
RollBack(s) ==
  /\ step[s] # "idle"
  /\ Done(s)
  /\ UNCHANGED <<order, catalog>>

\* The catalog changes, by hand: no endpoint edits a product.
ChangeProduct(p, price, active) ==
  /\ catalog' = [catalog EXCEPT ![p] = [price |-> price, active |-> active]]
  /\ UNCHANGED <<order, lock, step, request, seen>>

Next ==
  \/ \E s \in Sessions :
       \/ \E r \in Requests : ReadOrder(s, r)
       \/ ReadItems(s)
       \/ AddItem(s)
       \/ ConfirmDraft(s)
       \/ ApproveOrder(s)
       \/ RejectOrder(s)
       \/ RollBack(s)
  \/ \E p \in Products, price \in Prices, active \in BOOLEAN :
       ChangeProduct(p, price, active)

Spec == Init /\ [][Next]_vars

-----------------------------------------------------------------------------
Submitted == {"pending_approval", "approved"}

\* 0 < order_total <= budget_amount, for the items that a submitted normal
\* order has and the shipping it was invoiced.
OrderWithinBudget ==
  status \in Submitted /\ orderType = "normal" =>
    Subtotal(line) + invoice.shipping \in 1..budget

\* The invoice is for the items that the order has.
InvoiceMatchesOrder == invoice.issued => invoice.items = Subtotal(line)

\* Adding a product increases the quantity of its line by what was asked.
QuantitiesAddUp ==
  [][\A s \in Sessions :
       AddItem(s) =>
         LET p == request[s].product
         IN  line'[p].quantity = line[p].quantity + request[s].quantity]_vars

\* What is invoiced is within the budget, and positive for a normal order,
\* whatever sessions race.
InvoiceWithinBudget ==
  invoice.issued =>
    /\ invoice.items + invoice.shipping <= budget
    /\ orderType = "normal" => invoice.items + invoice.shipping > 0

\* An order is submitted once and decided once, and keeps its one invoice:
\* no stale confirmation takes a decided order back to the Boss.
DecidedOnce ==
  /\ [][status' # status =>
          <<status, status'>> \in {<<"draft", "pending_approval">>,
                                   <<"pending_approval", "approved">>,
                                   <<"pending_approval", "rejected">>}]_vars
  /\ [][invoice.issued => invoice' = invoice]_vars

\* The price of a line stays what it was when the product was first added,
\* whatever the catalog says since and whoever adds to it.
PriceLocked ==
  [][\A p \in Lines(line) : p \in Lines(line') /\ line'[p].price = line[p].price]_vars
=============================================================================
