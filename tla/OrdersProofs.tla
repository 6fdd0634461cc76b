---------------------------- MODULE OrdersProofs -----------------------------
(***************************************************************************)
(* Theorems about Orders, for any sessions, products and amounts: first    *)
(* what survives any race, then what is only lost when an add overlaps a   *)
(* confirmation or an add of the same product.                             *)
(***************************************************************************)
EXTENDS Orders, AllocationProofs

Working(s) == step[s] # "idle"
Deciding(s) == Working(s) /\ request[s].op \in Decision

\* A decision holds the order row from its first select, so that the status
\* it has seen is the status.
DecisionHolds ==
  \A s \in Sessions :
    /\ Deciding(s) => lock = s /\ seen[s].status = status
    /\ lock = s => Deciding(s)

\* Lines are never removed: what a session has seen is still there.
SeenLinesRemain ==
  \A s \in Sessions : step[s] = "write" => Lines(seen[s].line) \subseteq Lines(line)

\* An order has its invoice exactly when it is no draft any more.
InvoicedWhenSubmitted == invoice.issued <=> status # "draft"

OrderInv ==
  /\ TypeOK
  /\ DecisionHolds
  /\ SeenLinesRemain
  /\ InvoicedWhenSubmitted
  /\ InvoiceWithinBudget

-----------------------------------------------------------------------------
\* The subtotal of any lines is a natural number.
LEMMA SubtotalType ==
  ASSUME NEW ln \in [Products -> Line]
  PROVE  Subtotal(ln) \in Nat
<1> DEFINE f == [p \in Products |-> ln[p].quantity * ln[p].price]
<1>1. \A p \in Products : f[p] \in Nat
  BY DEF Line
<1> QED
  BY <1>1, ProductsAssumption, TotalType DEF Subtotal

\* The types of what a request reads and was asked for.
LEMMA RequestTypes ==
  ASSUME TypeOK, NEW s \in Sessions
  PROVE  /\ step[s] = "write" => step[s] # "idle"
         /\ request[s].op = "add" =>
              request[s].product \in Products /\ request[s].quantity \in Nat \ {0}
         /\ request[s].op = "confirm" => request[s].shipping \in Nat
         /\ seen[s].line \in [Products -> Line]
<1>1. request[s] \in Requests \cup {NoRequest} /\ seen[s] \in Seen
  BY DEF TypeOK
<1>2. seen[s].line \in [Products -> Line]
  BY <1>1 DEF Seen
<1>3. CASE request[s] = NoRequest
  BY <1>2, <1>3 DEF NoRequest
<1>4. CASE request[s] \in {Added(p, q) : p \in Products, q \in 1..MaxQuantity}
  BY <1>2, <1>4, QuantityAssumption DEF Added
<1>5. CASE request[s] \in {Confirmed(c) : c \in Shippings}
  BY <1>2, <1>5, AmountsAssumption DEF Confirmed
<1>6. CASE request[s] \in {Decided(d) : d \in Decision}
  BY <1>2, <1>6 DEF Decided, Decision
<1> QED
  BY <1>1, <1>3, <1>4, <1>5, <1>6 DEF Requests

\* What add_item makes of the line of its product.
LEMMA MergedLineType ==
  ASSUME TypeOK, NEW s \in Sessions, request[s].op = "add"
  PROVE  /\ MergedLine(s) \in Line
         /\ MergedLine(s).quantity > 0
         /\ MergedLine(s).quantity
              = seen[s].line[request[s].product].quantity + request[s].quantity
<1> DEFINE p == request[s].product
<1>1. p \in Products /\ request[s].quantity \in Nat \ {0} /\ seen[s].line[p] \in Line
  BY RequestTypes
<1>2. catalog[p].price \in Nat
  BY <1>1, AmountsAssumption DEF TypeOK
<1> QED
  BY <1>1, <1>2 DEF MergedLine, Line

\* What adding an item does to the lines: the line of its product gets a
\* quantity, and its price only if the order had no line of the product.
LEMMA AddItemLines ==
  ASSUME OrderInv, NEW s \in Sessions, AddItem(s)
  PROVE  /\ line' \in [Products -> Line]
         /\ \A p \in Lines(line) : p \in Lines(line') /\ line'[p].price = line[p].price
         /\ line'[request[s].product].quantity = MergedLine(s).quantity
         /\ \A p \in Products \ {request[s].product} : line'[p] = line[p]
<1> DEFINE p == request[s].product
           m == MergedLine(s)
<1>1. TypeOK /\ step[s] = "write" /\ request[s].op = "add"
  BY DEF OrderInv, AddItem, Writes
<1>2. m \in Line /\ m.quantity > 0 /\ p \in Products
  BY <1>1, MergedLineType, RequestTypes
<1>3. line \in [Products -> Line] /\ seen[s].line \in [Products -> Line]
  BY <1>1, RequestTypes DEF TypeOK
<1>4. CASE p \in Lines(seen[s].line)
  <2>1. line' = [line EXCEPT ![p].quantity = m.quantity]
    BY <1>4 DEF AddItem
  <2> HIDE DEF p, m
  <2>2. /\ line'[p] = [quantity |-> m.quantity, price |-> line[p].price]
        /\ \A q \in Products \ {p} : line'[q] = line[q]
    BY <1>2, <1>3, <2>1 DEF Line
  <2>3. line' \in [Products -> Line]
    BY <1>2, <1>3, <2>1, <2>2 DEF Line
  <2> QED
    BY <1>2, <1>3, <2>2, <2>3 DEF Lines, p, m
<1>5. CASE p \notin Lines(seen[s].line)
  <2>1. /\ Cardinality(Lines(line)) = Cardinality(Lines(seen[s].line))
        /\ line' = [line EXCEPT ![p] = m]
    BY <1>5 DEF AddItem
  <2>2. Lines(seen[s].line) \subseteq Lines(line)
    BY <1>1 DEF OrderInv, SeenLinesRemain
  <2>3. IsFiniteSet(Lines(line))
    BY ProductsAssumption, FS_Subset DEF Lines
  <2>4. Lines(seen[s].line) = Lines(line)
    BY <2>1, <2>2, <2>3, FS_Subset
  <2>5. p \notin Lines(line)
    BY <1>5, <2>4
  <2> HIDE DEF p, m
  <2>6. /\ line' \in [Products -> Line]
        /\ line'[p] = m
        /\ \A q \in Products \ {p} : line'[q] = line[q]
    BY <1>2, <1>3, <2>1
  <2> QED
    BY <1>2, <2>5, <2>6 DEF Lines, p, m
<1> QED
  BY <1>4, <1>5

-----------------------------------------------------------------------------
LEMMA OrderInvInit == Init => OrderInv
<1> SUFFICES ASSUME Init PROVE OrderInv
  OBVIOUS
<1> USE DEF Init
<1>1. NoLines \in [Products -> Line] /\ Lines(NoLines) = {}
  BY DEF NoLines, NoLine, Line, Lines
<1>2. TypeOK
  <2>1. Unseen \in Seen
    BY <1>1 DEF Unseen, Seen, OrderStatus
  <2>2. invoice \in Invoice /\ budget \in Nat /\ status \in OrderStatus
    BY AmountsAssumption DEF NoInvoice, Invoice, OrderStatus
  <2>3. catalog \in [Products -> [price : Prices, active : BOOLEAN]]
    OBVIOUS
  <2> QED
    BY <1>1, <2>1, <2>2, <2>3 DEF TypeOK
<1>3. DecisionHolds
  BY SessionsAssumption DEF DecisionHolds, Deciding, Working
<1>4. SeenLinesRemain /\ InvoicedWhenSubmitted /\ InvoiceWithinBudget
  BY DEF SeenLinesRemain, InvoicedWhenSubmitted, InvoiceWithinBudget, NoInvoice
<1> QED
  BY <1>2, <1>3, <1>4 DEF OrderInv

\* The end of a request: its session is idle, and holds no lock.
LEMMA DoneTypes ==
  ASSUME OrderInv, NEW s \in Sessions, Done(s)
  PROVE  /\ lock' \in Sessions \cup {"free"}
         /\ step' \in [Sessions -> {"idle", "items", "write"}]
         /\ request' \in [Sessions -> Requests \cup {NoRequest}]
         /\ seen' \in [Sessions -> Seen]
<1>1. Unseen \in Seen
  BY DEF Unseen, Seen, OrderStatus, NoLines, NoLine, Line
<1> QED
  BY <1>1 DEF OrderInv, TypeOK, Done

\* The end of a request keeps the locks right, if the status changes only under
\* its own lock or while there is none.
LEMMA DoneHolds ==
  ASSUME OrderInv, NEW s \in Sessions, Done(s), Working(s),
         status' = status \/ lock \in {"free", s}
  PROVE  DecisionHolds'
<1>1. /\ ~Working(s)'
      /\ \A t \in Sessions \ {s} :
           /\ step'[t] = step[t] /\ request'[t] = request[t] /\ seen'[t] = seen[t]
  BY DEF OrderInv, TypeOK, Done, Working
<1>2. lock' # s
  BY SessionsAssumption DEF Done
<1>3. ASSUME NEW t \in Sessions \ {s}
      PROVE  /\ Deciding(t)' => lock' = t /\ seen'[t].status = status'
             /\ lock' = t => Deciding(t)'
  <2>1. Deciding(t)' <=> Deciding(t)
    BY <1>1 DEF Deciding, Working
  <2>2. Deciding(t) => lock = t /\ seen[t].status = status
    BY DEF OrderInv, DecisionHolds
  <2>3. lock = t => Deciding(t)
    BY DEF OrderInv, DecisionHolds
  <2>4. lock' = t <=> lock = t
    BY SessionsAssumption DEF Done
  <2> QED
    BY <1>1, <2>1, <2>2, <2>3, <2>4, SessionsAssumption
<1> QED
  BY <1>1, <1>2, <1>3 DEF DecisionHolds, Deciding

\* The other sessions have still seen lines that are there.
LEMMA DoneSeen ==
  ASSUME OrderInv, NEW s \in Sessions, Done(s), Lines(line) \subseteq Lines(line')
  PROVE  SeenLinesRemain'
<1>1. /\ step'[s] = "idle"
      /\ \A t \in Sessions \ {s} : step'[t] = step[t] /\ seen'[t] = seen[t]
  BY DEF OrderInv, TypeOK, Done
<1>2. \A t \in Sessions : Lines(seen[t].line)' = Lines(seen'[t].line)
  BY DEF Lines
<1>3. Lines(line)' = Lines(line')
  BY DEF Lines
<1> QED
  BY <1>1, <1>2, <1>3 DEF OrderInv, SeenLinesRemain

LEMMA OrderReadOrder ==
  ASSUME OrderInv, NEW s \in Sessions, NEW r \in Requests, ReadOrder(s, r)
  PROVE  OrderInv'
<1>1. /\ step[s] = "idle" /\ step'[s] = "items" /\ request'[s] = r
      /\ seen'[s].status = status
      /\ \A t \in Sessions \ {s} :
           /\ step'[t] = step[t] /\ request'[t] = request[t] /\ seen'[t] = seen[t]
      /\ UNCHANGED <<order, catalog>>
  BY DEF OrderInv, TypeOK, ReadOrder, Seen
<1>2. TypeOK'
  <2>1. seen' \in [Sessions -> Seen]
    BY DEF OrderInv, TypeOK, ReadOrder, Seen
  <2>2. lock' \in Sessions \cup {"free"}
    BY DEF OrderInv, TypeOK, ReadOrder
  <2> QED
    BY <2>1, <2>2 DEF OrderInv, TypeOK, ReadOrder, order
<1>3. DecisionHolds'
  <2>1. lock # s /\ (r.op \in Decision <=> lock' = s)
    BY <1>1, SessionsAssumption DEF OrderInv, DecisionHolds, Deciding, Working, ReadOrder
  <2>2. Deciding(s)' <=> lock' = s
    BY <1>1, <2>1 DEF Deciding, Working
  <2>3. ASSUME NEW t \in Sessions \ {s}
        PROVE  /\ Deciding(t)' => lock' = t /\ seen'[t].status = status'
               /\ lock' = t => Deciding(t)'
    <3>1. Deciding(t)' <=> Deciding(t)
      BY <1>1 DEF Deciding, Working
    <3>2. lock = t => lock' = t
      BY SessionsAssumption DEF ReadOrder
    <3>3. lock' = t => lock = t
      BY DEF ReadOrder
    <3> QED
      BY <1>1, <3>1, <3>2, <3>3 DEF OrderInv, DecisionHolds, order
  <2> QED
    BY <1>1, <2>2, <2>3 DEF DecisionHolds, order
<1>4. SeenLinesRemain'
  BY <1>1 DEF OrderInv, SeenLinesRemain, Lines, order
<1>5. InvoicedWhenSubmitted' /\ InvoiceWithinBudget'
  BY <1>1 DEF OrderInv, InvoicedWhenSubmitted, InvoiceWithinBudget, order
<1> QED
  BY <1>2, <1>3, <1>4, <1>5 DEF OrderInv

LEMMA OrderReadItems ==
  ASSUME OrderInv, NEW s \in Sessions, ReadItems(s)
  PROVE  OrderInv'
<1>1. /\ step[s] = "items" /\ step'[s] = "write" /\ seen'[s].line = line
      /\ seen'[s].status = seen[s].status
      /\ \A t \in Sessions \ {s} : step'[t] = step[t] /\ seen'[t] = seen[t]
      /\ UNCHANGED <<order, catalog, lock, request>>
  BY DEF OrderInv, TypeOK, ReadItems, Seen
<1>2. TypeOK'
  <2>1. seen' \in [Sessions -> Seen]
    BY DEF OrderInv, TypeOK, ReadItems, Seen
  <2> QED
    BY <2>1 DEF OrderInv, TypeOK, ReadItems, order
<1>3. DecisionHolds'
  <2>1. \A t \in Sessions : Deciding(t)' <=> Deciding(t)
    BY <1>1 DEF Deciding, Working
  <2> QED
    BY <1>1, <2>1 DEF OrderInv, DecisionHolds, order
<1>4. SeenLinesRemain'
  BY <1>1 DEF OrderInv, SeenLinesRemain, Lines, order
<1>5. InvoicedWhenSubmitted' /\ InvoiceWithinBudget'
  BY <1>1 DEF OrderInv, InvoicedWhenSubmitted, InvoiceWithinBudget, order
<1> QED
  BY <1>2, <1>3, <1>4, <1>5 DEF OrderInv

LEMMA OrderAddItem ==
  ASSUME OrderInv, NEW s \in Sessions, AddItem(s)
  PROVE  OrderInv'
<1>1. /\ Done(s) /\ Working(s)
      /\ UNCHANGED <<orderType, budget, status, invoice, catalog>>
  BY DEF AddItem, Writes, Working
<1>2. line' \in [Products -> Line] /\ Lines(line) \subseteq Lines(line')
  BY AddItemLines
<1>3. TypeOK'
  BY <1>1, <1>2, DoneTypes DEF OrderInv, TypeOK
<1>4. DecisionHolds'
  BY <1>1, DoneHolds
<1>5. SeenLinesRemain'
  BY <1>1, <1>2, DoneSeen
<1>6. InvoicedWhenSubmitted' /\ InvoiceWithinBudget'
  BY <1>1 DEF OrderInv, InvoicedWhenSubmitted, InvoiceWithinBudget
<1> QED
  BY <1>3, <1>4, <1>5, <1>6 DEF OrderInv

\* The invoice of a confirmation is within the budget: it was checked.
LEMMA OrderConfirmDraft ==
  ASSUME OrderInv, NEW s \in Sessions, ConfirmDraft(s)
  PROVE  OrderInv'
<1>1. /\ Done(s) /\ Working(s) /\ lock = "free"
      /\ status' = "pending_approval"
      /\ UNCHANGED <<orderType, budget, line, catalog>>
      /\ request[s].op = "confirm"
      /\ ValidForSubmission(s, request[s].shipping)
      /\ invoice' = [issued |-> TRUE, items |-> Subtotal(seen[s].line),
                     shipping |-> request[s].shipping]
  BY DEF ConfirmDraft, Writes, Working
<1>2. Subtotal(seen[s].line) \in Nat /\ request[s].shipping \in Nat
  BY <1>1, RequestTypes, SubtotalType DEF OrderInv
<1>3. TypeOK'
  <2>1. invoice' \in Invoice /\ status' \in OrderStatus
    BY <1>1, <1>2 DEF Invoice, OrderStatus
  <2> QED
    BY <1>1, <2>1, DoneTypes DEF OrderInv, TypeOK
<1>4. DecisionHolds'
  BY <1>1, DoneHolds
<1>5. SeenLinesRemain'
  BY <1>1, DoneSeen
<1>6. InvoicedWhenSubmitted' /\ InvoiceWithinBudget'
  BY <1>1, <1>2 DEF InvoicedWhenSubmitted, InvoiceWithinBudget, ValidForSubmission
<1> QED
  BY <1>3, <1>4, <1>5, <1>6 DEF OrderInv

\* A decision is made of the status that was seen, which is the status.
LEMMA OrderDecided ==
  ASSUME OrderInv, NEW s \in Sessions, ApproveOrder(s) \/ RejectOrder(s)
  PROVE  /\ OrderInv'
         /\ status = "pending_approval" /\ status' \in {"approved", "rejected"}
<1>1. /\ Done(s) /\ Working(s) /\ request[s].op \in Decision
      /\ seen[s].status = "pending_approval"
      /\ status' \in {"approved", "rejected"}
      /\ UNCHANGED <<orderType, budget, line, invoice, catalog>>
  BY DEF ApproveOrder, RejectOrder, Writes, Working, Decision
<1>2. lock = s /\ status = "pending_approval"
  BY <1>1 DEF OrderInv, DecisionHolds, Deciding
<1>3. TypeOK'
  <2>1. status' \in OrderStatus
    BY <1>1 DEF OrderStatus
  <2> QED
    BY <1>1, <2>1, DoneTypes DEF OrderInv, TypeOK
<1>4. DecisionHolds'
  BY <1>1, <1>2, DoneHolds
<1>5. SeenLinesRemain'
  BY <1>1, DoneSeen
<1>6. InvoicedWhenSubmitted' /\ InvoiceWithinBudget'
  BY <1>1, <1>2 DEF OrderInv, InvoicedWhenSubmitted, InvoiceWithinBudget
<1> QED
  BY <1>1, <1>2, <1>3, <1>4, <1>5, <1>6 DEF OrderInv

LEMMA OrderRollBack ==
  ASSUME OrderInv, NEW s \in Sessions, RollBack(s)
  PROVE  OrderInv'
<1>1. Done(s) /\ Working(s) /\ UNCHANGED <<order, catalog>>
  BY DEF RollBack, Working
<1>2. TypeOK'
  BY <1>1, DoneTypes DEF OrderInv, TypeOK, order
<1>3. DecisionHolds'
  BY <1>1, DoneHolds DEF order
<1>4. SeenLinesRemain'
  BY <1>1, DoneSeen DEF order
<1>5. InvoicedWhenSubmitted' /\ InvoiceWithinBudget'
  BY <1>1 DEF OrderInv, InvoicedWhenSubmitted, InvoiceWithinBudget, order
<1> QED
  BY <1>2, <1>3, <1>4, <1>5 DEF OrderInv

\* The catalog may change: no invariant but its type mentions it.
LEMMA OrderElse ==
  ASSUME OrderInv, UNCHANGED <<order, lock, step, request, seen>>,
         catalog' \in [Products -> [price : Prices, active : BOOLEAN]]
  PROVE  OrderInv'
<1>1. TypeOK'
  BY DEF OrderInv, TypeOK, order
<1>2. DecisionHolds' /\ SeenLinesRemain'
  BY DEF OrderInv, DecisionHolds, Deciding, Working, SeenLinesRemain, Lines, order
<1>3. InvoicedWhenSubmitted' /\ InvoiceWithinBudget'
  BY DEF OrderInv, InvoicedWhenSubmitted, InvoiceWithinBudget, order
<1> QED
  BY <1>1, <1>2, <1>3 DEF OrderInv


LEMMA OrderStep == OrderInv /\ [Next]_vars => OrderInv'
<1> SUFFICES ASSUME OrderInv, [Next]_vars PROVE OrderInv'
  OBVIOUS
<1>1. ASSUME NEW s \in Sessions, NEW r \in Requests, ReadOrder(s, r)
      PROVE  OrderInv'
  BY <1>1, OrderReadOrder
<1>2. ASSUME NEW s \in Sessions,
             \/ ReadItems(s)
             \/ AddItem(s)
             \/ ConfirmDraft(s)
             \/ ApproveOrder(s)
             \/ RejectOrder(s)
             \/ RollBack(s)
      PROVE  OrderInv'
  BY <1>2, OrderReadItems, OrderAddItem, OrderConfirmDraft, OrderDecided, OrderRollBack
<1>3. ASSUME NEW p \in Products, NEW price \in Prices, NEW active \in BOOLEAN,
             ChangeProduct(p, price, active)
      PROVE  OrderInv'
  <2>1. catalog' \in [Products -> [price : Prices, active : BOOLEAN]]
    BY <1>3 DEF ChangeProduct, OrderInv, TypeOK
  <2> QED
    BY <1>3, <2>1, OrderElse DEF ChangeProduct
<1>4. CASE UNCHANGED vars
  <2>1. catalog' \in [Products -> [price : Prices, active : BOOLEAN]]
    BY <1>4 DEF vars, OrderInv, TypeOK
  <2> QED
    BY <1>4, <2>1, OrderElse DEF vars
<1> QED
  BY <1>1, <1>2, <1>3, <1>4 DEF Next

LEMMA OrderInvCorrect == Spec => []OrderInv
BY OrderInvInit, OrderStep, PTL DEF Spec

\* Rows keep their types: a merged line, the subtotals that are compared with
\* the budget and the invoice are natural numbers, whatever has been read.
THEOREM OrderTypes == Spec => []TypeOK
BY OrderInvCorrect, PTL DEF OrderInv

\* What confirm_draft invoices is within the budget and positive, whatever
\* sessions race with it.
THEOREM InvoiceBudgetCorrect == Spec => []InvoiceWithinBudget
BY OrderInvCorrect, PTL DEF OrderInv

\* An order is submitted once and decided once, and keeps its one invoice: a
\* confirmation that read a draft is stopped by the unique order_id, a
\* decision holds the row.
THEOREM DecidedOnceCorrect == Spec => DecidedOnce
<1>1. OrderInv /\ [Next]_vars =>
        [/\ status' # status =>
              <<status, status'>> \in {<<"draft", "pending_approval">>,
                                       <<"pending_approval", "approved">>,
                                       <<"pending_approval", "rejected">>}
         /\ invoice.issued => invoice' = invoice]_vars
  <2> SUFFICES ASSUME OrderInv, Next
               PROVE  /\ status' # status =>
                           <<status, status'>> \in {<<"draft", "pending_approval">>,
                                                    <<"pending_approval", "approved">>,
                                                    <<"pending_approval", "rejected">>}
                      /\ invoice.issued => invoice' = invoice
    OBVIOUS
  <2>1. CASE \E s \in Sessions : ConfirmDraft(s)
    <3>1. ~invoice.issued /\ status' = "pending_approval"
      BY <2>1 DEF ConfirmDraft
    <3> QED
      BY <3>1 DEF OrderInv, InvoicedWhenSubmitted
  <2>2. CASE \E s \in Sessions : ApproveOrder(s) \/ RejectOrder(s)
    <3>1. status = "pending_approval" /\ status' \in {"approved", "rejected"}
      BY <2>2, OrderDecided
    <3>2. invoice' = invoice
      BY <2>2 DEF ApproveOrder, RejectOrder
    <3> QED
      BY <3>1, <3>2
  <2>3. CASE UNCHANGED <<status, invoice>>
    BY <2>3
  <2> QED
    BY <2>1, <2>2, <2>3
    DEF Next, ReadOrder, ReadItems, AddItem, RollBack, ChangeProduct, order
<1> QED
  BY <1>1, OrderInvCorrect, PTL DEF Spec, DecidedOnce

\* A line keeps the price it was first added at: sessions that add a product
\* at once cannot both make its line, because both take the same position.
THEOREM PriceLockedCorrect == Spec => PriceLocked
<1>1. OrderInv /\ [Next]_vars =>
        [\A p \in Lines(line) :
           p \in Lines(line') /\ line'[p].price = line[p].price]_vars
  <2> SUFFICES ASSUME OrderInv, Next
               PROVE  \A p \in Lines(line) :
                        p \in Lines(line') /\ line'[p].price = line[p].price
    OBVIOUS
  <2>1. CASE \E s \in Sessions : AddItem(s)
    BY <2>1, AddItemLines
  <2>2. CASE UNCHANGED line
    BY <2>2
  <2> QED
    BY <2>1, <2>2
    DEF Next, ReadOrder, ReadItems, ConfirmDraft, ApproveOrder, RejectOrder,
        RollBack, ChangeProduct, order
<1> QED
  BY <1>1, OrderInvCorrect, PTL DEF Spec, PriceLocked

-----------------------------------------------------------------------------
\* Requests that do not overlap.  Racing sessions refute the budget, the
\* invoice and the sum of the quantities; what follows says which overlap it
\* takes.

Adding(s) == Working(s) /\ request[s].op = "add"
Confirming(s) == Working(s) /\ request[s].op = "confirm"

\* No item is added while a confirmation is under way.
ConfirmedAlone == \A s, t \in Sessions : ~(Confirming(s) /\ Adding(t))

\* No two sessions add the same product at once.
AddedAlone ==
  \A s, t \in Sessions :
    s # t /\ Adding(s) /\ Adding(t) => request[s].product # request[t].product

\* An add that has seen a draft adds to a draft.
AddsToDraft == \A s \in Sessions : Adding(s) /\ seen[s].status = "draft" => status = "draft"

\* A confirmation has seen the items there are.
ConfirmsItems ==
  \A s \in Sessions : step[s] = "write" /\ Confirming(s) => seen[s].line = line

\* An add has seen the line of its product.
AddsToSeen ==
  \A s \in Sessions :
    step[s] = "write" /\ Adding(s) =>
      seen[s].line[request[s].product] = line[request[s].product]

InvoiceInv == OrderInv /\ AddsToDraft /\ ConfirmsItems /\ InvoiceMatchesOrder
QuantityInv == OrderInv /\ AddsToSeen

\* A request that ends leaves the other sessions as they are.
LEMMA DoneElse ==
  ASSUME OrderInv, NEW s \in Sessions, Done(s)
  PROVE  /\ step'[s] = "idle"
         /\ \A t \in Sessions \ {s} :
              step'[t] = step[t] /\ request'[t] = request[t] /\ seen'[t] = seen[t]
BY DEF OrderInv, TypeOK, Done

\* What one select changes: its own session, and no row.
LEMMA SelectElse ==
  ASSUME OrderInv, NEW s \in Sessions,
         (\E r \in Requests : ReadOrder(s, r)) \/ ReadItems(s)
  PROVE  /\ UNCHANGED order
         /\ \A t \in Sessions \ {s} :
              step'[t] = step[t] /\ request'[t] = request[t] /\ seen'[t] = seen[t]
         /\ \/ step'[s] = "items" /\ seen'[s].status = status
            \/ /\ step[s] = "items" /\ request'[s] = request[s]
               /\ seen'[s].status = seen[s].status /\ seen'[s].line = line
<1>1. CASE \E r \in Requests : ReadOrder(s, r)
  BY <1>1 DEF OrderInv, TypeOK, ReadOrder, Seen
<1>2. CASE ReadItems(s)
  BY <1>2 DEF OrderInv, TypeOK, ReadItems, Seen
<1> QED
  BY <1>1, <1>2

LEMMA InvoiceInvInit == Init => InvoiceInv
<1> SUFFICES ASSUME Init PROVE InvoiceInv
  OBVIOUS
<1>1. \A s \in Sessions : step[s] = "idle"
  BY DEF Init
<1>2. AddsToDraft /\ ConfirmsItems
  BY <1>1 DEF AddsToDraft, ConfirmsItems, Adding, Confirming, Working
<1>3. InvoiceMatchesOrder
  BY DEF Init, InvoiceMatchesOrder, NoInvoice
<1> QED
  BY <1>2, <1>3, OrderInvInit DEF InvoiceInv

\* A select keeps what the adds and the confirmations know.
LEMMA InvoiceSelect ==
  ASSUME InvoiceInv, NEW s \in Sessions,
         (\E r \in Requests : ReadOrder(s, r)) \/ ReadItems(s)
  PROVE  AddsToDraft' /\ ConfirmsItems' /\ InvoiceMatchesOrder'
<1>1. /\ UNCHANGED order
      /\ \A t \in Sessions \ {s} :
           step'[t] = step[t] /\ request'[t] = request[t] /\ seen'[t] = seen[t]
      /\ \/ step'[s] = "items" /\ seen'[s].status = status
         \/ /\ step[s] = "items" /\ request'[s] = request[s]
            /\ seen'[s].status = seen[s].status /\ seen'[s].line = line
  BY SelectElse DEF InvoiceInv
<1>2. AddsToDraft'
  BY <1>1 DEF InvoiceInv, AddsToDraft, Adding, Working, order
<1>3. ConfirmsItems'
  BY <1>1 DEF InvoiceInv, ConfirmsItems, Confirming, Working, order
<1> QED
  BY <1>1, <1>2, <1>3 DEF InvoiceInv, InvoiceMatchesOrder, order

\* An add that is not refused finds a draft, which has no invoice, and no
\* confirmation that has read the items.
LEMMA InvoiceAddItem ==
  ASSUME InvoiceInv, ConfirmedAlone, NEW s \in Sessions, AddItem(s)
  PROVE  AddsToDraft' /\ ConfirmsItems' /\ InvoiceMatchesOrder'
<1>1. /\ Done(s) /\ Adding(s) /\ seen[s].status = "draft"
      /\ UNCHANGED <<status, invoice>>
  BY DEF AddItem, Writes, Adding, Working
<1>2. /\ step'[s] = "idle"
      /\ \A t \in Sessions \ {s} :
           step'[t] = step[t] /\ request'[t] = request[t] /\ seen'[t] = seen[t]
  BY <1>1, DoneElse DEF InvoiceInv
<1>3. AddsToDraft'
  BY <1>1, <1>2 DEF InvoiceInv, AddsToDraft, Adding, Working
<1>4. ConfirmsItems'
  <2>1. \A t \in Sessions : ~Confirming(t)'
    BY <1>1, <1>2 DEF ConfirmedAlone, Confirming, Working
  <2> QED
    BY <2>1 DEF ConfirmsItems
<1>5. ~invoice.issued
  BY <1>1 DEF InvoiceInv, AddsToDraft, OrderInv, InvoicedWhenSubmitted
<1> QED
  BY <1>1, <1>3, <1>4, <1>5 DEF InvoiceMatchesOrder

\* A confirmation invoices the items there are, and no add is under way that
\* could still take the order for a draft.
LEMMA InvoiceConfirmDraft ==
  ASSUME InvoiceInv, ConfirmedAlone, NEW s \in Sessions, ConfirmDraft(s)
  PROVE  AddsToDraft' /\ ConfirmsItems' /\ InvoiceMatchesOrder'
<1>1. /\ Done(s) /\ Confirming(s) /\ step[s] = "write" /\ line' = line
      /\ invoice'.items = Subtotal(seen[s].line)
  BY DEF ConfirmDraft, Writes, Confirming, Working
<1>2. /\ step'[s] = "idle"
      /\ \A t \in Sessions \ {s} :
           step'[t] = step[t] /\ request'[t] = request[t] /\ seen'[t] = seen[t]
  BY <1>1, DoneElse DEF InvoiceInv
<1>3. AddsToDraft'
  <2>1. \A t \in Sessions : ~Adding(t)'
    BY <1>1, <1>2 DEF ConfirmedAlone, Adding, Working
  <2> QED
    BY <2>1 DEF AddsToDraft
<1>4. ConfirmsItems'
  BY <1>1, <1>2 DEF InvoiceInv, ConfirmsItems, Confirming, Working
<1>5. InvoiceMatchesOrder'
  BY <1>1 DEF InvoiceInv, ConfirmsItems, InvoiceMatchesOrder
<1> QED
  BY <1>3, <1>4, <1>5

\* A decision is not about a draft; a request that is rolled back writes
\* nothing.
LEMMA InvoiceDone ==
  ASSUME InvoiceInv, NEW s \in Sessions, ApproveOrder(s) \/ RejectOrder(s) \/ RollBack(s)
  PROVE  AddsToDraft' /\ ConfirmsItems' /\ InvoiceMatchesOrder'
<1>1. Done(s) /\ line' = line /\ invoice' = invoice
  BY DEF ApproveOrder, RejectOrder, RollBack, Writes, order
<1>2. status' = status \/ status # "draft"
  BY OrderDecided DEF InvoiceInv, RollBack, order
<1>3. /\ step'[s] = "idle"
      /\ \A t \in Sessions \ {s} :
           step'[t] = step[t] /\ request'[t] = request[t] /\ seen'[t] = seen[t]
  BY <1>1, DoneElse DEF InvoiceInv
<1>4. AddsToDraft'
  BY <1>2, <1>3 DEF InvoiceInv, AddsToDraft, Adding, Working
<1>5. ConfirmsItems'
  BY <1>1, <1>3 DEF InvoiceInv, ConfirmsItems, Confirming, Working
<1> QED
  BY <1>1, <1>4, <1>5 DEF InvoiceInv, InvoiceMatchesOrder

LEMMA InvoiceStep == InvoiceInv /\ ConfirmedAlone /\ [Next]_vars => InvoiceInv'
<1> SUFFICES ASSUME InvoiceInv, ConfirmedAlone, [Next]_vars
             PROVE  AddsToDraft' /\ ConfirmsItems' /\ InvoiceMatchesOrder'
  BY OrderStep DEF InvoiceInv
<1>1. ASSUME NEW s \in Sessions, (\E r \in Requests : ReadOrder(s, r)) \/ ReadItems(s)
      PROVE  AddsToDraft' /\ ConfirmsItems' /\ InvoiceMatchesOrder'
  BY <1>1, InvoiceSelect
<1>2. ASSUME NEW s \in Sessions, AddItem(s)
      PROVE  AddsToDraft' /\ ConfirmsItems' /\ InvoiceMatchesOrder'
  BY <1>2, InvoiceAddItem
<1>3. ASSUME NEW s \in Sessions, ConfirmDraft(s)
      PROVE  AddsToDraft' /\ ConfirmsItems' /\ InvoiceMatchesOrder'
  BY <1>3, InvoiceConfirmDraft
<1>4. ASSUME NEW s \in Sessions, ApproveOrder(s) \/ RejectOrder(s) \/ RollBack(s)
      PROVE  AddsToDraft' /\ ConfirmsItems' /\ InvoiceMatchesOrder'
  BY <1>4, InvoiceDone
<1>5. CASE UNCHANGED <<order, step, request, seen>>
  BY <1>5 DEF InvoiceInv, AddsToDraft, ConfirmsItems, InvoiceMatchesOrder,
              Adding, Confirming, Working, order
<1> QED
  BY <1>1, <1>2, <1>3, <1>4, <1>5 DEF Next, ChangeProduct, vars

LEMMA InvoiceInvCorrect == Spec /\ []ConfirmedAlone => []InvoiceInv
BY InvoiceInvInit, InvoiceStep, PTL DEF Spec

\* As long as no item is added while a confirmation is under way, the invoice
\* is for the items of the order, whatever else overlaps.
THEOREM InvoiceMatchCorrect == Spec /\ []ConfirmedAlone => []InvoiceMatchesOrder
BY InvoiceInvCorrect, PTL DEF InvoiceInv

\* And a submitted order is within its budget: an add that overlaps a
\* confirmation is the only way out of it.
THEOREM OrderBudgetCorrect == Spec /\ []ConfirmedAlone => []OrderWithinBudget
<1>1. InvoiceInv => OrderWithinBudget
  <2> SUFFICES ASSUME InvoiceInv, status \in Submitted, orderType = "normal"
               PROVE  Subtotal(line) + invoice.shipping \in 1..budget
    BY DEF OrderWithinBudget
  <2>1. invoice.issued
    BY DEF Submitted, InvoiceInv, OrderInv, InvoicedWhenSubmitted
  <2>2. invoice.items = Subtotal(line)
    BY <2>1 DEF InvoiceInv, InvoiceMatchesOrder
  <2>3. /\ invoice.items + invoice.shipping <= budget
        /\ invoice.items + invoice.shipping > 0
    BY <2>1 DEF InvoiceInv, OrderInv, InvoiceWithinBudget
  <2>4. invoice.items \in Nat /\ invoice.shipping \in Nat /\ budget \in Nat
    BY DEF InvoiceInv, OrderInv, TypeOK, Invoice
  <2> QED
    BY <2>2, <2>3, <2>4
<1> QED
  BY <1>1, InvoiceInvCorrect, PTL

LEMMA QuantityInvInit == Init => QuantityInv
<1> SUFFICES ASSUME Init PROVE QuantityInv
  OBVIOUS
<1>1. \A s \in Sessions : step[s] = "idle"
  BY DEF Init
<1> QED
  BY <1>1, OrderInvInit DEF QuantityInv, AddsToSeen

\* Adding one product leaves the lines of the others.
LEMMA QuantityAddItem ==
  ASSUME QuantityInv, AddedAlone, NEW s \in Sessions, AddItem(s)
  PROVE  AddsToSeen'
<1>1. Done(s) /\ Adding(s)
  BY DEF AddItem, Writes, Adding, Working
<1>2. /\ step'[s] = "idle"
      /\ \A t \in Sessions \ {s} :
           step'[t] = step[t] /\ request'[t] = request[t] /\ seen'[t] = seen[t]
  BY <1>1, DoneElse DEF QuantityInv
<1>3. \A q \in Products \ {request[s].product} : line'[q] = line[q]
  BY AddItemLines DEF QuantityInv
<1>4. ASSUME NEW t \in Sessions, step'[t] = "write", Adding(t)'
      PROVE  seen'[t].line[request'[t].product] = line'[request'[t].product]
  <2>1. t # s /\ step[t] = "write" /\ Adding(t)
    BY <1>2, <1>4 DEF Adding, Working
  <2>2. request[t].product \in Products \ {request[s].product}
    BY <1>1, <2>1, RequestTypes DEF QuantityInv, OrderInv, AddedAlone, Adding
  <2> QED
    BY <1>2, <1>3, <2>1, <2>2 DEF QuantityInv, AddsToSeen
<1> QED
  BY <1>4 DEF AddsToSeen

LEMMA QuantityStep == QuantityInv /\ AddedAlone /\ [Next]_vars => QuantityInv'
<1> SUFFICES ASSUME QuantityInv, AddedAlone, [Next]_vars
             PROVE  AddsToSeen'
  BY OrderStep DEF QuantityInv
<1>1. ASSUME NEW s \in Sessions, (\E r \in Requests : ReadOrder(s, r)) \/ ReadItems(s)
      PROVE  AddsToSeen'
  <2>1. /\ UNCHANGED order
        /\ \A t \in Sessions \ {s} :
             step'[t] = step[t] /\ request'[t] = request[t] /\ seen'[t] = seen[t]
        /\ step'[s] = "items" \/ seen'[s].line = line
    BY <1>1, SelectElse DEF QuantityInv
  <2> QED
    BY <2>1 DEF QuantityInv, AddsToSeen, Adding, Working, order
<1>2. ASSUME NEW s \in Sessions, AddItem(s)
      PROVE  AddsToSeen'
  BY <1>2, QuantityAddItem
<1>3. ASSUME NEW s \in Sessions,
             ConfirmDraft(s) \/ ApproveOrder(s) \/ RejectOrder(s) \/ RollBack(s)
      PROVE  AddsToSeen'
  <2>1. Done(s) /\ line' = line
    BY <1>3 DEF ConfirmDraft, ApproveOrder, RejectOrder, RollBack, Writes, order
  <2>2. /\ step'[s] = "idle"
        /\ \A t \in Sessions \ {s} :
             step'[t] = step[t] /\ request'[t] = request[t] /\ seen'[t] = seen[t]
    BY <2>1, DoneElse DEF QuantityInv
  <2> QED
    BY <2>1, <2>2 DEF QuantityInv, AddsToSeen, Adding, Working
<1>4. CASE UNCHANGED <<order, step, request, seen>>
  BY <1>4 DEF QuantityInv, AddsToSeen, Adding, Working, order
<1> QED
  BY <1>1, <1>2, <1>3, <1>4 DEF Next, ChangeProduct, vars

LEMMA QuantityInvCorrect == Spec /\ []AddedAlone => []QuantityInv
BY QuantityInvInit, QuantityStep, PTL DEF Spec

\* As long as no two sessions add the same product at once, adding a product
\* adds its quantity: the confirmation and other products may overlap.
THEOREM QuantitiesCorrect == Spec /\ []AddedAlone => QuantitiesAddUp
<1>1. QuantityInv /\ [Next]_vars =>
        [\A s \in Sessions :
           AddItem(s) =>
             LET p == request[s].product
             IN  line'[p].quantity = line[p].quantity + request[s].quantity]_vars
  <2> SUFFICES ASSUME QuantityInv, NEW s \in Sessions, AddItem(s)
               PROVE  line'[request[s].product].quantity
                        = line[request[s].product].quantity + request[s].quantity
    OBVIOUS
  <2>1. step[s] = "write" /\ Adding(s) /\ request[s].op = "add"
    BY DEF AddItem, Writes, Adding, Working
  <2>2. seen[s].line[request[s].product] = line[request[s].product]
    BY <2>1 DEF QuantityInv, AddsToSeen
  <2>3. line'[request[s].product].quantity = MergedLine(s).quantity
    BY AddItemLines DEF QuantityInv
  <2> QED
    BY <2>1, <2>2, <2>3, MergedLineType DEF QuantityInv, OrderInv
<1> QED
  BY <1>1, QuantityInvCorrect, PTL DEF Spec, QuantitiesAddUp

=============================================================================
