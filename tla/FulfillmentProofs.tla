------------------------- MODULE FulfillmentProofs --------------------------
(***************************************************************************)
(* Theorems about Fulfillment, for any finite set of orders, any products, *)
(* carts and bounds.                                                       *)
(***************************************************************************)
EXTENDS Fulfillment, AllocationProofs

ReservedWithinLine ==
  \A o \in Orders, p \in Products : reservation[o][p] <= line[o][p]

\* The units of product p that each order holds.
HeldOf(p) == [o \in Orders |-> reservation[o][p]]

\* The strengthening of StockLedger that the steps preserve: the closed form
\* shares out onHand - reserved, so reservations must stay within lines, and
\* a release gives back what the reserved counter really includes.
LedgerInv ==
  TypeOK /\ StockLedger /\ OnlyLiveOrdersHoldStock /\ ReservedWithinLine

-----------------------------------------------------------------------------
\* Tasks and their totals.

\* What the tasks of a sequence ship are quantities.
LEMMA ShipsType ==
  ASSUME NEW ts \in Seq(Task), NEW p \in Products
  PROVE  /\ IsFiniteSet(DOMAIN ts)
         /\ DOMAIN Ships(ts, p) = DOMAIN ts
         /\ \A i \in DOMAIN ts : /\ ts[i] \in Task
                                 /\ Ships(ts, p)[i] = ts[i].items[p]
                                 /\ Ships(ts, p)[i] \in Nat
<1>1. DOMAIN ts = 1..Len(ts) /\ Len(ts) \in Nat
  OBVIOUS
<1>2. \A i \in DOMAIN ts : ts[i] \in Task
  OBVIOUS
<1>3. \A i \in DOMAIN ts : ts[i].items[p] \in Nat
  BY <1>2 DEF Task
<1>4. IsFiniteSet(DOMAIN ts)
  BY <1>1, FS_Interval
<1> QED
  BY <1>2, <1>3, <1>4 DEF Ships

\* One more task ships so much more.
LEMMA ShipsAppend ==
  ASSUME NEW ts \in Seq(Task), NEW t \in Task, NEW p \in Products
  PROVE  Total(Ships(Append(ts, t), p), DOMAIN Append(ts, t))
           = Total(Ships(ts, p), DOMAIN ts) + t.items[p]
<1> DEFINE n == Len(ts) + 1
           all == Append(ts, t)
<1>1. all \in Seq(Task) /\ DOMAIN all = DOMAIN ts \cup {n} /\ n \notin DOMAIN ts
      /\ all[n] = t /\ \A i \in DOMAIN ts : all[i] = ts[i]
  OBVIOUS
<1> HIDE DEF n, all
<1>2. /\ \A i \in DOMAIN all : Ships(all, p)[i] \in Nat
      /\ IsFiniteSet(DOMAIN ts)
  BY <1>1, ShipsType
<1>3. Total(Ships(all, p), DOMAIN ts \cup {n})
        = Total(Ships(all, p), DOMAIN ts) + Ships(all, p)[n]
  BY <1>1, <1>2, TotalAdd
<1>4. \A i \in DOMAIN ts : Ships(all, p)[i] = Ships(ts, p)[i]
  BY <1>1, ShipsType
<1>5. Total(Ships(all, p), DOMAIN ts) = Total(Ships(ts, p), DOMAIN ts)
  BY <1>4, TotalEqual
<1>6. Ships(all, p)[n] = t.items[p]
  BY <1>1, ShipsType
<1> QED
  BY <1>1, <1>3, <1>5, <1>6 DEF all

LEMMA PlannedType ==
  ASSUME TypeOK, NEW o \in Orders, NEW p \in Products
  PROVE  Planned(o, p) \in Nat
<1>1. tasks[o] \in Seq(Task)
  BY DEF TypeOK
<1>2. /\ IsFiniteSet(DOMAIN tasks[o])
      /\ \A i \in DOMAIN tasks[o] : Ships(tasks[o], p)[i] \in Nat
  BY <1>1, ShipsType
<1> QED
  BY <1>2, TotalType DEF Planned

LEMMA NewTaskType ==
  ASSUME NEW items \in [Products -> Nat]
  PROVE  NewTask(items) \in Task
BY DEF NewTask, Task, TaskStatus, OpenStatus, NextStatus

-----------------------------------------------------------------------------
\* What the automation does to the stock, after a request that approved an
\* order (or none) and received stock (or none).
LEMMA AllocationStep ==
  ASSUME LedgerInv, AllocateApprovedOrders,
         status' \in [Orders -> OrderStatus],
         approvedAt' \in [Orders -> Nat],
         onHand' \in [Products -> Nat],
         \A p \in Products : onHand[p] <= onHand'[p]
  PROVE  /\ \A o \in Orders, p \in Products :
              /\ Granted(o, p) \in Nat
              /\ Granted(o, p) <= line[o][p] - reservation[o][p]
              /\ o \notin Approved' => Granted(o, p) = 0
              /\ reservation'[o][p] = reservation[o][p] + Granted(o, p)
         /\ reservation' \in [Orders -> [Products -> Nat]]
         /\ reserved' \in [Products -> Nat]
         /\ \A p \in Products : /\ reserved'[p] = Total(HeldOf(p)', Orders)
                                /\ reserved'[p] <= onHand'[p]
<1>1. /\ IsFiniteSet(Orders) /\ Orders \subseteq Nat
      /\ Approved' \in SUBSET Nat /\ IsFiniteSet(Approved')
      /\ Approved' \subseteq Orders
  BY OrdersAssumption, FS_Subset DEF Approved
<1>2. \A o \in Orders, p \in Products :
        /\ reservation[o][p] \in Nat /\ line[o][p] \in Nat
        /\ reservation[o][p] <= line[o][p]
        /\ Wanted(p)[o] = line[o][p] - reservation[o][p]
        /\ Wanted(p)[o] \in Nat
  BY DEF LedgerInv, TypeOK, ReservedWithinLine, Wanted
<1>3. \A p \in Products :
        /\ reserved[p] \in Nat /\ onHand'[p] \in Nat /\ reserved[p] <= onHand'[p]
        /\ onHand'[p] - reserved[p] \in Nat
        /\ reserved[p] = Total(HeldOf(p), Orders)
  BY DEF LedgerInv, TypeOK, StockLedger, HeldOf
<1>4. ASSUME NEW o \in Orders, NEW p \in Products
      PROVE  /\ Granted(o, p) \in Nat
             /\ Granted(o, p) <= line[o][p] - reservation[o][p]
             /\ o \notin Approved' => Granted(o, p) = 0
  <2>1. CASE o \notin Approved'
    <3>1. Granted(o, p) = 0
      BY <2>1 DEF Granted, Grant
    <3> QED
      BY <3>1, <1>2
  <2>2. CASE o \in Approved'
    <3>1. /\ \A x \in Approved' : approvedAt'[x] \in Nat
          /\ \A x \in Approved' : Wanted(p)[x] \in Nat
      BY <1>1, <1>2
    <3>2. onHand'[p] - reserved[p] \in Nat
      BY <1>3
    <3>3. /\ Granted(o, p) \in Nat
          /\ Granted(o, p) <= Wanted(p)[o]
      BY <1>1, <2>2, <3>1, <3>2, GrantType DEF Granted
    <3> QED
      BY <2>2, <3>3, <1>2
  <2> QED
    BY <2>1, <2>2
<1>5. \A o \in Orders, p \in Products :
        reservation'[o][p] = reservation[o][p] + Granted(o, p)
  BY DEF AllocateApprovedOrders
<1>6. reservation' \in [Orders -> [Products -> Nat]]
  <2>1. \A o \in Orders, p \in Products : reservation[o][p] + Granted(o, p) \in Nat
    BY <1>2, <1>4
  <2> QED
    BY <2>1 DEF AllocateApprovedOrders
<1>7. ASSUME NEW p \in Products
      PROVE  /\ reserved'[p] \in Nat
             /\ reserved'[p] = Total(HeldOf(p)', Orders)
             /\ reserved'[p] <= onHand'[p]
  <2> DEFINE got == [o \in Orders |-> Granted(o, p)]
  <2>1. reserved'[p] = reserved[p] + Total(got, Orders)
    BY DEF AllocateApprovedOrders
  <2>2. \A o \in Orders : got[o] = Granted(o, p) /\ got[o] \in Nat
    BY <1>4
  <2>3. \A o \in Approved' :
          got[o] = Grant(Wanted(p), onHand'[p] - reserved[p], Approved', approvedAt', o)
    BY <1>1, <2>2 DEF Granted
  <2> HIDE DEF got
  <2>4. /\ \A x \in Approved' : approvedAt'[x] \in Nat
        /\ \A x \in Approved' : Wanted(p)[x] \in Nat
        /\ onHand'[p] - reserved[p] \in Nat
    BY <1>1, <1>2, <1>3
  <2>5. Total(got, Approved') \in Nat /\ Total(got, Approved') <= onHand'[p] - reserved[p]
    BY <1>1, <2>3, <2>4, GrantsWithinStock
  <2>6. Total(got, Orders \ Approved') = 0
    BY <1>4, <2>2, TotalZeros
  <2>7. Total(got, Approved' \cup (Orders \ Approved'))
          = Total(got, Approved') + Total(got, Orders \ Approved')
    <3>1. IsFiniteSet(Orders \ Approved')
      BY <1>1, FS_Difference
    <3> QED
      BY <1>1, <2>2, <3>1, TotalUnion
  <2>8. Approved' \cup (Orders \ Approved') = Orders
    BY <1>1
  <2>9. Total(got, Orders) = Total(got, Approved')
    BY <2>5, <2>6, <2>7, <2>8
  <2>10. \A o \in Orders : /\ HeldOf(p)[o] \in Nat
                           /\ HeldOf(p)'[o] = HeldOf(p)[o] + got[o]
    <3>1. \A o \in Orders : HeldOf(p)[o] = reservation[o][p]
                            /\ HeldOf(p)'[o] = reservation'[o][p]
      BY DEF HeldOf
    <3> QED
      BY <3>1, <1>2, <1>5, <2>2
  <2>11. Total(HeldOf(p)', Orders) = Total(HeldOf(p), Orders) + Total(got, Orders)
    <3> DEFINE old == HeldOf(p)
               new == HeldOf(p)'
    <3>1. \A o \in Orders : /\ old[o] \in Nat /\ got[o] \in Nat
                            /\ new[o] = old[o] + got[o]
      BY <2>2, <2>10
    <3> HIDE DEF old, new
    <3>2. Total(new, Orders) = Total(old, Orders) + Total(got, Orders)
      BY <1>1, <3>1, TotalSum, ZenonT(30)
    <3> QED
      BY <3>2 DEF old, new
  <2> QED
    BY <1>3, <2>1, <2>5, <2>9, <2>11
<1>8. reserved' \in [Products -> Nat]
  BY <1>7 DEF AllocateApprovedOrders
<1> QED
  BY <1>4, <1>5, <1>6, <1>7, <1>8

-----------------------------------------------------------------------------
\* One step per request.

LEMMA LedgerInit == Init => LedgerInv
<1> SUFFICES ASSUME Init PROVE LedgerInv
  OBVIOUS
<1>1. TypeOK
  BY DEF Init, TypeOK, OrderStatus, Nothing
<1>2. ASSUME NEW p \in Products
      PROVE  Total([o \in Orders |-> reservation[o][p]], Orders) = 0
  <2>1. \A o \in Orders : [a \in Orders |-> reservation[a][p]][o] = 0
    BY DEF Init, Nothing
  <2> QED
    BY <2>1, TotalZeros
<1>3. StockLedger
  BY <1>2 DEF Init, Nothing, StockLedger
<1>4. OnlyLiveOrdersHoldStock
  BY DEF Init, OnlyLiveOrdersHoldStock
<1>5. ReservedWithinLine
  BY DEF Init, Nothing, ReservedWithinLine
<1> QED
  BY <1>1, <1>3, <1>4, <1>5 DEF LedgerInv

\* The automation, whatever request it ends.
LEMMA LedgerProcess ==
  ASSUME LedgerInv, Process,
         status' \in [Orders -> OrderStatus],
         \A o \in Orders : status[o] \in Live => status'[o] \in Live,
         partial' \in [Orders -> BOOLEAN],
         approvedAt' \in [Orders -> Nat],
         onHand' \in [Products -> Nat],
         \A p \in Products : onHand[p] <= onHand'[p],
         line' = line, requests' = requests
  PROVE  LedgerInv'
<1>1. /\ \A o \in Orders, p \in Products :
           /\ Granted(o, p) \in Nat
           /\ Granted(o, p) <= line[o][p] - reservation[o][p]
           /\ o \notin Approved' => Granted(o, p) = 0
           /\ reservation'[o][p] = reservation[o][p] + Granted(o, p)
      /\ reservation' \in [Orders -> [Products -> Nat]]
      /\ reserved' \in [Products -> Nat]
      /\ \A p \in Products : /\ reserved'[p] = Total(HeldOf(p)', Orders)
                             /\ reserved'[p] <= onHand'[p]
  BY AllocationStep DEF Process
<1>2. TypeOK
  BY DEF LedgerInv
<1>3. tasks' \in [Orders -> Seq(Task)]
  <2>1. ASSUME NEW o \in Orders PROVE Unplanned(o) \in [Products -> Nat]
    <3>1. \A p \in Products : reservation'[o][p] \in Nat /\ Planned(o, p) \in Nat
      BY <1>1, <1>2, PlannedType
    <3>2. \A p \in Products : Beyond(reservation'[o][p], Planned(o, p)) \in Nat
      BY <3>1 DEF Beyond
    <3> QED
      BY <3>2 DEF Unplanned
  <2>2. \A o \in Orders : NewTask(Unplanned(o)) \in Task
    BY <2>1, NewTaskType
  <2>3. \A o \in Orders : tasks[o] \in Seq(Task)
    BY <1>2 DEF TypeOK
  <2>4. \A o \in Orders : Append(tasks[o], NewTask(Unplanned(o))) \in Seq(Task)
    BY <2>2, <2>3
  <2> QED
    BY <2>3, <2>4 DEF Process, CreateTasks
<1>4. TypeOK'
  BY <1>1, <1>2, <1>3 DEF TypeOK
<1>5. StockLedger'
  BY <1>1 DEF StockLedger, HeldOf
<1>6. OnlyLiveOrdersHoldStock'
  <2>1. SUFFICES ASSUME NEW o \in Orders, status'[o] \notin Live
                 PROVE  reservation'[o] = Nothing
    BY DEF OnlyLiveOrdersHoldStock, Live, Nothing
  <2>2. reservation[o] = Nothing
    BY <2>1 DEF LedgerInv, OnlyLiveOrdersHoldStock
  <2>3. o \notin Approved'
    BY <2>1 DEF Approved, Live
  <2>4. \A p \in Products : reservation'[o][p] = 0
    BY <1>1, <2>2, <2>3 DEF Nothing
  <2>5. reservation'[o] \in [Products -> Nat]
    BY <1>1
  <2> QED
    BY <2>4, <2>5 DEF Nothing
<1>7. ReservedWithinLine'
  <2>1. \A o \in Orders, p \in Products :
          reservation[o][p] \in Nat /\ line[o][p] \in Nat
    BY <1>2 DEF TypeOK
  <2>2. \A o \in Orders, p \in Products : reservation'[o][p] <= line[o][p]
    BY <1>1, <2>1
  <2> QED
    BY <2>2 DEF ReservedWithinLine
<1> QED
  BY <1>4, <1>5, <1>6, <1>7 DEF LedgerInv

\* Requests that leave the stock and the reservations alone.
LEMMA LedgerUntouched ==
  ASSUME LedgerInv, TypeOK', UNCHANGED stockVars,
         \A o \in Orders : status[o] \in Live => status'[o] \in Live,
         \A o \in Orders : status[o] \in Live => line'[o] = line[o]
  PROVE  LedgerInv'
<1>1. reservation' = reservation /\ reserved' = reserved /\ onHand' = onHand
  BY DEF stockVars
<1>2. StockLedger'
  BY <1>1 DEF LedgerInv, StockLedger
<1>3. OnlyLiveOrdersHoldStock'
  BY <1>1 DEF LedgerInv, OnlyLiveOrdersHoldStock, Live, Nothing
<1>4. ReservedWithinLine'
  <2>1. SUFFICES ASSUME NEW o \in Orders, NEW p \in Products
                 PROVE  reservation[o][p] <= line'[o][p]
    BY <1>1 DEF ReservedWithinLine
  <2>2. CASE status[o] \in Live
    BY <2>2 DEF LedgerInv, ReservedWithinLine
  <2>3. CASE status[o] \notin Live
    <3>1. reservation[o][p] = 0
      BY <2>3 DEF LedgerInv, OnlyLiveOrdersHoldStock, Nothing
    <3>2. line'[o][p] \in Nat
      BY DEF TypeOK
    <3> QED
      BY <3>1, <3>2
  <2> QED
    BY <2>2, <2>3
<1> QED
  BY <1>2, <1>3, <1>4 DEF LedgerInv

LEMMA LedgerSubmit ==
  ASSUME LedgerInv, NEW o \in Orders, NEW cart \in Carts, Submit(o, cart)
  PROVE  LedgerInv'
<1>1. cart \in [Products -> Nat]
  BY CartsAssumption
<1>2. TypeOK'
  BY <1>1 DEF LedgerInv, TypeOK, Submit, OrderStatus, stockVars
<1>3. /\ \A a \in Orders : status[a] \in Live => status'[a] \in Live
      /\ \A a \in Orders : status[a] \in Live => line'[a] = line[a]
  BY DEF LedgerInv, TypeOK, Submit, Live
<1> QED
  BY <1>2, <1>3, LedgerUntouched DEF Submit

LEMMA LedgerApprove ==
  ASSUME LedgerInv, NEW o \in Orders, NEW allowPartial \in BOOLEAN,
         NEW now \in 0..MaxTime, ApproveOrder(o, allowPartial, now)
  PROVE  LedgerInv'
<1>1. /\ status' \in [Orders -> OrderStatus]
      /\ \A a \in Orders : status[a] \in Live => status'[a] \in Live
      /\ partial' \in [Orders -> BOOLEAN]
      /\ approvedAt' \in [Orders -> Nat]
      /\ line' = line /\ onHand' = onHand /\ requests' = requests
  BY BoundsAssumption DEF LedgerInv, TypeOK, ApproveOrder, OrderStatus, Live
<1>2. onHand' \in [Products -> Nat] /\ \A p \in Products : onHand[p] <= onHand'[p]
  BY <1>1 DEF LedgerInv, TypeOK
<1> QED
  BY <1>1, <1>2, LedgerProcess DEF ApproveOrder

LEMMA LedgerReject ==
  ASSUME LedgerInv, NEW o \in Orders, RejectOrder(o)
  PROVE  LedgerInv'
<1>1. TypeOK'
  BY DEF LedgerInv, TypeOK, RejectOrder, OrderStatus, stockVars
<1>2. /\ \A a \in Orders : status[a] \in Live => status'[a] \in Live
      /\ line' = line
  BY DEF LedgerInv, TypeOK, RejectOrder, Live
<1> QED
  BY <1>1, <1>2, LedgerUntouched DEF RejectOrder

LEMMA LedgerStock ==
  ASSUME LedgerInv, NEW p \in Products, NEW quantity \in 1..MaxReceipt,
         StockProduct(p, quantity)
  PROVE  LedgerInv'
<1>1. /\ status' = status /\ partial' = partial /\ approvedAt' = approvedAt
      /\ line' = line /\ requests' = requests
      /\ onHand' = [onHand EXCEPT ![p] = @ + quantity]
  BY DEF StockProduct, orderVars
<1>2. quantity \in Nat
  BY BoundsAssumption
<1>3. /\ onHand' \in [Products -> Nat]
      /\ \A r \in Products : onHand[r] <= onHand'[r]
  BY <1>1, <1>2 DEF LedgerInv, TypeOK
<1>4. /\ status' \in [Orders -> OrderStatus] /\ partial' \in [Orders -> BOOLEAN]
      /\ approvedAt' \in [Orders -> Nat]
      /\ \A a \in Orders : status[a] \in Live => status'[a] \in Live
  BY <1>1 DEF LedgerInv, TypeOK
<1> QED
  BY <1>1, <1>3, <1>4, LedgerProcess DEF StockProduct

LEMMA LedgerShipment ==
  ASSUME LedgerInv, NEW o \in Orders, NEW items \in [Products -> Nat],
         CreateShipment(o, items)
  PROVE  LedgerInv'
<1>1. NewTask(items) \in Task
  BY NewTaskType
<1>2. TypeOK'
  BY <1>1 DEF LedgerInv, TypeOK, CreateShipment, orderVars, stockVars
<1>3. status' = status /\ line' = line
  BY DEF CreateShipment, orderVars
<1> QED
  BY <1>2, <1>3, LedgerUntouched DEF CreateShipment

\* A task that moves on is still a task.
LEMMA AdvanceType ==
  ASSUME TypeOK, NEW o \in Orders, NEW i \in DOMAIN tasks[o], AdvanceStatus(o, i)
  PROVE  /\ tasks' \in [Orders -> Seq(Task)]
         /\ status' \in [Orders -> OrderStatus]
         /\ \A a \in Orders : status'[a] \in {status[a], "ready_to_ship"}
<1>1. tasks[o] \in Seq(Task)
  BY DEF TypeOK
<1>2. tasks[o][i] \in Task
  BY <1>1
<1>3. NextStatus[tasks[o][i].status] \in TaskStatus
  BY DEF AdvanceStatus, OpenStatus, NextStatus, TaskStatus
<1>4. [tasks[o][i] EXCEPT !.status = NextStatus[@]] \in Task
  BY <1>2, <1>3 DEF Task
<1>5. [tasks[o] EXCEPT ![i] = [tasks[o][i] EXCEPT !.status = NextStatus[@]]] \in Seq(Task)
  BY <1>1, <1>4
<1>6. tasks' = [tasks EXCEPT
                  ![o] = [tasks[o] EXCEPT
                            ![i] = [tasks[o][i] EXCEPT !.status = NextStatus[@]]]]
  BY DEF AdvanceStatus
<1>7. tasks' \in [Orders -> Seq(Task)]
  BY <1>5, <1>6 DEF TypeOK
<1>8. status' = status \/ status' = [status EXCEPT ![o] = "ready_to_ship"]
  BY DEF AdvanceStatus
<1> QED
  BY <1>7, <1>8 DEF TypeOK, OrderStatus

LEMMA LedgerAdvance ==
  ASSUME LedgerInv, NEW o \in Orders, NEW i \in DOMAIN tasks[o], AdvanceStatus(o, i)
  PROVE  LedgerInv'
<1>1. /\ tasks' \in [Orders -> Seq(Task)]
      /\ status' \in [Orders -> OrderStatus]
      /\ \A a \in Orders : status'[a] \in {status[a], "ready_to_ship"}
  BY AdvanceType DEF LedgerInv
<1>2. TypeOK'
  BY <1>1 DEF LedgerInv, TypeOK, AdvanceStatus, stockVars
<1>3. /\ \A a \in Orders : status[a] \in Live => status'[a] \in Live
      /\ line' = line
  BY <1>1 DEF AdvanceStatus, Live
<1> QED
  BY <1>2, <1>3, LedgerUntouched DEF AdvanceStatus

LEMMA LedgerRequest ==
  ASSUME LedgerInv, NEW o \in Orders, NEW type \in {"change", "cancellation"},
         RequestChange(o, type)
  PROVE  LedgerInv'
<1>1. [type |-> type, status |-> "pending"] \in Request
  BY DEF Request
<1>2. TypeOK'
  BY <1>1 DEF LedgerInv, TypeOK, RequestChange, orderVars, stockVars
<1>3. status' = status /\ line' = line
  BY DEF RequestChange, orderVars
<1> QED
  BY <1>2, <1>3, LedgerUntouched DEF RequestChange

\* Changing what one order holds of a product changes the total by as much.
LEMMA HeldOfOne ==
  ASSUME NEW f, NEW g, NEW o \in Orders,
         \A a \in Orders : f[a] \in Nat /\ g[a] \in Nat,
         \A a \in Orders \ {o} : g[a] = f[a]
  PROVE  /\ Total(f, Orders) \in Nat /\ Total(g, Orders) \in Nat
         /\ Total(g, Orders) + f[o] = Total(f, Orders) + g[o]
<1>1. IsFiniteSet(Orders) /\ IsFiniteSet(Orders \ {o})
  BY OrdersAssumption, FS_RemoveElement
<1>2. Total(f, Orders) = f[o] + Total(f, Orders \ {o})
  BY <1>1, TotalRemove
<1>3. Total(g, Orders) = g[o] + Total(g, Orders \ {o})
  BY <1>1, TotalRemove
<1>4. Total(f, Orders \ {o}) = Total(g, Orders \ {o})
  BY TotalEqual
<1>5. Total(f, Orders \ {o}) \in Nat /\ Total(f, Orders) \in Nat
      /\ Total(g, Orders) \in Nat
  BY <1>1, TotalType
<1> QED
  BY <1>2, <1>3, <1>4, <1>5

LEMMA LedgerReserve ==
  ASSUME LedgerInv, NEW o \in Orders, NEW p \in Products, NEW quantity \in Nat,
         Reserve(o, p, quantity)
  PROVE  LedgerInv'
<1>1. /\ status' = status /\ line' = line /\ partial' = partial
      /\ approvedAt' = approvedAt /\ onHand' = onHand /\ tasks' = tasks
      /\ requests' = requests
      /\ reservation' = [reservation EXCEPT ![o][p] = @ + quantity]
      /\ reserved' = [reserved EXCEPT ![p] = @ + quantity]
  BY DEF Reserve, orderVars
<1>2. TypeOK'
  BY <1>1 DEF LedgerInv, TypeOK
<1>3. ASSUME NEW r \in Products
      PROVE  /\ reserved'[r] = Total(HeldOf(r)', Orders)
             /\ reserved'[r] <= onHand'[r]
  <2>1. /\ reserved[r] = Total(HeldOf(r), Orders) /\ reserved[r] <= onHand[r]
        /\ reserved[r] \in Nat /\ onHand[r] \in Nat
    BY DEF LedgerInv, TypeOK, StockLedger, HeldOf
  <2>2. CASE r # p
    <3>1. HeldOf(r)' = HeldOf(r) /\ reserved'[r] = reserved[r]
      BY <1>1, <2>2 DEF LedgerInv, TypeOK, HeldOf
    <3> QED
      BY <2>1, <3>1, <1>1
  <2>3. CASE r = p
    <3> DEFINE f == HeldOf(p)
               g == HeldOf(p)'
    <3>1. /\ \A a \in Orders : f[a] \in Nat /\ g[a] \in Nat
          /\ \A a \in Orders \ {o} : g[a] = f[a]
          /\ g[o] = f[o] + quantity
      BY <1>1, <1>2 DEF LedgerInv, TypeOK, HeldOf
    <3> HIDE DEF f, g
    <3>2. /\ Total(f, Orders) \in Nat /\ Total(g, Orders) \in Nat
          /\ Total(g, Orders) + f[o] = Total(f, Orders) + g[o]
      BY <3>1, HeldOfOne
    <3>3. f[o] \in Nat
      BY <3>1
    <3>4. Total(g, Orders) = Total(f, Orders) + quantity
      <4>1. g[o] = f[o] + quantity
        BY <3>1
      <4>2. Total(g, Orders) + f[o] = Total(f, Orders) + (f[o] + quantity)
        BY <3>2, <4>1
      <4> QED
        BY <3>2, <3>3, <4>2
    <3>5. reserved'[p] = reserved[p] + quantity
      BY <1>1 DEF LedgerInv, TypeOK
    <3>6. onHand[p] - reserved[p] >= quantity
      BY DEF Reserve
    <3>7. reserved'[p] = Total(g, Orders)
      BY <2>1, <2>3, <3>4, <3>5 DEF f
    <3>8. reserved'[p] <= onHand'[p]
      BY <1>1, <2>1, <2>3, <3>5, <3>6
    <3> QED
      BY <2>3, <3>7, <3>8 DEF g
  <2> QED
    BY <2>2, <2>3
<1>4. StockLedger'
  BY <1>3 DEF StockLedger, HeldOf
<1>5. OnlyLiveOrdersHoldStock'
  <2>1. \A a \in Orders : a # o => reservation'[a] = reservation[a]
    BY <1>1 DEF LedgerInv, TypeOK
  <2>2. status[o] \in Live
    BY DEF Reserve, Live
  <2> QED
    BY <1>1, <2>1, <2>2 DEF LedgerInv, OnlyLiveOrdersHoldStock, Live, Nothing
<1>6. ReservedWithinLine'
  <2>1. \A a \in Orders, r \in Products :
          ~(a = o /\ r = p) => reservation'[a][r] = reservation[a][r]
    BY <1>1 DEF LedgerInv, TypeOK
  <2>2. reservation'[o][p] = reservation[o][p] + quantity
    BY <1>1 DEF LedgerInv, TypeOK
  <2>3. reservation[o][p] + quantity <= line[o][p]
    BY DEF Reserve
  <2> QED
    BY <1>1, <2>1, <2>2, <2>3 DEF LedgerInv, ReservedWithinLine
<1> QED
  BY <1>2, <1>4, <1>5, <1>6 DEF LedgerInv

\* cancel_order_tasks keeps tasks what they are.
LEMMA CancelledTasksType ==
  ASSUME NEW s \in Seq(Task)
  PROVE  [i \in DOMAIN s |-> [s[i] EXCEPT !.status = "cancelled"]] \in Seq(Task)
<1>1. \A i \in DOMAIN s : s[i] \in Task
  OBVIOUS
<1>2. \A i \in DOMAIN s : [s[i] EXCEPT !.status = "cancelled"] \in Task
  BY <1>1 DEF Task, TaskStatus
<1>3. DOMAIN s = 1..Len(s) /\ Len(s) \in Nat
  OBVIOUS
<1> QED
  BY <1>2, <1>3

LEMMA LedgerCancel ==
  ASSUME LedgerInv, NEW o \in Orders, CancelOrder(o),
         requests' \in [Orders -> Seq(Request)]
  PROVE  LedgerInv'
<1>1. /\ line' = line /\ partial' = partial /\ approvedAt' = approvedAt
      /\ onHand' = onHand
      /\ status' = [status EXCEPT ![o] = "cancelled"]
      /\ reservation' = [reservation EXCEPT ![o] = Nothing]
      /\ reserved' = [p \in Products |-> reserved[p] - reservation[o][p]]
      /\ tasks' = [tasks EXCEPT
                     ![o] = [i \in DOMAIN tasks[o] |->
                               [tasks[o][i] EXCEPT !.status = "cancelled"]]]
  BY DEF CancelOrder, CancelTasks, ReleaseReservations, CancelStatus
<1>2. reservation' \in [Orders -> [Products -> Nat]]
  BY <1>1 DEF LedgerInv, TypeOK, Nothing
<1>3. tasks' \in [Orders -> Seq(Task)]
  <2>1. [i \in DOMAIN tasks[o] |-> [tasks[o][i] EXCEPT !.status = "cancelled"]]
          \in Seq(Task)
    BY CancelledTasksType DEF LedgerInv, TypeOK
  <2> QED
    BY <1>1, <2>1 DEF LedgerInv, TypeOK
<1>4. ASSUME NEW p \in Products
      PROVE  /\ reserved'[p] \in Nat
             /\ reserved'[p] = Total(HeldOf(p)', Orders)
             /\ reserved'[p] <= onHand'[p]
  <2> DEFINE f == HeldOf(p)
             g == HeldOf(p)'
  <2>1. /\ reserved[p] = Total(f, Orders) /\ reserved[p] <= onHand[p]
        /\ reserved[p] \in Nat /\ onHand[p] \in Nat
    BY DEF LedgerInv, TypeOK, StockLedger, HeldOf
  <2>2. /\ \A a \in Orders : f[a] \in Nat /\ g[a] \in Nat
        /\ \A a \in Orders \ {o} : g[a] = f[a]
        /\ g[o] = 0 /\ f[o] = reservation[o][p]
    BY <1>1, <1>2 DEF LedgerInv, TypeOK, HeldOf, Nothing
  <2>3. reserved'[p] = reserved[p] - reservation[o][p]
    BY <1>1
  <2> HIDE DEF f, g
  <2>4. /\ Total(g, Orders) \in Nat
        /\ Total(g, Orders) + f[o] = Total(f, Orders) + g[o]
    BY <2>2, HeldOfOne
  <2>5. reserved'[p] = Total(g, Orders)
    BY <2>1, <2>2, <2>3, <2>4
  <2>6. f[o] \in Nat
    BY <2>2
  <2>7. reserved'[p] <= onHand[p]
    BY <2>1, <2>2, <2>3, <2>6
  <2> QED
    BY <1>1, <2>4, <2>5, <2>7 DEF g
<1>5. reserved' \in [Products -> Nat]
  BY <1>1, <1>4
<1>6. TypeOK'
  BY <1>1, <1>2, <1>3, <1>5 DEF LedgerInv, TypeOK, OrderStatus
<1>7. StockLedger'
  BY <1>4 DEF StockLedger, HeldOf
<1>8. OnlyLiveOrdersHoldStock'
  BY <1>1 DEF LedgerInv, TypeOK, OnlyLiveOrdersHoldStock, Live, Nothing
<1>9. ReservedWithinLine'
  BY <1>1 DEF LedgerInv, TypeOK, ReservedWithinLine, Nothing
<1> QED
  BY <1>6, <1>7, <1>8, <1>9 DEF LedgerInv

LEMMA LedgerDecide ==
  ASSUME LedgerInv, NEW o \in Orders, NEW approve \in BOOLEAN,
         NEW i \in DOMAIN requests[o], DecideChangeRequest(o, i, approve)
  PROVE  LedgerInv'
<1>1. requests' \in [Orders -> Seq(Request)]
  <2> DEFINE new == IF approve THEN "approved" ELSE "rejected"
  <2>1. requests[o] \in Seq(Request) /\ requests[o][i] \in Request
    BY DEF LedgerInv, TypeOK
  <2>2. [requests[o][i] EXCEPT !.status = new] \in Request
    BY <2>1 DEF Request
  <2>3. [requests[o] EXCEPT ![i] = [requests[o][i] EXCEPT !.status = new]] \in Seq(Request)
    BY <2>1, <2>2
  <2>4. requests' = [requests EXCEPT
                       ![o] = [requests[o] EXCEPT
                                 ![i] = [requests[o][i] EXCEPT !.status = new]]]
    BY DEF DecideChangeRequest
  <2> QED
    BY <2>3, <2>4 DEF LedgerInv, TypeOK
<1>2. CASE approve /\ requests[o][i].type = "cancellation"
  BY <1>1, <1>2, LedgerCancel DEF DecideChangeRequest
<1>3. CASE ~(approve /\ requests[o][i].type = "cancellation")
  <2>1. UNCHANGED <<orderVars, stockVars, tasks>>
    BY <1>3 DEF DecideChangeRequest
  <2>2. TypeOK'
    BY <1>1, <2>1 DEF LedgerInv, TypeOK, orderVars, stockVars
  <2>3. status' = status /\ line' = line
    BY <2>1 DEF orderVars
  <2> QED
    BY <2>1, <2>2, <2>3, LedgerUntouched
<1> QED
  BY <1>2, <1>3

LEMMA LedgerStep == LedgerInv /\ [Next]_vars => LedgerInv'
<1> SUFFICES ASSUME LedgerInv, [Next]_vars PROVE LedgerInv'
  OBVIOUS
<1>1. CASE UNCHANGED vars
  <2>1. TypeOK' /\ UNCHANGED stockVars /\ status' = status /\ line' = line
    BY <1>1 DEF LedgerInv, TypeOK, vars, stockVars
  <2> QED
    BY <2>1, LedgerUntouched
<1>2. CASE \E o \in Orders, cart \in Carts : Submit(o, cart)
  BY <1>2, LedgerSubmit
<1>3. CASE \E o \in Orders, allowPartial \in BOOLEAN, now \in 0..MaxTime :
             ApproveOrder(o, allowPartial, now)
  BY <1>3, LedgerApprove
<1>4. CASE \E o \in Orders : RejectOrder(o)
  BY <1>4, LedgerReject
<1>5. CASE \E p \in Products, quantity \in 1..MaxReceipt : StockProduct(p, quantity)
  BY <1>5, LedgerStock
<1>6. CASE \E o \in Orders, p \in Products : \E quantity \in 1..line[o][p] :
             Reserve(o, p, quantity)
  <2>1. PICK o \in Orders, p \in Products : \E quantity \in 1..line[o][p] :
               Reserve(o, p, quantity)
    BY <1>6
  <2>2. PICK quantity \in 1..line[o][p] : Reserve(o, p, quantity)
    BY <2>1
  <2>3. quantity \in Nat
    BY DEF LedgerInv, TypeOK
  <2> QED
    BY <2>2, <2>3, LedgerReserve
<1>7. CASE \E o \in Orders, items \in [Products -> 0..MaxStock] :
             CreateShipment(o, items)
  <2>1. [Products -> 0..MaxStock] \subseteq [Products -> Nat]
    BY BoundsAssumption
  <2> QED
    BY <1>7, <2>1, LedgerShipment
<1>8. CASE \E o \in Orders : \E i \in DOMAIN tasks[o] : AdvanceStatus(o, i)
  BY <1>8, LedgerAdvance
<1>9. CASE \E o \in Orders, type \in {"change", "cancellation"} : RequestChange(o, type)
  BY <1>9, LedgerRequest
<1>10. CASE \E o \in Orders, approve \in BOOLEAN : \E i \in DOMAIN requests[o] :
              DecideChangeRequest(o, i, approve)
  BY <1>10, LedgerDecide
<1> QED
  BY <1>1, <1>2, <1>3, <1>4, <1>5, <1>6, <1>7, <1>8, <1>9, <1>10 DEF Next

\* The ledger invariant holds in every reachable state.
THEOREM LedgerInvariant == Spec => []LedgerInv
BY LedgerInit, LedgerStep, PTL DEF Spec

\* Every variable keeps its type, counters never go below zero.
THEOREM TypeCorrect == Spec => []TypeOK
<1>1. LedgerInv => TypeOK
  BY DEF LedgerInv
<1> QED
  BY <1>1, LedgerInvariant, PTL

\* The reserved counter is the sum of the reservations, within the stock.
THEOREM LedgerCorrect == Spec => []StockLedger
<1>1. LedgerInv => StockLedger
  BY DEF LedgerInv
<1> QED
  BY <1>1, LedgerInvariant, PTL

\* Only approved and ready orders hold stock.
THEOREM HoldersCorrect == Spec => []OnlyLiveOrdersHoldStock
<1>1. LedgerInv => OnlyLiveOrdersHoldStock
  BY DEF LedgerInv
<1> QED
  BY <1>1, LedgerInvariant, PTL
=============================================================================
