----------------------- MODULE FulfillmentTaskProofs ------------------------
(***************************************************************************)
(* Theorems about the warehouse tasks of Fulfillment, the priority of the  *)
(* automation and the contract of StockPromises.                           *)
(***************************************************************************)
EXTENDS FulfillmentProofs

\* What the tasks of one order look like in each status of the order.
TaskInvOf(o) ==
  /\ \A i \in DOMAIN tasks[o] : tasks[o][i].items # Nothing
  /\ status[o] \notin Live \cup {"cancelled"} => tasks[o] = <<>>
  /\ status[o] = "draft" => line[o] = Nothing
  /\ status[o] = "cancelled" =>
       \A i \in DOMAIN tasks[o] : tasks[o][i].status = "cancelled"
  /\ status[o] = "ready_to_ship" =>
       /\ tasks[o] # <<>>
       /\ Complete(o)
       /\ \A i \in DOMAIN tasks[o] : tasks[o][i].status = "ready_to_ship"
  /\ status[o] = "approved" /\ tasks[o] # <<>> => ~Complete(o)
  /\ status[o] \in Live => \A p \in Products : Planned(o, p) <= reservation[o][p]
  /\ status[o] \in Live /\ ~partial[o] /\ tasks[o] # <<>> =>
       \A p \in Products : Planned(o, p) = line[o][p]

FulfillmentInv == LedgerInv /\ \A o \in Orders : TaskInvOf(o)

-----------------------------------------------------------------------------
\* When ready tasks cover all the lines and the tasks together ship no more
\* than the lines, there is no other task.
LEMMA CompleteMeansAllReady ==
  ASSUME NEW ts \in Seq(Task), NEW ln \in [Products -> Nat],
         \A i \in DOMAIN ts : ts[i].items # Nothing,
         \A p \in Products : Total(Ships(ts, p), DOMAIN ts) <= ln[p],
         \A p \in Products :
           Total(Ships(ts, p), {i \in DOMAIN ts : ts[i].status = "ready_to_ship"}) = ln[p],
         NEW j \in DOMAIN ts
  PROVE  ts[j].status = "ready_to_ship"
<1> DEFINE R == {i \in DOMAIN ts : ts[i].status = "ready_to_ship"}
<1>1. SUFFICES ASSUME j \notin R PROVE FALSE
  OBVIOUS
<1>2. ts[j] \in Task
  OBVIOUS
<1>3. PICK p \in Products : ts[j].items[p] # 0
  <2>1. ts[j].items \in [Products -> Nat] /\ ts[j].items # Nothing
    BY <1>2 DEF Task
  <2> QED
    BY <2>1 DEF Nothing
<1>4. /\ IsFiniteSet(DOMAIN ts)
      /\ \A i \in DOMAIN ts : Ships(ts, p)[i] \in Nat
      /\ Ships(ts, p)[j] = ts[j].items[p]
  BY ShipsType
<1>5. R \subseteq DOMAIN ts /\ IsFiniteSet(R) /\ R \cup {j} \in SUBSET (DOMAIN ts)
  BY <1>4, FS_Subset
<1>6. Total(Ships(ts, p), R \cup {j}) = Total(Ships(ts, p), R) + Ships(ts, p)[j]
  BY <1>1, <1>4, <1>5, TotalAdd
<1>7. Total(Ships(ts, p), R \cup {j}) <= Total(Ships(ts, p), DOMAIN ts)
  BY <1>4, <1>5, TotalMonotone
<1>8. /\ Total(Ships(ts, p), R) = ln[p]
      /\ Total(Ships(ts, p), DOMAIN ts) <= ln[p]
  OBVIOUS
<1>9. Total(Ships(ts, p), DOMAIN ts) \in Nat /\ ln[p] \in Nat
  BY <1>4, TotalType
<1>10. Ships(ts, p)[j] > 0 /\ Ships(ts, p)[j] \in Nat
  BY <1>3, <1>4
<1> HIDE DEF R
<1> QED
  BY <1>6, <1>7, <1>8, <1>9, <1>10

\* No task, nothing planned.
LEMMA NothingPlanned ==
  ASSUME NEW p \in Products
  PROVE  Total(Ships(<<>>, p), DOMAIN <<>>) = 0
<1>1. DOMAIN <<>> = {}
  OBVIOUS
<1> QED
  BY <1>1, TotalEmpty

\* A request that does not touch an order keeps its invariant.
LEMMA TasksUntouched ==
  ASSUME NEW o \in Orders, TaskInvOf(o),
         status'[o] = status[o], line'[o] = line[o], partial'[o] = partial[o],
         reservation'[o] = reservation[o], tasks'[o] = tasks[o]
  PROVE  TaskInvOf(o)'
BY DEF TaskInvOf, Planned, Complete, ReadyQuantity, ReadyTasks, Nothing, Live

\* A new task on an approved order that stays within the reservation.
LEMMA TasksAppend ==
  ASSUME NEW o \in Orders, TaskInvOf(o), TypeOK, TypeOK',
         NEW items \in [Products -> Nat], items # Nothing,
         tasks'[o] = Append(tasks[o], NewTask(items)),
         status'[o] = "approved", status[o] # "cancelled",
         line'[o] = line[o],
         \A p \in Products : /\ Planned(o, p) + items[p] <= reservation'[o][p]
                             /\ reservation'[o][p] <= line[o][p],
         ~partial'[o] => \A p \in Products : Planned(o, p) + items[p] = line[o][p]
  PROVE  TaskInvOf(o)'
<1> DEFINE ts == tasks[o]
           all == tasks'[o]
           t == NewTask(items)
<1>1. ts \in Seq(Task) /\ all \in Seq(Task) /\ t \in Task
  BY NewTaskType DEF TypeOK
<1>2. /\ DOMAIN all = DOMAIN ts \cup {Len(ts) + 1}
      /\ all[Len(ts) + 1] = t
      /\ \A i \in DOMAIN ts : all[i] = ts[i]
      /\ all # <<>>
  BY <1>1
<1>3. t.items = items /\ t.status = "pending"
  BY DEF NewTask
<1>4. \A p \in Products : Planned(o, p)' = Planned(o, p) + items[p]
  BY <1>1, <1>3, ShipsAppend DEF Planned
<1>5. \A i \in DOMAIN all : all[i].items # Nothing
  BY <1>2, <1>3 DEF TaskInvOf
<1>6. ~Complete(o)'
  <2>1. SUFFICES ASSUME Complete(o)' PROVE FALSE
    OBVIOUS
  <2>2. \A p \in Products :
          Total(Ships(all, p), {i \in DOMAIN all : all[i].status = "ready_to_ship"})
            = line[o][p]
    BY <2>1 DEF Complete, ReadyQuantity, ReadyTasks
  <2>3. \A p \in Products : Total(Ships(all, p), DOMAIN all) <= line[o][p]
    <3>1. ASSUME NEW p \in Products
          PROVE  Total(Ships(all, p), DOMAIN all) <= line[o][p]
      <4>1. Total(Ships(all, p), DOMAIN all) = Planned(o, p) + items[p]
        BY <1>4 DEF Planned
      <4>2. /\ Planned(o, p) \in Nat /\ items[p] \in Nat
            /\ reservation'[o][p] \in Nat /\ line[o][p] \in Nat
        BY PlannedType DEF TypeOK
      <4> QED
        BY <4>1, <4>2
    <3> QED
      BY <3>1
  <2>4. line[o] \in [Products -> Nat]
    BY DEF TypeOK
  <2> HIDE DEF all
  <2>5. \A j \in DOMAIN all : all[j].status = "ready_to_ship"
    BY <1>1, <1>5, <2>2, <2>3, <2>4, CompleteMeansAllReady
  <2> QED
    BY <1>2, <1>3, <2>5
<1>7. \A p \in Products : Planned(o, p)' <= reservation'[o][p]
  BY <1>4
<1>8. ~partial'[o] => \A p \in Products : Planned(o, p)' = line'[o][p]
  BY <1>4
<1> QED
  BY <1>2, <1>5, <1>6, <1>7, <1>8 DEF TaskInvOf, Live, Nothing

-----------------------------------------------------------------------------
\* One step per request.

LEMMA TasksInit == Init => \A o \in Orders : TaskInvOf(o)
BY DEF Init, TaskInvOf, Live, Nothing

\* The automation, at the end of a request that at most approved pending
\* orders: it cuts tasks from what it and earlier requests reserved.
LEMMA TasksProcess ==
  ASSUME FulfillmentInv, LedgerInv', Process, line' = line,
         \A p \in Products : onHand[p] <= onHand'[p],
         NEW o \in Orders,
         \/ status'[o] = status[o] /\ partial'[o] = partial[o]
         \/ status[o] = "pending_approval" /\ status'[o] = "approved"
  PROVE  TaskInvOf(o)'
<1> DEFINE items == Unplanned(o)
           append == /\ o \in Approved'
                     /\ FullyReserved(o)' \/ partial'[o]
                     /\ items # Nothing
<1>1. /\ \A p \in Products : /\ Granted(o, p) \in Nat
                             /\ o \notin Approved' => Granted(o, p) = 0
                             /\ reservation'[o][p] = reservation[o][p] + Granted(o, p)
      /\ reservation' \in [Orders -> [Products -> Nat]]
  BY AllocationStep DEF FulfillmentInv, LedgerInv, TypeOK, Process
<1>2. TaskInvOf(o) /\ TypeOK /\ TypeOK'
  BY DEF FulfillmentInv, LedgerInv
<1>3. tasks'[o] = IF append THEN Append(tasks[o], NewTask(items)) ELSE tasks[o]
  BY DEF Process, CreateTasks
<1>4. \A p \in Products : reservation[o][p] \in Nat /\ reservation'[o][p] \in Nat
                          /\ line[o][p] \in Nat /\ Planned(o, p) \in Nat
  BY <1>2, PlannedType DEF TypeOK
<1>5. \A p \in Products : reservation'[o][p] <= line[o][p]
  BY DEF LedgerInv, ReservedWithinLine
<1>6. CASE o \notin Approved'
  <2>1. status'[o] = status[o] /\ partial'[o] = partial[o]
    BY <1>6 DEF Approved
  <2>2. reservation'[o] = reservation[o]
    <3>1. \A p \in Products : reservation'[o][p] = reservation[o][p]
      BY <1>1, <1>4, <1>6
    <3> QED
      BY <1>1, <1>2, <3>1 DEF TypeOK
  <2>3. tasks'[o] = tasks[o]
    BY <1>3, <1>6
  <2> QED
    BY <1>2, <2>1, <2>2, <2>3, TasksUntouched
<1>7. CASE o \in Approved'
  <2>1. status'[o] = "approved" /\ status[o] \in {"approved", "pending_approval"}
    BY <1>7 DEF Approved
  <2>2. status[o] = "pending_approval" => tasks[o] = <<>>
    BY <1>2 DEF TaskInvOf, Live
  <2>3. \A p \in Products : Planned(o, p) <= reservation'[o][p]
    <3>1. \A p \in Products : reservation[o][p] <= reservation'[o][p]
      BY <1>1, <1>4
    <3>2. CASE status[o] = "pending_approval"
      <4>1. \A p \in Products : Planned(o, p) = 0
        BY <2>2, <3>2, NothingPlanned DEF Planned
      <4> QED
        BY <1>4, <4>1
    <3>3. CASE status[o] = "approved"
      <4>1. \A p \in Products : Planned(o, p) <= reservation[o][p]
        BY <1>2, <3>3 DEF TaskInvOf, Live
      <4> QED
        BY <1>4, <3>1, <4>1
    <3> QED
      BY <2>1, <3>2, <3>3
  <2>4. /\ items \in [Products -> Nat]
        /\ \A p \in Products : Planned(o, p) + items[p] = reservation'[o][p]
    <3>1. \A p \in Products : Beyond(reservation'[o][p], Planned(o, p))
                                = reservation'[o][p] - Planned(o, p)
      BY <1>4, <2>3 DEF Beyond
    <3> QED
      BY <1>4, <2>3, <3>1 DEF Unplanned
  <2>5. CASE append
    <3>1. \A p \in Products : /\ Planned(o, p) + items[p] <= reservation'[o][p]
                              /\ reservation'[o][p] <= line[o][p]
      BY <1>4, <1>5, <2>4
    <3>2. ~partial'[o] => \A p \in Products : Planned(o, p) + items[p] = line[o][p]
      BY <2>4, <2>5 DEF FullyReserved
    <3>3. /\ tasks'[o] = Append(tasks[o], NewTask(items)) /\ items # Nothing
          /\ status[o] # "cancelled" /\ line'[o] = line[o]
      BY <1>3, <2>1, <2>5
    <3> HIDE DEF items
    <3> QED
      BY <1>2, <2>1, <2>4, <3>1, <3>2, <3>3, TasksAppend
  <2>6. CASE ~append
    <3>1. tasks'[o] = tasks[o]
      BY <1>3, <2>6
    <3>2. CASE status[o] = "pending_approval"
      BY <1>2, <2>1, <2>2, <2>3, <3>1, <3>2 DEF TaskInvOf, Live, Planned, Nothing
    <3>3. CASE status[o] = "approved"
      <4>1. partial'[o] = partial[o] /\ line'[o] = line[o]
        BY <3>3
      <4> QED
        BY <1>2, <2>1, <2>3, <3>1, <3>3, <4>1
           DEF TaskInvOf, Live, Planned, Complete, ReadyQuantity, ReadyTasks, Nothing
    <3> QED
      BY <2>1, <3>2, <3>3
  <2> QED
    BY <2>5, <2>6
<1> QED
  BY <1>6, <1>7

LEMMA TasksApprove ==
  ASSUME FulfillmentInv, LedgerInv', NEW a \in Orders, NEW allowPartial \in BOOLEAN,
         NEW now \in 0..MaxTime, ApproveOrder(a, allowPartial, now),
         NEW o \in Orders
  PROVE  TaskInvOf(o)'
<1>1. /\ Process /\ line' = line /\ onHand' = onHand
      /\ status' = [status EXCEPT ![a] = "approved"]
      /\ partial' = [partial EXCEPT ![a] = allowPartial]
      /\ status[a] = "pending_approval"
  BY DEF ApproveOrder
<1>2. \A p \in Products : onHand[p] <= onHand'[p]
  BY <1>1 DEF FulfillmentInv, LedgerInv, TypeOK
<1>3. \/ status'[o] = status[o] /\ partial'[o] = partial[o]
      \/ status[o] = "pending_approval" /\ status'[o] = "approved"
  BY <1>1 DEF FulfillmentInv, LedgerInv, TypeOK
<1> QED
  BY <1>1, <1>2, <1>3, TasksProcess

LEMMA TasksStock ==
  ASSUME FulfillmentInv, LedgerInv', NEW p \in Products,
         NEW quantity \in 1..MaxReceipt, StockProduct(p, quantity),
         NEW o \in Orders
  PROVE  TaskInvOf(o)'
<1>1. /\ Process /\ line' = line /\ status' = status /\ partial' = partial
      /\ onHand' = [onHand EXCEPT ![p] = @ + quantity]
  BY DEF StockProduct, orderVars
<1>2. quantity \in Nat
  BY BoundsAssumption
<1>3. \A r \in Products : onHand[r] <= onHand'[r]
  <2>1. onHand \in [Products -> Nat]
    BY DEF FulfillmentInv, LedgerInv, TypeOK
  <2> QED
    BY <1>1, <1>2, <2>1
<1> QED
  BY <1>1, <1>3, TasksProcess

LEMMA TasksSubmit ==
  ASSUME FulfillmentInv, NEW a \in Orders, NEW cart \in Carts, Submit(a, cart),
         NEW o \in Orders
  PROVE  TaskInvOf(o)'
<1>1. /\ status' = [status EXCEPT ![a] = "pending_approval"]
      /\ line' = [line EXCEPT ![a] = cart]
      /\ partial' = partial /\ reservation' = reservation /\ tasks' = tasks
      /\ status[a] = "draft"
  BY DEF Submit, stockVars
<1>2. TaskInvOf(o) /\ TypeOK
  BY DEF FulfillmentInv, LedgerInv
<1>3. CASE o # a
  BY <1>1, <1>2, <1>3, TasksUntouched DEF TypeOK
<1>4. CASE o = a
  <2>1. status'[o] = "pending_approval" /\ tasks'[o] = <<>>
    BY <1>1, <1>2, <1>4 DEF TypeOK, TaskInvOf, Live
  <2> QED
    BY <2>1 DEF TaskInvOf, Live
<1> QED
  BY <1>3, <1>4

LEMMA TasksReject ==
  ASSUME FulfillmentInv, NEW a \in Orders, RejectOrder(a), NEW o \in Orders
  PROVE  TaskInvOf(o)'
<1>1. /\ status' = [status EXCEPT ![a] = "rejected"]
      /\ line' = line /\ partial' = partial /\ reservation' = reservation
      /\ tasks' = tasks /\ status[a] = "pending_approval"
  BY DEF RejectOrder, stockVars
<1>2. TaskInvOf(o) /\ TypeOK
  BY DEF FulfillmentInv, LedgerInv
<1>3. CASE o # a
  BY <1>1, <1>2, <1>3, TasksUntouched DEF TypeOK
<1>4. CASE o = a
  <2>1. status'[o] = "rejected" /\ tasks'[o] = <<>>
    BY <1>1, <1>2, <1>4 DEF TypeOK, TaskInvOf, Live
  <2> QED
    BY <2>1 DEF TaskInvOf, Live
<1> QED
  BY <1>3, <1>4

LEMMA TasksReserve ==
  ASSUME FulfillmentInv, LedgerInv', NEW a \in Orders, NEW p \in Products,
         NEW quantity \in Nat, Reserve(a, p, quantity), NEW o \in Orders
  PROVE  TaskInvOf(o)'
<1>1. /\ status' = status /\ line' = line /\ partial' = partial /\ tasks' = tasks
      /\ reservation' = [reservation EXCEPT ![a][p] = @ + quantity]
  BY DEF Reserve, orderVars
<1>2. TaskInvOf(o) /\ TypeOK
  BY DEF FulfillmentInv, LedgerInv
<1>3. \A r \in Products : /\ Planned(o, r)' = Planned(o, r)
                          /\ Planned(o, r) \in Nat
  BY <1>1, <1>2, PlannedType DEF Planned
<1>4. \A r \in Products : reservation[o][r] <= reservation'[o][r]
                          /\ reservation[o][r] \in Nat /\ reservation'[o][r] \in Nat
  <2>1. reservation \in [Orders -> [Products -> Nat]]
    BY <1>2 DEF TypeOK
  <2> QED
    BY <1>1, <2>1
<1>5. status[o] \in Live => \A r \in Products : Planned(o, r)' <= reservation'[o][r]
  BY <1>2, <1>3, <1>4 DEF TaskInvOf
<1> QED
  BY <1>1, <1>2, <1>3, <1>5
     DEF TaskInvOf, Complete, ReadyQuantity, ReadyTasks, Nothing, Live

LEMMA TasksShipment ==
  ASSUME FulfillmentInv, LedgerInv', NEW a \in Orders,
         NEW items \in [Products -> Nat], CreateShipment(a, items), NEW o \in Orders
  PROVE  TaskInvOf(o)'
<1>1. /\ status' = status /\ line' = line /\ partial' = partial
      /\ reservation' = reservation
      /\ tasks' = [tasks EXCEPT ![a] = Append(tasks[a], NewTask(items))]
      /\ ShipmentAllowed(a, items)
  BY DEF CreateShipment, orderVars, stockVars
<1>2. TaskInvOf(o) /\ TypeOK /\ TypeOK'
  BY DEF FulfillmentInv, LedgerInv
<1>3. CASE o # a
  BY <1>1, <1>2, <1>3, TasksUntouched DEF TypeOK
<1>4. CASE o = a
  <2>1. \A p \in Products : /\ reservation[o][p] \in Nat /\ line[o][p] \in Nat
                            /\ Planned(o, p) \in Nat /\ items[p] \in Nat
    BY <1>2, PlannedType DEF TypeOK
  <2>2. status[o] = "approved" /\ items # Nothing
    BY <1>1, <1>4 DEF ShipmentAllowed
  <2>3. \A p \in Products : Planned(o, p) <= reservation[o][p]
    BY <1>2, <2>2 DEF TaskInvOf, Live
  <2>4. \A p \in Products : /\ Planned(o, p) + items[p] <= reservation'[o][p]
                            /\ reservation'[o][p] <= line[o][p]
    <3>1. ASSUME NEW p \in Products
          PROVE  Planned(o, p) + items[p] <= reservation[o][p]
      <4>1. items[p] > 0 => items[p] <= reservation[o][p] - Planned(o, p)
        BY <1>1, <1>4 DEF ShipmentAllowed
      <4> QED
        BY <2>1, <2>3, <4>1
    <3>2. \A p \in Products : reservation[o][p] <= line[o][p]
      BY DEF FulfillmentInv, LedgerInv, ReservedWithinLine
    <3> QED
      BY <1>1, <3>1, <3>2
  <2>5. ~partial'[o] => \A p \in Products : Planned(o, p) + items[p] = line[o][p]
    <3>1. ~partial[o] => \A p \in Products : items[p] = line[o][p] - Planned(o, p)
      BY <1>1, <1>4 DEF ShipmentAllowed
    <3> QED
      BY <1>1, <2>1, <3>1
  <2>6. tasks'[o] = Append(tasks[o], NewTask(items))
    BY <1>1, <1>2, <1>4 DEF TypeOK
  <2>7. status'[o] = "approved" /\ status[o] # "cancelled" /\ line'[o] = line[o]
    BY <1>1, <2>2
  <2> QED
    BY <1>2, <2>2, <2>4, <2>5, <2>6, <2>7, TasksAppend
<1> QED
  BY <1>3, <1>4

\* What advancing task i of order a does to that order's tasks.
LEMMA AdvancedTasks ==
  ASSUME TypeOK, NEW a \in Orders, NEW i \in DOMAIN tasks[a], AdvanceStatus(a, i)
  PROVE  /\ DOMAIN tasks'[a] = DOMAIN tasks[a]
         /\ \A j \in DOMAIN tasks[a] : tasks'[a][j].items = tasks[a][j].items
         /\ \A j \in DOMAIN tasks[a] \ {i} : tasks'[a][j] = tasks[a][j]
         /\ tasks'[a][i].status = NextStatus[tasks[a][i].status]
         /\ \A o \in Orders \ {a} : tasks'[o] = tasks[o] /\ status'[o] = status[o]
<1>1. tasks[a] \in Seq(Task) /\ \A j \in DOMAIN tasks[a] : tasks[a][j] \in Task
  BY DEF TypeOK
<1>2. tasks' = [tasks EXCEPT
                  ![a] = [tasks[a] EXCEPT
                            ![i] = [tasks[a][i] EXCEPT !.status = NextStatus[@]]]]
  BY DEF AdvanceStatus
<1>3. tasks'[a] = [tasks[a] EXCEPT
                     ![i] = [tasks[a][i] EXCEPT !.status = NextStatus[@]]]
  BY <1>2 DEF TypeOK
<1>4. tasks'[a][i] = [tasks[a][i] EXCEPT !.status = NextStatus[@]]
  BY <1>1, <1>3
<1>5. /\ tasks'[a][i].items = tasks[a][i].items
      /\ tasks'[a][i].status = NextStatus[tasks[a][i].status]
  BY <1>1, <1>4 DEF Task
<1>6. /\ DOMAIN tasks'[a] = DOMAIN tasks[a]
      /\ \A j \in DOMAIN tasks[a] \ {i} : tasks'[a][j] = tasks[a][j]
  BY <1>1, <1>3
<1>7. \A o \in Orders \ {a} : tasks'[o] = tasks[o]
  BY <1>2 DEF TypeOK
<1>8. \A o \in Orders \ {a} : status'[o] = status[o]
  BY DEF AdvanceStatus, TypeOK
<1> QED
  BY <1>5, <1>6, <1>7, <1>8

LEMMA TasksAdvance ==
  ASSUME FulfillmentInv, LedgerInv', NEW a \in Orders, NEW i \in DOMAIN tasks[a],
         AdvanceStatus(a, i), NEW o \in Orders
  PROVE  TaskInvOf(o)'
<1>1. /\ line' = line /\ partial' = partial /\ reservation' = reservation
  BY DEF AdvanceStatus, stockVars
<1>2. TaskInvOf(o) /\ TaskInvOf(a) /\ TypeOK /\ TypeOK'
  BY DEF FulfillmentInv, LedgerInv
<1>3. CASE o # a
  <2>1. tasks'[o] = tasks[o] /\ status'[o] = status[o]
    BY <1>2, <1>3, AdvancedTasks
  <2> QED
    BY <1>1, <1>2, <2>1, TasksUntouched
<1>4. CASE o = a
  <2> DEFINE ts == tasks[a]
             new == tasks'[a]
  <2>1. /\ DOMAIN new = DOMAIN ts
        /\ \A j \in DOMAIN ts : new[j].items = ts[j].items
        /\ \A j \in DOMAIN ts \ {i} : new[j] = ts[j]
        /\ new[i].status = NextStatus[ts[i].status]
    BY <1>2, AdvancedTasks
  <2>2. /\ ts \in Seq(Task) /\ new \in Seq(Task)
        /\ ts[i].status \in OpenStatus /\ ts # <<>> /\ new # <<>>
    BY <1>2, <2>1 DEF TypeOK, AdvanceStatus
  <2>3. /\ ts[i].status # "cancelled"
        /\ ts[i].status # "ready_to_ship"
    BY <2>2 DEF OpenStatus, NextStatus
  <2>4. status[a] = "approved"
    BY <1>2, <2>2, <2>3 DEF TaskInvOf, Live
  <2>5. \A p \in Products : Ships(new, p) = Ships(ts, p)
    BY <2>1 DEF Ships
  <2>6. \A p \in Products : Planned(a, p)' = Planned(a, p)
    BY <2>1, <2>5 DEF Planned
  <2>7. \A p \in Products : Planned(a, p) <= reservation[a][p]
    BY <1>2, <2>4 DEF TaskInvOf, Live
  <2>8. \A j \in DOMAIN new : new[j].items # Nothing
    BY <1>2, <2>1 DEF TaskInvOf
  <2>9. ~partial[a] => \A p \in Products : Planned(a, p) = line[a][p]
    BY <1>2, <2>2, <2>4 DEF TaskInvOf, Live
  <2>10. CASE new[i].status = "ready_to_ship" /\ Complete(a)'
    <3>1. status'[a] = "ready_to_ship"
      BY <1>2, <2>10 DEF AdvanceStatus, TypeOK
    <3>2. \A p \in Products :
            Total(Ships(new, p), {j \in DOMAIN new : new[j].status = "ready_to_ship"})
              = line[a][p]
      BY <1>1, <2>10 DEF Complete, ReadyQuantity, ReadyTasks
    <3>3. \A p \in Products : Total(Ships(new, p), DOMAIN new) <= line[a][p]
      <4>1. ASSUME NEW p \in Products
            PROVE  Total(Ships(new, p), DOMAIN new) <= line[a][p]
        <5>1. Total(Ships(new, p), DOMAIN new) = Planned(a, p)
          BY <2>6 DEF Planned
        <5>2. /\ Planned(a, p) \in Nat /\ reservation[a][p] \in Nat
              /\ line[a][p] \in Nat
          BY <1>2, PlannedType DEF TypeOK
        <5>3. reservation[a][p] <= line[a][p]
          BY DEF FulfillmentInv, LedgerInv, ReservedWithinLine
        <5> QED
          BY <2>7, <5>1, <5>2, <5>3
      <4> QED
        BY <4>1
    <3>4. line[a] \in [Products -> Nat]
      BY <1>2 DEF TypeOK
    <3>5. \A j \in DOMAIN new : new[j].status = "ready_to_ship"
      <4> HIDE DEF new
      <4> QED
        BY <2>2, <2>8, <3>2, <3>3, <3>4, CompleteMeansAllReady
    <3> QED
      BY <1>1, <1>4, <2>2, <2>6, <2>7, <2>8, <2>9, <2>10, <3>1, <3>5
         DEF TaskInvOf, Live, Nothing
  <2>11. CASE ~(new[i].status = "ready_to_ship" /\ Complete(a)')
    <3>1. status'[a] = "approved"
      BY <2>4, <2>11 DEF AdvanceStatus
    <3>2. ~Complete(a)'
      <4>1. CASE new[i].status = "ready_to_ship"
        BY <2>11, <4>1
      <4>2. CASE new[i].status # "ready_to_ship"
        <5>1. {j \in DOMAIN new : new[j].status = "ready_to_ship"}
                = {j \in DOMAIN ts : ts[j].status = "ready_to_ship"}
          BY <2>1, <2>3, <4>2
        <5>2. \A p \in Products : ReadyQuantity(a, p)' = ReadyQuantity(a, p)
          BY <2>5, <5>1 DEF ReadyQuantity, ReadyTasks
        <5>3. ~Complete(a)
          BY <1>2, <2>2, <2>4 DEF TaskInvOf
        <5> QED
          BY <1>1, <5>2, <5>3 DEF Complete
      <4> QED
        BY <4>1, <4>2
    <3> QED
      BY <1>1, <1>4, <2>2, <2>6, <2>7, <2>8, <2>9, <3>1, <3>2
         DEF TaskInvOf, Live, Nothing
  <2> QED
    BY <2>10, <2>11
<1> QED
  BY <1>3, <1>4

LEMMA TasksRequest ==
  ASSUME FulfillmentInv, NEW a \in Orders, NEW type \in {"change", "cancellation"},
         RequestChange(a, type), NEW o \in Orders
  PROVE  TaskInvOf(o)'
<1>1. TaskInvOf(o) /\ UNCHANGED <<orderVars, stockVars, tasks>>
  BY DEF RequestChange, FulfillmentInv
<1> QED
  BY <1>1, TasksUntouched DEF orderVars, stockVars

LEMMA TasksDecide ==
  ASSUME FulfillmentInv, NEW a \in Orders, NEW approve \in BOOLEAN,
         NEW i \in DOMAIN requests[a], DecideChangeRequest(a, i, approve),
         NEW o \in Orders
  PROVE  TaskInvOf(o)'
<1>1. TaskInvOf(o) /\ TaskInvOf(a) /\ TypeOK
  BY DEF FulfillmentInv, LedgerInv
<1>2. CASE UNCHANGED <<orderVars, stockVars, tasks>>
  BY <1>1, <1>2, TasksUntouched DEF orderVars, stockVars
<1>3. CASE CancelOrder(a)
  <2>1. /\ tasks' = [tasks EXCEPT
                       ![a] = [j \in DOMAIN tasks[a] |->
                                 [tasks[a][j] EXCEPT !.status = "cancelled"]]]
        /\ status' = [status EXCEPT ![a] = "cancelled"]
        /\ reservation' = [reservation EXCEPT ![a] = Nothing]
        /\ line' = line /\ partial' = partial
    BY <1>3 DEF CancelOrder, CancelTasks, ReleaseReservations, CancelStatus
  <2>2. CASE o # a
    BY <1>1, <2>1, <2>2, TasksUntouched DEF TypeOK
  <2>3. CASE o = a
    <3>1. status'[a] = "cancelled"
      BY <1>1, <2>1 DEF TypeOK
    <3>2. tasks'[a] = [j \in DOMAIN tasks[a] |->
                         [tasks[a][j] EXCEPT !.status = "cancelled"]]
      BY <1>1, <2>1 DEF TypeOK
    <3>3. \A j \in DOMAIN tasks[a] : tasks[a][j] \in Task
      BY <1>1 DEF TypeOK
    <3>4. \A j \in DOMAIN tasks'[a] : /\ tasks'[a][j].status = "cancelled"
                                      /\ tasks'[a][j].items = tasks[a][j].items
                                      /\ j \in DOMAIN tasks[a]
      BY <3>2, <3>3 DEF Task
    <3>5. \A j \in DOMAIN tasks'[a] : tasks'[a][j].items # Nothing
      BY <1>1, <3>4 DEF TaskInvOf
    <3> QED
      BY <2>3, <3>1, <3>4, <3>5 DEF TaskInvOf, Live, Nothing
  <2> QED
    BY <2>2, <2>3
<1> QED
  BY <1>2, <1>3 DEF DecideChangeRequest

LEMMA FulfillmentInit == Init => FulfillmentInv
BY LedgerInit, TasksInit DEF FulfillmentInv

LEMMA FulfillmentStep == FulfillmentInv /\ [Next]_vars => FulfillmentInv'
<1> SUFFICES ASSUME FulfillmentInv, [Next]_vars PROVE FulfillmentInv'
  OBVIOUS
<1>1. LedgerInv'
  BY LedgerStep DEF FulfillmentInv
<1>2. ASSUME NEW o \in Orders PROVE TaskInvOf(o)'
  <2>1. CASE UNCHANGED vars
    BY <2>1, TasksUntouched DEF FulfillmentInv, vars
  <2>2. CASE \E a \in Orders, cart \in Carts : Submit(a, cart)
    BY <2>2, TasksSubmit
  <2>3. CASE \E a \in Orders, allowPartial \in BOOLEAN, now \in 0..MaxTime :
               ApproveOrder(a, allowPartial, now)
    BY <1>1, <2>3, TasksApprove
  <2>4. CASE \E a \in Orders : RejectOrder(a)
    BY <2>4, TasksReject
  <2>5. CASE \E p \in Products, quantity \in 1..MaxReceipt : StockProduct(p, quantity)
    BY <1>1, <2>5, TasksStock
  <2>6. CASE \E a \in Orders, p \in Products : \E quantity \in 1..line[a][p] :
               Reserve(a, p, quantity)
    <3>1. PICK a \in Orders, p \in Products : \E quantity \in 1..line[a][p] :
                 Reserve(a, p, quantity)
      BY <2>6
    <3>2. PICK quantity \in 1..line[a][p] : Reserve(a, p, quantity)
      BY <3>1
    <3>3. quantity \in Nat
      BY DEF FulfillmentInv, LedgerInv, TypeOK
    <3> QED
      BY <1>1, <3>2, <3>3, TasksReserve
  <2>7. CASE \E a \in Orders, items \in [Products -> 0..MaxStock] :
               CreateShipment(a, items)
    <3>1. [Products -> 0..MaxStock] \subseteq [Products -> Nat]
      BY BoundsAssumption
    <3> QED
      BY <1>1, <2>7, <3>1, TasksShipment
  <2>8. CASE \E a \in Orders : \E i \in DOMAIN tasks[a] : AdvanceStatus(a, i)
    BY <1>1, <2>8, TasksAdvance
  <2>9. CASE \E a \in Orders, type \in {"change", "cancellation"} :
               RequestChange(a, type)
    BY <2>9, TasksRequest
  <2>10. CASE \E a \in Orders, approve \in BOOLEAN : \E i \in DOMAIN requests[a] :
                DecideChangeRequest(a, i, approve)
    BY <2>10, TasksDecide
  <2> QED
    BY <2>1, <2>2, <2>3, <2>4, <2>5, <2>6, <2>7, <2>8, <2>9, <2>10 DEF Next
<1> QED
  BY <1>1, <1>2 DEF FulfillmentInv

\* Stock, reservations, tasks and order status stay consistent.
THEOREM FulfillmentInvariant == Spec => []FulfillmentInv
BY FulfillmentInit, FulfillmentStep, PTL DEF Spec

\* Tasks ship no more than is reserved, reservations no more than ordered.
THEOREM TasksCorrect == Spec => []TasksWithinReservation
<1>1. FulfillmentInv => TasksWithinReservation
  BY DEF FulfillmentInv, LedgerInv, ReservedWithinLine, TaskInvOf,
         TasksWithinReservation
<1> QED
  BY <1>1, FulfillmentInvariant, PTL

\* A withheld order ships whole or not at all.
THEOREM WithheldCorrect == Spec => []WithheldShipsWhole
<1>1. FulfillmentInv => WithheldShipsWhole
  BY DEF FulfillmentInv, TaskInvOf, WithheldShipsWhole
<1> QED
  BY <1>1, FulfillmentInvariant, PTL

\* Only tasks of approved orders can move.
THEOREM OpenTasksCorrect == Spec => []OpenTaskMeansApproved
<1>1. FulfillmentInv => OpenTaskMeansApproved
  <2> SUFFICES ASSUME FulfillmentInv, NEW o \in Orders, NEW i \in DOMAIN tasks[o],
                      tasks[o][i].status \in OpenStatus
               PROVE  status[o] = "approved"
    BY DEF OpenTaskMeansApproved
  <2>1. /\ tasks[o][i].status # "cancelled"
        /\ tasks[o][i].status # "ready_to_ship"
        /\ tasks[o] # <<>>
    BY DEF OpenStatus, NextStatus
  <2> QED
    BY <2>1 DEF FulfillmentInv, TaskInvOf, Live
<1> QED
  BY <1>1, FulfillmentInvariant, PTL

\* Ready to ship exactly when the ready tasks cover every line.
THEOREM ReadyCorrect == Spec => []ReadyExactlyWhenComplete
<1>1. FulfillmentInv => ReadyExactlyWhenComplete
  BY DEF FulfillmentInv, TaskInvOf, ReadyExactlyWhenComplete, Live
<1> QED
  BY <1>1, FulfillmentInvariant, PTL

-----------------------------------------------------------------------------
\* What a request that runs the automation does, in the facts of the next
\* two theorems.
LEMMA ProcessSteps ==
  ASSUME FulfillmentInv, Next, ProcessStep
  PROVE  /\ AllocateApprovedOrders
         /\ line' = line
         /\ status' \in [Orders -> OrderStatus] /\ approvedAt' \in [Orders -> Nat]
         /\ onHand' \in [Products -> Nat]
         /\ \A p \in Products : onHand[p] <= onHand'[p]
<1>1. FulfillmentInv' /\ TypeOK /\ TypeOK'
  BY FulfillmentStep DEF FulfillmentInv, LedgerInv
<1>2. CASE \E a \in Orders, allowPartial \in BOOLEAN, now \in 0..MaxTime :
             ApproveOrder(a, allowPartial, now)
  <2>1. Process /\ line' = line /\ onHand' = onHand
    BY <1>2 DEF ApproveOrder
  <2> QED
    BY <1>1, <2>1 DEF TypeOK, Process
<1>3. CASE \E p \in Products, quantity \in 1..MaxReceipt : StockProduct(p, quantity)
  <2>1. PICK p \in Products, quantity \in 1..MaxReceipt : StockProduct(p, quantity)
    BY <1>3
  <2>2. /\ Process /\ line' = line /\ onHand' = [onHand EXCEPT ![p] = @ + quantity]
        /\ quantity \in Nat
    BY <2>1, BoundsAssumption DEF StockProduct, orderVars
  <2>3. \A r \in Products : onHand[r] <= onHand'[r]
    <3>1. onHand \in [Products -> Nat]
      BY <1>1 DEF TypeOK
    <3> QED
      BY <2>2, <3>1
  <2> QED
    BY <1>1, <2>2, <2>3 DEF TypeOK, Process
<1>4. ASSUME onHand' = onHand,
             \A o \in Orders : ~(status[o] = "pending_approval"
                                 /\ status'[o] = "approved")
      PROVE  FALSE
  BY <1>4 DEF ProcessStep
<1>5. CASE \E a \in Orders, cart \in Carts : Submit(a, cart)
  BY <1>1, <1>4, <1>5 DEF Submit, stockVars, TypeOK
<1>6. CASE \E a \in Orders : RejectOrder(a)
  BY <1>1, <1>4, <1>6 DEF RejectOrder, stockVars, TypeOK
<1>7. CASE \E a \in Orders, p \in Products : \E quantity \in 1..line[a][p] :
             Reserve(a, p, quantity)
  BY <1>4, <1>7 DEF Reserve, orderVars
<1>8. CASE \E a \in Orders, items \in [Products -> 0..MaxStock] :
             CreateShipment(a, items)
  BY <1>4, <1>8 DEF CreateShipment, orderVars, stockVars
<1>9. CASE \E a \in Orders : \E i \in DOMAIN tasks[a] : AdvanceStatus(a, i)
  <2>1. PICK a \in Orders : \E i \in DOMAIN tasks[a] : AdvanceStatus(a, i)
    BY <1>9
  <2>2. /\ onHand' = onHand
        /\ status' = status \/ status' = [status EXCEPT ![a] = "ready_to_ship"]
    BY <2>1 DEF AdvanceStatus, stockVars
  <2> QED
    BY <1>1, <1>4, <2>2 DEF TypeOK
<1>10. CASE \E a \in Orders, type \in {"change", "cancellation"} : RequestChange(a, type)
  BY <1>4, <1>10 DEF RequestChange, orderVars, stockVars
<1>11. CASE \E a \in Orders, approve \in BOOLEAN : \E i \in DOMAIN requests[a] :
              DecideChangeRequest(a, i, approve)
  <2>1. PICK a \in Orders : CancelOrder(a) \/ UNCHANGED <<orderVars, stockVars, tasks>>
    BY <1>11 DEF DecideChangeRequest
  <2>2. /\ onHand' = onHand
        /\ status' = status \/ status' = [status EXCEPT ![a] = "cancelled"]
    BY <2>1 DEF CancelOrder, CancelTasks, ReleaseReservations, CancelStatus, orderVars, stockVars
  <2> QED
    BY <1>1, <1>4, <2>2 DEF TypeOK
<1> QED
  BY <1>2, <1>3, <1>5, <1>6, <1>7, <1>8, <1>9, <1>10, <1>11 DEF Next

\* The queue and the quantities that the automation starts from.
LEMMA ProcessInputs ==
  ASSUME LedgerInv, NEW p \in Products,
         status' \in [Orders -> OrderStatus], approvedAt' \in [Orders -> Nat],
         onHand' \in [Products -> Nat], \A r \in Products : onHand[r] <= onHand'[r]
  PROVE  /\ IsFiniteSet(Approved') /\ Approved' \in SUBSET Nat
         /\ Approved' \subseteq Orders
         /\ \A x \in Approved' : approvedAt'[x] \in Nat
         /\ \A x \in Approved' : Wanted(p)[x] \in Nat
         /\ \A x \in Orders : /\ Wanted(p)[x] = line[x][p] - reservation[x][p]
                              /\ line[x][p] \in Nat /\ reservation[x][p] \in Nat
         /\ onHand'[p] - reserved[p] \in Nat
<1>1. /\ IsFiniteSet(Approved') /\ Approved' \in SUBSET Nat
      /\ Approved' \subseteq Orders
  BY OrdersAssumption, FS_Subset DEF Approved
<1>2. \A x \in Orders : /\ Wanted(p)[x] = line[x][p] - reservation[x][p]
                        /\ line[x][p] \in Nat /\ reservation[x][p] \in Nat
                        /\ reservation[x][p] <= line[x][p]
  BY DEF LedgerInv, TypeOK, ReservedWithinLine, Wanted
<1>3. /\ reserved[p] \in Nat /\ onHand[p] \in Nat /\ onHand'[p] \in Nat
      /\ reserved[p] <= onHand[p] /\ onHand[p] <= onHand'[p]
  BY DEF LedgerInv, TypeOK, StockLedger
<1>4. \A x \in Approved' : Wanted(p)[x] \in Nat
  BY <1>1, <1>2
<1>5. onHand'[p] - reserved[p] \in Nat
  BY <1>3
<1> QED
  BY <1>1, <1>2, <1>4, <1>5

\* Earlier approvals are served first.
THEOREM PriorityCorrect == Spec => PriorityRespected
<1> DEFINE Step == ProcessStep =>
             \A a, b \in Approved', p \in Products :
               Before(approvedAt', a, b) /\ reservation'[b][p] > reservation[b][p]
                 => reservation'[a][p] = line'[a][p]
<1>1. FulfillmentInv /\ [Next]_vars => [Step]_vars
  <2> SUFFICES ASSUME FulfillmentInv, Next, ProcessStep,
                      NEW a \in Approved', NEW b \in Approved', NEW p \in Products,
                      Before(approvedAt', a, b),
                      reservation'[b][p] > reservation[b][p]
               PROVE  reservation'[a][p] = line'[a][p]
    OBVIOUS
  <2>1. /\ AllocateApprovedOrders
        /\ line' = line
        /\ status' \in [Orders -> OrderStatus] /\ approvedAt' \in [Orders -> Nat]
        /\ onHand' \in [Products -> Nat]
        /\ \A r \in Products : onHand[r] <= onHand'[r]
    BY ProcessSteps
  <2>2. \A o \in Orders, r \in Products :
          /\ Granted(o, r) \in Nat
          /\ reservation'[o][r] = reservation[o][r] + Granted(o, r)
    BY <2>1, AllocationStep DEF FulfillmentInv
  <2>3. /\ IsFiniteSet(Approved') /\ Approved' \in SUBSET Nat
        /\ Approved' \subseteq Orders
        /\ \A x \in Approved' : approvedAt'[x] \in Nat
        /\ \A x \in Approved' : Wanted(p)[x] \in Nat
        /\ \A x \in Orders : /\ Wanted(p)[x] = line[x][p] - reservation[x][p]
                             /\ line[x][p] \in Nat /\ reservation[x][p] \in Nat
        /\ onHand'[p] - reserved[p] \in Nat
    BY <2>1, ProcessInputs DEF FulfillmentInv
  <2>5. Grant(Wanted(p), onHand'[p] - reserved[p], Approved', approvedAt', b) > 0
    BY <2>2, <2>3 DEF Granted
  <2>6. Granted(a, p) = Wanted(p)[a]
    BY <2>3, <2>5, GrantPriority DEF Granted
  <2> QED
    BY <2>1, <2>2, <2>3, <2>6
<1> QED
  BY <1>1, FulfillmentInvariant, PTL DEF Spec, PriorityRespected

\* No stock is left idle while an approved order lacks it.
THEOREM NoIdleStockCorrect == Spec => NoIdleStock
<1> DEFINE Step == ProcessStep =>
             \A o \in Approved', p \in Products :
               reservation'[o][p] < line'[o][p] => reserved'[p] = onHand'[p]
<1>1. FulfillmentInv /\ [Next]_vars => [Step]_vars
  <2> SUFFICES ASSUME FulfillmentInv, Next, ProcessStep,
                      NEW o \in Approved', NEW p \in Products,
                      reservation'[o][p] < line'[o][p]
               PROVE  reserved'[p] = onHand'[p]
    OBVIOUS
  <2>1. /\ AllocateApprovedOrders
        /\ line' = line
        /\ status' \in [Orders -> OrderStatus] /\ approvedAt' \in [Orders -> Nat]
        /\ onHand' \in [Products -> Nat]
        /\ \A r \in Products : onHand[r] <= onHand'[r]
    BY ProcessSteps
  <2>2. \A a \in Orders, r \in Products :
          /\ Granted(a, r) \in Nat
          /\ a \notin Approved' => Granted(a, r) = 0
          /\ reservation'[a][r] = reservation[a][r] + Granted(a, r)
    BY <2>1, AllocationStep DEF FulfillmentInv
  <2>3. /\ IsFiniteSet(Approved') /\ Approved' \in SUBSET Nat
        /\ Approved' \subseteq Orders
        /\ \A x \in Approved' : approvedAt'[x] \in Nat
        /\ \A x \in Approved' : Wanted(p)[x] \in Nat
        /\ \A x \in Orders : /\ Wanted(p)[x] = line[x][p] - reservation[x][p]
                             /\ line[x][p] \in Nat /\ reservation[x][p] \in Nat
        /\ onHand'[p] - reserved[p] \in Nat
    BY <2>1, ProcessInputs DEF FulfillmentInv
  <2> DEFINE got == [a \in Orders |-> Granted(a, p)]
  <2>4. \A a \in Orders : got[a] = Granted(a, p) /\ got[a] \in Nat
    BY <2>2
  <2>5. reserved'[p] = reserved[p] + Total(got, Orders)
    BY <2>1 DEF AllocateApprovedOrders
  <2> HIDE DEF got
  <2>6. \A a \in Approved' :
          got[a] = Grant(Wanted(p), onHand'[p] - reserved[p], Approved', approvedAt', a)
    BY <2>3, <2>4 DEF Granted
  <2>7. got[o] < Wanted(p)[o]
    BY <2>1, <2>2, <2>3, <2>4
  <2>8. Total(got, Approved') = onHand'[p] - reserved[p]
    <3> DEFINE Q == Approved'
               at == approvedAt'
               want == Wanted(p)
               avail == onHand'[p] - reserved[p]
    <3>1. /\ Q \in SUBSET Nat /\ IsFiniteSet(Q) /\ avail \in Nat /\ o \in Q
          /\ \A x \in Q : at[x] \in Nat
          /\ \A x \in Q : want[x] \in Nat
          /\ \A x \in Q : got[x] = Grant(want, avail, Q, at, x)
          /\ got[o] < want[o]
      BY <2>3, <2>6, <2>7
    <3> HIDE DEF Q, at, want, avail
    <3>2. Total(got, Q) = avail \/ \A x \in Q : got[x] = want[x]
      BY <3>1, GrantsUseStock
    <3>3. got[o] \in Nat /\ want[o] \in Nat
      BY <2>3, <2>4 DEF want
    <3>4. Total(got, Q) = avail
      BY <3>1, <3>2, <3>3
    <3> QED
      BY <3>4 DEF Q, avail
  <2>9. Total(got, Orders \ Approved') = 0
    BY <2>2, <2>4, TotalZeros
  <2>10. Total(got, Approved' \cup (Orders \ Approved'))
           = Total(got, Approved') + Total(got, Orders \ Approved')
    <3>1. IsFiniteSet(Orders \ Approved')
      BY OrdersAssumption, FS_Difference
    <3> QED
      BY <2>3, <2>4, <3>1, TotalUnion
  <2>11. Approved' \cup (Orders \ Approved') = Orders
    BY <2>3
  <2>12. onHand'[p] \in Nat /\ reserved[p] \in Nat
    BY <2>1 DEF FulfillmentInv, LedgerInv, TypeOK
  <2>13. Total(got, Orders) = Total(got, Approved') + Total(got, Orders \ Approved')
    BY <2>10, <2>11
  <2>14. Total(got, Orders) = onHand'[p] - reserved[p]
    BY <2>8, <2>9, <2>12, <2>13
  <2> QED
    BY <2>5, <2>12, <2>14
<1> QED
  BY <1>1, FulfillmentInvariant, PTL DEF Spec, NoIdleStock

-----------------------------------------------------------------------------
\* An allocation step leaves an order that is not approved as it was.
LEMMA CancelledKept ==
  ASSUME FulfillmentInv, [Next]_vars, NEW o \in Orders, status[o] = "cancelled"
  PROVE  /\ status'[o] = "cancelled" /\ tasks'[o] = tasks[o]
         /\ reservation'[o] = reservation[o]
<1>1. /\ TypeOK /\ TypeOK' /\ FulfillmentInv' /\ TaskInvOf(o) /\ LedgerInv
      /\ OnlyLiveOrdersHoldStock
  BY FulfillmentStep DEF FulfillmentInv, LedgerInv
<1>2. ASSUME Process, status'[o] = "cancelled", line' = line,
             \A p \in Products : onHand[p] <= onHand'[p]
      PROVE  tasks'[o] = tasks[o] /\ reservation'[o] = reservation[o]
  <2>1. o \notin Approved'
    BY <1>2 DEF Approved
  <2>2. \A p \in Products : reservation'[o][p] = reservation[o][p] + Granted(o, p)
                            /\ Granted(o, p) = 0
    BY <1>1, <1>2, <2>1, AllocationStep DEF Process, TypeOK
  <2>3. \A p \in Products : reservation'[o][p] = reservation[o][p]
    BY <1>1, <2>2 DEF TypeOK
  <2>4. reservation'[o] = reservation[o]
    BY <1>1, <2>3 DEF TypeOK
  <2>5. tasks'[o] = tasks[o]
    BY <1>2, <2>1 DEF Process, CreateTasks
  <2> QED
    BY <2>4, <2>5
<1>3. CASE UNCHANGED vars
  BY <1>3 DEF vars
<1>4. CASE \E a \in Orders, cart \in Carts : Submit(a, cart)
  BY <1>1, <1>4 DEF Submit, stockVars, TypeOK
<1>5. CASE \E a \in Orders, allowPartial \in BOOLEAN, now \in 0..MaxTime :
             ApproveOrder(a, allowPartial, now)
  <2>1. PICK a \in Orders, allowPartial \in BOOLEAN, now \in 0..MaxTime :
               ApproveOrder(a, allowPartial, now)
    BY <1>5
  <2>2. /\ Process /\ line' = line /\ onHand' = onHand
        /\ status' = [status EXCEPT ![a] = "approved"]
        /\ status[a] = "pending_approval"
    BY <2>1 DEF ApproveOrder
  <2>3. status'[o] = "cancelled" /\ \A p \in Products : onHand[p] <= onHand'[p]
    BY <1>1, <2>2 DEF TypeOK
  <2> QED
    BY <1>2, <2>2, <2>3
<1>6. CASE \E a \in Orders : RejectOrder(a)
  BY <1>1, <1>6 DEF RejectOrder, stockVars, TypeOK
<1>7. CASE \E p \in Products, quantity \in 1..MaxReceipt : StockProduct(p, quantity)
  <2>1. PICK p \in Products, quantity \in 1..MaxReceipt : StockProduct(p, quantity)
    BY <1>7
  <2>2. /\ Process /\ line' = line /\ onHand' = [onHand EXCEPT ![p] = @ + quantity]
        /\ quantity \in Nat /\ status' = status
    BY <2>1, BoundsAssumption DEF StockProduct, orderVars
  <2>3. \A r \in Products : onHand[r] <= onHand'[r]
    <3>1. onHand \in [Products -> Nat]
      BY <1>1 DEF TypeOK
    <3> QED
      BY <2>2, <3>1
  <2> QED
    BY <1>2, <2>2, <2>3
<1>8. CASE \E a \in Orders, p \in Products : \E quantity \in 1..line[a][p] :
             Reserve(a, p, quantity)
  BY <1>1, <1>8 DEF Reserve, orderVars, TypeOK
<1>9. CASE \E a \in Orders, items \in [Products -> 0..MaxStock] :
             CreateShipment(a, items)
  BY <1>1, <1>9 DEF CreateShipment, ShipmentAllowed, orderVars, stockVars, TypeOK
<1>10. CASE \E a \in Orders : \E i \in DOMAIN tasks[a] : AdvanceStatus(a, i)
  <2>0. PICK a \in Orders : \E i \in DOMAIN tasks[a] : AdvanceStatus(a, i)
    BY <1>10
  <2>1. PICK i \in DOMAIN tasks[a] : AdvanceStatus(a, i)
    BY <2>0
  <2>2. reservation' = reservation /\ tasks[a][i].status # "cancelled"
    BY <2>1 DEF AdvanceStatus, stockVars, OpenStatus, NextStatus
  <2>3. o # a
    BY <1>1, <2>2 DEF TaskInvOf
  <2> QED
    BY <1>1, <2>1, <2>2, <2>3, AdvancedTasks
<1>11. CASE \E a \in Orders, type \in {"change", "cancellation"} : RequestChange(a, type)
  BY <1>11 DEF RequestChange, orderVars, stockVars
<1>12. CASE \E a \in Orders, approve \in BOOLEAN : \E i \in DOMAIN requests[a] :
              DecideChangeRequest(a, i, approve)
  <2>1. PICK a \in Orders : CancelOrder(a) \/ UNCHANGED <<orderVars, stockVars, tasks>>
    BY <1>12 DEF DecideChangeRequest
  <2>2. CASE UNCHANGED <<orderVars, stockVars, tasks>>
    BY <2>2 DEF orderVars, stockVars
  <2>3. CASE CancelOrder(a)
    <3>1. /\ tasks' = [tasks EXCEPT
                         ![a] = [j \in DOMAIN tasks[a] |->
                                   [tasks[a][j] EXCEPT !.status = "cancelled"]]]
          /\ status' = [status EXCEPT ![a] = "cancelled"]
          /\ reservation' = [reservation EXCEPT ![a] = Nothing]
      BY <2>3 DEF CancelOrder, CancelTasks, ReleaseReservations, CancelStatus
    <3>2. CASE o # a
      BY <1>1, <3>1, <3>2 DEF TypeOK
    <3>3. CASE o = a
      <4>1. status'[o] = "cancelled" /\ reservation'[o] = Nothing
        BY <1>1, <3>1, <3>3 DEF TypeOK
      <4>2. reservation[o] = Nothing
        BY <1>1 DEF OnlyLiveOrdersHoldStock, Live
      <4>3. tasks'[o] = [j \in DOMAIN tasks[o] |->
                           [tasks[o][j] EXCEPT !.status = "cancelled"]]
        BY <1>1, <3>1, <3>3 DEF TypeOK
      <4>4. tasks[o] \in Seq(Task) /\ \A j \in DOMAIN tasks[o] : tasks[o][j] \in Task
        BY <1>1 DEF TypeOK
      <4>5. \A j \in DOMAIN tasks[o] :
              [tasks[o][j] EXCEPT !.status = "cancelled"] = tasks[o][j]
        BY <1>1, <4>4 DEF TaskInvOf, Task
      <4>6. tasks'[o] = [j \in DOMAIN tasks[o] |-> tasks[o][j]]
        BY <4>3, <4>5
      <4>7. tasks'[o] = tasks[o]
        BY <4>4, <4>6
      <4> QED
        BY <4>1, <4>2, <4>7
    <3> QED
      BY <3>2, <3>3
  <2> QED
    BY <2>1, <2>2, <2>3
<1> QED
  BY <1>3, <1>4, <1>5, <1>6, <1>7, <1>8, <1>9, <1>10, <1>11, <1>12 DEF Next

\* Nothing touches a cancelled order again.
THEOREM CancelledCorrect == Spec => CancelledIsFinal
<1> DEFINE Step == \A o \in Orders :
             status[o] = "cancelled" =>
               /\ status'[o] = "cancelled"
               /\ tasks'[o] = tasks[o]
               /\ reservation'[o] = reservation[o]
<1>1. FulfillmentInv /\ [Next]_vars => [Step]_vars
  BY CancelledKept
<1> QED
  BY <1>1, FulfillmentInvariant, PTL DEF Spec, CancelledIsFinal

-----------------------------------------------------------------------------
\* Every request is a step of StockPromises, or changes nothing it can see.

LEMMA PromisesInit == Init => Promises!Init
<1> SUFFICES ASSUME Init PROVE Promises!Init
  OBVIOUS
<1>1. {o \in Orders : status[o] = "cancelled"} = {}
  BY DEF Init
<1> QED
  BY <1>1 DEF Init, Promises!Init, Promises!Nothing, Nothing

\* Stock received or set aside, by a request that cancels no order.
LEMMA PromisesStock ==
  ASSUME FulfillmentInv, [Next]_vars, line' = line,
         \A p \in Products : onHand[p] <= onHand'[p],
         \A o \in Orders : status'[o] = "cancelled" <=> status[o] = "cancelled",
         \A o \in Orders, p \in Products : reservation[o][p] <= reservation'[o][p]
  PROVE  Promises!Promise
<1>1. FulfillmentInv' /\ TypeOK'
  BY FulfillmentStep DEF FulfillmentInv, LedgerInv
<1>2. \A o \in Orders : status[o] = "cancelled" => reservation'[o] = reservation[o]
  BY CancelledKept
<1>3. {o \in Orders : status'[o] = "cancelled"} = {o \in Orders : status[o] = "cancelled"}
  OBVIOUS
<1>4. \A p \in Products :
        /\ reserved'[p] = Total([o \in Orders |-> reservation'[o][p]], Orders)
        /\ reserved'[p] <= onHand'[p]
  BY <1>1 DEF FulfillmentInv, LedgerInv, StockLedger
<1>5. \A o \in Orders, p \in Products : reservation'[o][p] <= line[o][p]
  BY <1>1 DEF FulfillmentInv, LedgerInv, ReservedWithinLine
<1>6. \A p \in Products :
        Total([o \in Orders |-> reservation'[o][p]], Orders) <= onHand'[p]
  BY <1>4
<1>7. \A p \in Products :
        Promises!Total([o \in Orders |-> reservation'[o][p]], Orders) <= onHand'[p]
  BY <1>6 DEF Promises!Total, Promises!Units, Promises!Cardinality,
              Total, Units, Cardinality
<1> QED
  BY <1>1, <1>2, <1>3, <1>5, <1>7 DEF Promises!Promise, TypeOK

LEMMA PromisesUntouched ==
  ASSUME line' = line, onHand' = onHand, reservation' = reservation,
         \A o \in Orders : status'[o] = "cancelled" <=> status[o] = "cancelled"
  PROVE  UNCHANGED Promises!vars
BY DEF Promises!vars

LEMMA PromisesStep ==
  FulfillmentInv /\ [Next]_vars => [Promises!Next]_(Promises!vars)
<1> SUFFICES ASSUME FulfillmentInv, [Next]_vars
             PROVE  Promises!Next \/ UNCHANGED Promises!vars
  OBVIOUS
<1>1. TypeOK /\ TypeOK' /\ FulfillmentInv' /\ LedgerInv
  BY FulfillmentStep DEF FulfillmentInv, LedgerInv
<1>2. ASSUME Process, line' = line,
             \A p \in Products : onHand[p] <= onHand'[p],
             \A o \in Orders : status'[o] = "cancelled" <=> status[o] = "cancelled"
      PROVE  Promises!Next
  <2>1. \A o \in Orders, p \in Products :
          /\ reservation'[o][p] = reservation[o][p] + Granted(o, p)
          /\ Granted(o, p) \in Nat
    BY <1>1, <1>2, AllocationStep DEF Process, TypeOK
  <2>2. \A o \in Orders, p \in Products : reservation[o][p] <= reservation'[o][p]
    BY <1>1, <2>1 DEF TypeOK
  <2> QED
    BY <1>2, <2>2, PromisesStock DEF Promises!Next
<1>3. CASE UNCHANGED vars
  BY <1>3, PromisesUntouched DEF vars
<1>4. CASE \E a \in Orders, cart \in Carts : Submit(a, cart)
  <2>1. PICK a \in Orders, cart \in Carts : Submit(a, cart)
    BY <1>4
  <2>2. /\ status' = [status EXCEPT ![a] = "pending_approval"]
        /\ line' = [line EXCEPT ![a] = cart]
        /\ onHand' = onHand /\ reservation' = reservation /\ status[a] = "draft"
    BY <2>1 DEF Submit, stockVars
  <2>3. line[a] = Nothing
    BY <2>2 DEF FulfillmentInv, TaskInvOf
  <2>4. \A o \in Orders \ {a} : line'[o] = line[o]
    BY <1>1, <2>2 DEF TypeOK
  <2>5. {o \in Orders : status'[o] = "cancelled"} = {o \in Orders : status[o] = "cancelled"}
    BY <1>1, <2>2 DEF TypeOK
  <2>6. Promises!Ask(a)
    BY <1>1, <2>2, <2>3, <2>4, <2>5
       DEF Promises!Ask, Promises!Nothing, Nothing, TypeOK
  <2> QED
    BY <2>6 DEF Promises!Next
<1>5. CASE \E a \in Orders, allowPartial \in BOOLEAN, now \in 0..MaxTime :
             ApproveOrder(a, allowPartial, now)
  <2>1. PICK a \in Orders, allowPartial \in BOOLEAN, now \in 0..MaxTime :
               ApproveOrder(a, allowPartial, now)
    BY <1>5
  <2>2. /\ Process /\ line' = line /\ onHand' = onHand
        /\ status' = [status EXCEPT ![a] = "approved"]
        /\ status[a] = "pending_approval"
    BY <2>1 DEF ApproveOrder
  <2>3. /\ \A p \in Products : onHand[p] <= onHand'[p]
        /\ \A o \in Orders : status'[o] = "cancelled" <=> status[o] = "cancelled"
    BY <1>1, <2>2 DEF TypeOK
  <2> QED
    BY <1>2, <2>2, <2>3
<1>6. CASE \E a \in Orders : RejectOrder(a)
  <2>1. PICK a \in Orders : RejectOrder(a)
    BY <1>6
  <2>2. \A o \in Orders : status'[o] = "cancelled" <=> status[o] = "cancelled"
    BY <1>1, <2>1 DEF RejectOrder, TypeOK
  <2> QED
    BY <2>1, <2>2, PromisesUntouched DEF RejectOrder, stockVars
<1>7. CASE \E p \in Products, quantity \in 1..MaxReceipt : StockProduct(p, quantity)
  <2>1. PICK p \in Products, quantity \in 1..MaxReceipt : StockProduct(p, quantity)
    BY <1>7
  <2>2. /\ Process /\ line' = line /\ onHand' = [onHand EXCEPT ![p] = @ + quantity]
        /\ quantity \in Nat /\ status' = status
    BY <2>1, BoundsAssumption DEF StockProduct, orderVars
  <2>3. \A r \in Products : onHand[r] <= onHand'[r]
    <3>1. onHand \in [Products -> Nat]
      BY <1>1 DEF TypeOK
    <3> QED
      BY <2>2, <3>1
  <2> QED
    BY <1>2, <2>2, <2>3
<1>8. CASE \E a \in Orders, p \in Products : \E quantity \in 1..line[a][p] :
             Reserve(a, p, quantity)
  <2>1. PICK a \in Orders, p \in Products : \E quantity \in 1..line[a][p] :
               Reserve(a, p, quantity)
    BY <1>8
  <2>2. PICK quantity \in 1..line[a][p] : Reserve(a, p, quantity)
    BY <2>1
  <2>3. /\ status' = status /\ line' = line /\ onHand' = onHand /\ quantity \in Nat
        /\ reservation' = [reservation EXCEPT ![a][p] = @ + quantity]
    BY <1>1, <2>2 DEF Reserve, orderVars, TypeOK
  <2>4. ASSUME NEW o \in Orders, NEW r \in Products
        PROVE  reservation[o][r] <= reservation'[o][r]
    <3>1. reservation[o][r] \in Nat /\ reservation[a][p] \in Nat
      BY <1>1 DEF TypeOK
    <3>2. reservation'[o][r] = IF o = a /\ r = p THEN reservation[o][r] + quantity
                                                ELSE reservation[o][r]
      BY <1>1, <2>3 DEF TypeOK
    <3> QED
      BY <2>3, <3>1, <3>2
  <2>5. \A r \in Products : onHand[r] <= onHand'[r]
    BY <1>1, <2>3 DEF TypeOK
  <2> QED
    BY <2>3, <2>4, <2>5, PromisesStock DEF Promises!Next
<1>9. CASE \E a \in Orders, items \in [Products -> 0..MaxStock] :
             CreateShipment(a, items)
  BY <1>9, PromisesUntouched DEF CreateShipment, orderVars, stockVars
<1>10. CASE \E a \in Orders : \E i \in DOMAIN tasks[a] : AdvanceStatus(a, i)
  <2>1. PICK a \in Orders : \E i \in DOMAIN tasks[a] : AdvanceStatus(a, i)
    BY <1>10
  <2>2. PICK i \in DOMAIN tasks[a] : AdvanceStatus(a, i)
    BY <2>1
  <2>3. \A o \in Orders : status'[o] \in {status[o], "ready_to_ship"}
    BY <1>1, <2>2, AdvanceType
  <2>4. \A o \in Orders : status[o] = "cancelled" => status'[o] = "cancelled"
    BY CancelledKept
  <2>5. \A o \in Orders : status'[o] = "cancelled" <=> status[o] = "cancelled"
    BY <2>3, <2>4
  <2> QED
    BY <2>2, <2>5, PromisesUntouched DEF AdvanceStatus, stockVars
<1>11. CASE \E a \in Orders, type \in {"change", "cancellation"} : RequestChange(a, type)
  BY <1>11, PromisesUntouched DEF RequestChange, orderVars, stockVars
<1>12. CASE \E a \in Orders, approve \in BOOLEAN : \E i \in DOMAIN requests[a] :
              DecideChangeRequest(a, i, approve)
  <2>1. PICK a \in Orders : CancelOrder(a) \/ UNCHANGED <<orderVars, stockVars, tasks>>
    BY <1>12 DEF DecideChangeRequest
  <2>2. CASE UNCHANGED <<orderVars, stockVars, tasks>>
    BY <2>2, PromisesUntouched DEF orderVars, stockVars
  <2>3. CASE CancelOrder(a)
    <3>1. /\ status' = [status EXCEPT ![a] = "cancelled"]
          /\ reservation' = [reservation EXCEPT ![a] = Nothing]
          /\ line' = line /\ onHand' = onHand
      BY <2>3 DEF CancelOrder, CancelTasks, ReleaseReservations, CancelStatus
    <3>2. {o \in Orders : status'[o] = "cancelled"}
            = {o \in Orders : status[o] = "cancelled"} \cup {a}
      BY <1>1, <3>1 DEF TypeOK
    <3>3. Promises!Withdraw(a)
      BY <3>1, <3>2 DEF Promises!Withdraw, Promises!Nothing, Nothing
    <3> QED
      BY <3>3 DEF Promises!Next
  <2> QED
    BY <2>1, <2>2, <2>3
<1> QED
  BY <1>3, <1>4, <1>5, <1>6, <1>7, <1>8, <1>9, <1>10, <1>11, <1>12 DEF Next

\* Fulfillment implements the contract of StockPromises.
THEOREM PromisesRefined == Spec => PromisesKept
BY PromisesInit, PromisesStep, FulfillmentInvariant, PTL
   DEF Spec, PromisesKept, Promises!Spec
=============================================================================
