---------------------- MODULE FulfillmentSessionProofs ----------------------
(***************************************************************************)
(* What every overlap of sessions leaves true, for any number of sessions. *)
(* The argument is one about row locks: a committed row only changes under *)
(* a lock on it, so what a session has found in rows it has locked stays   *)
(* so until it ends.  And a request that no other overlaps does, step by   *)
(* step, what its one-step action in Fulfillment does.                     *)
(***************************************************************************)
EXTENDS FulfillmentSessions, FulfillmentTaskProofs

Rows == {OrderRow(o) : o \in Orders} \cup {StockRow(p) : p \in Products}
          \cup {TaskRow(o, i) : o \in Orders, i \in Nat}

Jobs == {NoJob}
  \cup [op : {"approve"}, order : Orders, partial : BOOLEAN, at : Nat]
  \cup [op : {"stock"}, product : Products, quantity : Nat]
  \cup [op : {"advance"}, order : Orders, task : Nat]
  \cup [op : {"cancel"}, order : Orders]

Cache == [queue       : SUBSET Orders,
          onHand      : [Products -> Nat],
          reserved    : [Products -> Nat],
          reservation : [Orders -> [Products -> Nat]],
          rows        : SUBSET (Orders \X Products),
          served      : SUBSET (Orders \X Products),
          looked      : SUBSET Orders,
          new         : [Orders -> [Products -> Nat]]]

SessionTypes ==
  /\ TypeOK
  /\ step \in [Sessions -> Steps]
  /\ job \in [Sessions -> Jobs]
  /\ holds \in [Sessions -> SUBSET Rows]
  /\ cache \in [Sessions -> Cache]
  /\ alone \in SUBSET Sessions

\* No row is locked twice.
Exclusive == \A s, t \in Sessions : s # t => holds[s] \cap holds[t] = {}

\* ck_inventory_available holds of the committed rows.
CountersFit == \A p \in Products : reserved[p] <= onHand[p]

\* What is committed of an order.
OrderInv(o) ==
  /\ \A p \in Products : reservation[o][p] <= line[o][p] /\ Planned(o, p) <= line[o][p]
  /\ \A i \in DOMAIN tasks[o] :
       /\ tasks[o][i].items # Nothing
       /\ tasks[o][i].status \in OpenStatus => status[o] = "approved"
  /\ tasks[o] # <<>> => status[o] \in {"approved", "ready_to_ship", "cancelled"}
  /\ status[o] = "ready_to_ship" => Complete(o)
  /\ status[o] = "cancelled" =>
       \A i \in DOMAIN tasks[o] : tasks[o][i].status = "cancelled"
  /\ status[o] \in Live /\ ~partial[o] /\ tasks[o] # <<>> =>
       \A p \in Products : Planned(o, p) = line[o][p]

Automatic(s) == job[s].op \in {"approve", "stock"}

\* What a request has locked, and what therefore is still so.
JobInv(s) ==
  /\ step[s] = "idle" <=> job[s] = NoJob
  /\ step[s] = "idle" => holds[s] = {} /\ cache[s] = NoCache
  /\ job[s].op = "approve" =>
       /\ step[s] \in {"orders", "stock", "reservations", "allocate"}
       /\ OrderRow(job[s].order) \in holds[s]
       /\ status[job[s].order] = "pending_approval"
  /\ job[s].op = "stock" =>
       /\ step[s] \in {"receive", "orders", "stock", "reservations", "allocate"}
       /\ step[s] # "receive" => StockRow(job[s].product) \in holds[s]
  /\ job[s].op = "advance" =>
       /\ step[s] \in {"siblings", "mark", "commit"}
       /\ holds[s] = {TaskRow(job[s].order, job[s].task)}
       /\ job[s].task \in DOMAIN tasks[job[s].order]
       /\ tasks[job[s].order][job[s].task].status = "packing"
  /\ job[s].op = "cancel" =>
       /\ step[s] \in {"stop", "counter", "release"}
       /\ OrderRow(job[s].order) \in holds[s]
       /\ status[job[s].order] \notin {"draft", "pending_approval", "rejected"}
       /\ step[s] # "stop" => LiveTasks(job[s].order) \subseteq holds[s]

\* The stock rows of a session: what it has flushed keeps the constraint.
StockInv(s) ==
  /\ \A o \in Orders, p \in Products : cache[s].reservation[o][p] <= line[o][p]
  /\ Automatic(s) => \A p \in Products : cache[s].reserved[p] <= cache[s].onHand[p]
  /\ job[s].op = "stock" /\ step[s] # "receive" =>
       reserved[job[s].product] <= cache[s].onHand[job[s].product]
  /\ \A l \in cache[s].rows :
       /\ StockRow(l[2]) \in holds[s]
       /\ cache[s].reserved[l[2]] <= StockNow(s, l[2])

\* The tasks that a session is about to commit, on orders it has locked.
PlanInv(s) ==
  \A o \in Orders :
    cache[s].new[o] # Nothing =>
      /\ Automatic(s)
      /\ OrderRow(o) \in holds[s]
      /\ StatusIn(s)[o] = "approved"
      /\ \A p \in Products : Planned(o, p) + cache[s].new[o][p] <= line[o][p]
      /\ ~PartialIn(s)[o] =>
           \A p \in Products : Planned(o, p) + cache[s].new[o][p] = line[o][p]

\* A worker who is about to mark the order ready is right.
MarkInv(s) == step[s] = "mark" => CompleteIn(s, job[s].order)

\* The orders that the automation has been through come before the others.
QueueInv(s) ==
  /\ \A o \in cache[s].queue : Decides(s, o) \/ status[o] # "pending_approval"
  /\ cache[s].looked \subseteq cache[s].queue
  /\ cache[s].looked # {} => step[s] = "allocate" /\ LinesLeft(s) = {}
  /\ \A a \in cache[s].looked, b \in OrdersLeft(s) : Before(ApprovedIn(s), a, b)
  /\ Automatic(s) =>
       holds[s] \subseteq {StockRow(p) : p \in Products}
         \cup {OrderRow(o) : o \in {a \in Orders : a \in cache[s].looked \/ Decides(s, a)}}

SessionInv(s) ==
  JobInv(s) /\ StockInv(s) /\ PlanInv(s) /\ MarkInv(s) /\ QueueInv(s)

SessionsInv ==
  /\ SessionTypes
  /\ Exclusive
  /\ CountersFit
  /\ \A o \in Orders : OrderInv(o)
  /\ \A s \in Sessions : SessionInv(s)

-----------------------------------------------------------------------------
\* Rows of different tables are different rows, and keys identify rows.
LEMMA RowsDiffer ==
  /\ \A o, p : OrderRow(o) # StockRow(p)
  /\ \A o, a, i : OrderRow(o) # TaskRow(a, i)
  /\ \A p, a, i : StockRow(p) # TaskRow(a, i)
  /\ \A o, a : OrderRow(o) = OrderRow(a) => o = a
  /\ \A p, q : StockRow(p) = StockRow(q) => p = q
  /\ \A o, a, i, j : TaskRow(o, i) = TaskRow(a, j) => o = a /\ i = j
BY DEF OrderRow, StockRow, TaskRow

\* The fields that a job of each kind has.
LEMMA JobFields ==
  ASSUME NEW j \in Jobs
  PROVE  /\ j.op \in {"none", "approve", "stock", "advance", "cancel"}
         /\ j.op = "none" <=> j = NoJob
         /\ j.op = "approve" => j.order \in Orders /\ j.partial \in BOOLEAN /\ j.at \in Nat
         /\ j.op = "stock" => j.product \in Products /\ j.quantity \in Nat
         /\ j.op = "advance" => j.order \in Orders /\ j.task \in Nat
         /\ j.op = "cancel" => j.order \in Orders
BY DEF Jobs, NoJob

\* The parts of a cache.
LEMMA CacheFields ==
  ASSUME SessionTypes, NEW s \in Sessions
  PROVE  /\ cache[s].queue \subseteq Orders
         /\ cache[s].looked \subseteq Orders
         /\ cache[s].rows \subseteq Orders \X Products
         /\ cache[s].served \subseteq Orders \X Products
         /\ \A p \in Products : cache[s].onHand[p] \in Nat /\ cache[s].reserved[p] \in Nat
         /\ \A o \in Orders : cache[s].new[o] \in [Products -> Nat]
         /\ \A o \in Orders, p \in Products : cache[s].reservation[o][p] \in Nat
         /\ \A o \in Orders, p \in Products : cache[s].new[o][p] \in Nat
BY DEF SessionTypes, Cache

-----------------------------------------------------------------------------
\* What the other sessions leave to session t.
Kept(t) ==
  /\ line' = line
  /\ step'[t] = step[t] /\ job'[t] = job[t]
  /\ holds'[t] = holds[t] /\ cache'[t] = cache[t]
  /\ \A o \in Orders :
       /\ OrderRow(o) \in holds[t] =>
            /\ status'[o] = status[o]
            /\ DOMAIN tasks'[o] = DOMAIN tasks[o]
            /\ \A p \in Products : Planned(o, p)' = Planned(o, p)
       /\ status[o] # "pending_approval" =>
            /\ status'[o] # "pending_approval"
            /\ partial'[o] = partial[o] /\ approvedAt'[o] = approvedAt[o]
       /\ \A i \in DOMAIN tasks[o] :
            /\ i \in DOMAIN tasks'[o]
            /\ TaskRow(o, i) \in holds[t] => tasks'[o][i] = tasks[o][i]
            /\ tasks[o][i].status = "cancelled" => tasks'[o][i].status = "cancelled"
  /\ \A p \in Products : StockRow(p) \in holds[t] =>
       onHand'[p] = onHand[p] /\ reserved'[p] = reserved[p]
  /\ step[t] = "mark" => tasks'[job[t].order] = tasks[job[t].order]

\* A session that is left alone keeps what it relies on.
LEMMA KeptInv ==
  ASSUME SessionTypes, SessionTypes', NEW t \in Sessions, Kept(t), SessionInv(t)
  PROVE  SessionInv(t)'
<1> DEFINE j == job[t]
           c == cache[t]
<1>1. /\ j.op \in {"none", "approve", "stock", "advance", "cancel"}
      /\ j.op = "none" <=> j = NoJob
      /\ j.op = "approve" => j.order \in Orders
      /\ j.op = "stock" => j.product \in Products
      /\ j.op = "advance" => j.order \in Orders
      /\ j.op = "cancel" => j.order \in Orders
  <2>1. j \in Jobs
    BY DEF SessionTypes
  <2> QED
    BY <2>1, JobFields
<1>2. /\ job'[t] = j /\ cache'[t] = c /\ holds'[t] = holds[t] /\ step'[t] = step[t]
      /\ line' = line
  BY DEF Kept
<1>3. JobInv(t)'
  <2>1. JobInv(t)
    BY DEF SessionInv
  <2>2. CASE j.op \in {"none", "approve", "stock"}
    BY <1>1, <1>2, <2>1, <2>2 DEF JobInv, Kept
  <2>3. CASE j.op = "advance"
    <3>1. TaskRow(j.order, j.task) \in holds[t] /\ j.task \in DOMAIN tasks[j.order]
      BY <2>1, <2>3 DEF JobInv
    <3> QED
      BY <1>1, <1>2, <2>1, <2>3, <3>1 DEF JobInv, Kept
  <2>4. CASE j.op = "cancel"
    <3>1. OrderRow(j.order) \in holds[t]
      BY <2>1, <2>4 DEF JobInv
    <3>2. LiveTasks(j.order)' \subseteq LiveTasks(j.order)
      BY <1>1, <2>4, <3>1 DEF LiveTasks, Kept
    <3> QED
      BY <1>1, <1>2, <2>1, <2>4, <3>1, <3>2 DEF JobInv, Kept
  <2> QED
    BY <1>1, <2>2, <2>3, <2>4
<1>4. StockInv(t)'
  <2>1. StockInv(t) /\ JobInv(t)
    BY DEF SessionInv
  <2>2. \A l \in c.rows : l[2] \in Products /\ StockNow(t, l[2])' = StockNow(t, l[2])
    BY <1>2, <2>1, CacheFields DEF StockNow, StockInv, Kept
  <2> QED
    BY <1>1, <1>2, <2>1, <2>2 DEF StockInv, JobInv, Automatic, Kept
<1>5. PlanInv(t)'
  <2>1. PlanInv(t)
    BY DEF SessionInv
  <2>2. SUFFICES ASSUME NEW o \in Orders, c.new[o] # Nothing
                 PROVE  /\ Automatic(t)'
                        /\ OrderRow(o) \in holds[t]'
                        /\ StatusIn(t)'[o] = "approved"
                        /\ \A p \in Products : Planned(o, p)' + c.new[o][p] <= line[o][p]
                        /\ ~PartialIn(t)'[o] =>
                             \A p \in Products : Planned(o, p)' + c.new[o][p] = line[o][p]
    BY <1>2 DEF PlanInv
  <2>3. /\ Automatic(t) /\ OrderRow(o) \in holds[t]
        /\ StatusIn(t)[o] = "approved"
        /\ \A p \in Products : Planned(o, p) + c.new[o][p] <= line[o][p]
        /\ ~PartialIn(t)[o] =>
             \A p \in Products : Planned(o, p) + c.new[o][p] = line[o][p]
    BY <2>1, <2>2 DEF PlanInv
  <2>4. /\ status'[o] = status[o]
        /\ \A p \in Products : Planned(o, p)' = Planned(o, p)
    BY <2>3 DEF Kept
  <2>5. StatusIn(t)'[o] = "approved" /\ PartialIn(t)'[o] = PartialIn(t)[o]
    <3>1. CASE Decides(t, o)
      BY <1>2, <3>1 DEF StatusIn, PartialIn, Decides
    <3>2. CASE ~Decides(t, o)
      <4>1. status[o] = "approved"
        BY <2>3, <3>2 DEF StatusIn
      <4>2. partial'[o] = partial[o]
        BY <4>1 DEF Kept
      <4> QED
        BY <1>2, <2>4, <3>2, <4>1, <4>2 DEF StatusIn, PartialIn, Decides
    <3> QED
      BY <3>1, <3>2
  <2> QED
    BY <1>2, <2>3, <2>4, <2>5 DEF Automatic
<1>6. MarkInv(t)'
  <2>1. MarkInv(t) /\ JobInv(t)
    BY DEF SessionInv
  <2>2. SUFFICES ASSUME step[t] = "mark" PROVE CompleteIn(t, j.order)'
    BY <1>2 DEF MarkInv
  <2>3. j.order \in Orders /\ tasks'[j.order] = tasks[j.order]
    BY <1>1, <2>1, <2>2 DEF JobInv, Kept, NoJob
  <2>4. TasksIn(t)'[j.order] = TasksIn(t)[j.order]
    BY <1>2, <2>3 DEF TasksIn, SessionTypes, TypeOK
  <2>5. CompleteIn(t, j.order)
    BY <2>1, <2>2 DEF MarkInv
  <2> QED
    BY <1>2, <2>4, <2>5 DEF CompleteIn, Ships
<1>7. QueueInv(t)'
  <2>1. QueueInv(t) /\ c.queue \subseteq Orders
    BY CacheFields DEF SessionInv
  <2>2. \A o \in c.queue : /\ Decides(t, o)' <=> Decides(t, o)
                           /\ Decides(t, o) \/ status'[o] # "pending_approval"
                           /\ PartialIn(t)'[o] = PartialIn(t)[o]
                           /\ ApprovedIn(t)'[o] = ApprovedIn(t)[o]
    BY <1>2, <2>1 DEF QueueInv, Kept, Decides, PartialIn, ApprovedIn
  <2>3. OrdersLeft(t)' = OrdersLeft(t)
    BY <1>2, <2>2 DEF OrdersLeft
  <2>4. LinesLeft(t)' = LinesLeft(t)
    BY <1>2 DEF LinesLeft
  <2>5. \A a \in c.looked, b \in OrdersLeft(t) :
          Before(ApprovedIn(t), a, b)' <=> Before(ApprovedIn(t), a, b)
    BY <2>1, <2>2 DEF Before, QueueInv, OrdersLeft
  <2> QED
    BY <1>2, <2>1, <2>2, <2>3, <2>4, <2>5 DEF QueueInv, Decides, Automatic
<1> QED
  BY <1>3, <1>4, <1>5, <1>6, <1>7 DEF SessionInv

-----------------------------------------------------------------------------
\* A step of s that commits nothing, and locks only rows that are free.
LocalTo(s) ==
  /\ UNCHANGED vars
  /\ \A t \in Sessions \ {s} : /\ step'[t] = step[t] /\ job'[t] = job[t]
                               /\ holds'[t] = holds[t] /\ cache'[t] = cache[t]
  /\ \A row \in holds'[s] : row \in holds[s] \/ Free(s, row)

\* A step that only touches what belongs to s, and only locks rows that are free.
LEMMA LocalStep ==
  ASSUME SessionsInv, SessionTypes', NEW s \in Sessions, LocalTo(s), SessionInv(s)'
  PROVE  SessionsInv'
<1>1. /\ line' = line /\ status' = status /\ partial' = partial
      /\ approvedAt' = approvedAt /\ tasks' = tasks /\ reservation' = reservation
      /\ onHand' = onHand /\ reserved' = reserved
  BY DEF LocalTo, vars
<1>2. Exclusive'
  BY DEF LocalTo, Exclusive, Free, SessionsInv
<1>3. CountersFit' /\ \A o \in Orders : OrderInv(o)'
  <2>1. CountersFit'
    BY <1>1 DEF SessionsInv, CountersFit
  <2>2. ASSUME NEW o \in Orders PROVE OrderInv(o)'
    <3>1. /\ OrderInv(o)
          /\ \A p \in Products : Planned(o, p)' = Planned(o, p)
      BY <1>1 DEF SessionsInv, Planned
    <3>2. Complete(o)' <=> Complete(o)
      BY <1>1 DEF Complete, ReadyQuantity, ReadyTasks
    <3> QED
      BY <1>1, <3>1, <3>2 DEF OrderInv
  <2> QED
    BY <2>1, <2>2
<1>4. ASSUME NEW t \in Sessions \ {s} PROVE SessionInv(t)'
  <2>1. Kept(t)
    BY <1>1 DEF Kept, LocalTo, Planned
  <2> QED
    BY <2>1, KeptInv DEF SessionsInv
<1> QED
  BY <1>2, <1>3, <1>4 DEF SessionsInv

\* What is known of a session.
LEMMA SessionFacts ==
  ASSUME SessionsInv, NEW s \in Sessions
  PROVE  /\ SessionTypes /\ TypeOK
         /\ JobInv(s) /\ StockInv(s) /\ PlanInv(s) /\ MarkInv(s) /\ QueueInv(s)
         /\ job[s] \in Jobs /\ cache[s] \in Cache /\ holds[s] \subseteq Rows
BY DEF SessionsInv, SessionInv, SessionTypes

\* A session with nothing in its cache.
LEMMA EmptyCache ==
  /\ NoCache \in Cache
  /\ NoCache.queue = {} /\ NoCache.rows = {} /\ NoCache.looked = {} /\ NoCache.served = {}
  /\ \A o \in Orders : NoCache.new[o] = Nothing
  /\ \A o \in Orders, p \in Products : NoCache.reservation[o][p] = 0
  /\ \A p \in Products : NoCache.reserved[p] = 0 /\ NoCache.onHand[p] = 0
BY DEF NoCache, Cache, Nothing

\* The session is idle.
LEMMA IdleInv ==
  ASSUME SessionTypes, NEW s \in Sessions,
         step[s] = "idle", job[s] = NoJob, holds[s] = {}, cache[s] = NoCache
  PROVE  SessionInv(s)
<1>1. JobInv(s)
  BY DEF JobInv, NoJob
<1>2. StockInv(s)
  BY EmptyCache DEF StockInv, NoJob, Automatic, SessionTypes, TypeOK
<1>3. PlanInv(s)
  BY EmptyCache DEF PlanInv
<1>4. MarkInv(s)
  BY DEF MarkInv
<1>5. QueueInv(s)
  BY EmptyCache DEF QueueInv
<1> QED
  BY <1>1, <1>2, <1>3, <1>4, <1>5 DEF SessionInv

\* The same after a step.
LEMMA IdleAfter ==
  ASSUME SessionTypes', NEW s \in Sessions,
         step'[s] = "idle", job'[s] = NoJob, holds'[s] = {}, cache'[s] = NoCache
  PROVE  SessionInv(s)'
<1>1. JobInv(s)'
  BY DEF JobInv, NoJob
<1>2. StockInv(s)'
  BY EmptyCache DEF StockInv, NoJob, Automatic, SessionTypes, TypeOK
<1>3. PlanInv(s)'
  BY EmptyCache DEF PlanInv
<1>4. MarkInv(s)'
  BY DEF MarkInv
<1>5. QueueInv(s)'
  BY EmptyCache DEF QueueInv
<1> QED
  BY <1>1, <1>2, <1>3, <1>4, <1>5 DEF SessionInv

-----------------------------------------------------------------------------
\* A request begins on an idle session.
LEMMA BeginFacts ==
  ASSUME SessionsInv, NEW s \in Sessions, NEW j \in Jobs, NEW label \in Steps,
         NEW rows \in SUBSET Rows, Begin(s, j, label, rows)
  PROVE  /\ step' \in [Sessions -> Steps] /\ job' \in [Sessions -> Jobs]
         /\ holds' \in [Sessions -> SUBSET Rows] /\ alone' \in SUBSET Sessions
         /\ step'[s] = label /\ job'[s] = j /\ holds'[s] = rows
         /\ \A row \in rows : Free(s, row)
         /\ \A t \in Sessions \ {s} :
              step'[t] = step[t] /\ job'[t] = job[t] /\ holds'[t] = holds[t]
         /\ cache[s] = NoCache
<1>1. SessionTypes /\ JobInv(s) /\ step[s] = "idle"
  BY SessionFacts DEF Begin
<1>2. holds[s] = {} /\ cache[s] = NoCache
  BY <1>1 DEF JobInv
<1> QED
  BY <1>1, <1>2 DEF Begin, Lock, Goto, SessionTypes

\* An approval begins: it holds the order row, so the order stays pending.
LEMMA ApprovalBegins ==
  ASSUME SessionsInv, NEW s \in Sessions, NEW o \in Orders,
         NEW allowPartial \in BOOLEAN, NEW now \in 0..MaxTime,
         BeginApproval(s, o, allowPartial, now)
  PROVE  SessionsInv'
<1> DEFINE j == Approve(o, allowPartial, now)
<1>1. /\ j \in Jobs /\ j.op = "approve" /\ j.order = o
      /\ {OrderRow(o)} \in SUBSET Rows /\ "orders" \in Steps
  BY BoundsAssumption DEF Approve, Jobs, Rows, Steps
<1> HIDE DEF j
<1>2. Begin(s, j, "orders", {OrderRow(o)}) /\ UNCHANGED <<vars, cache>>
      /\ status[o] = "pending_approval"
  BY DEF BeginApproval, j
<1>3. /\ step' \in [Sessions -> Steps] /\ job' \in [Sessions -> Jobs]
      /\ holds' \in [Sessions -> SUBSET Rows] /\ alone' \in SUBSET Sessions
      /\ step'[s] = "orders" /\ job'[s] = j /\ holds'[s] = {OrderRow(o)}
      /\ \A row \in {OrderRow(o)} : Free(s, row)
      /\ \A t \in Sessions \ {s} :
           step'[t] = step[t] /\ job'[t] = job[t] /\ holds'[t] = holds[t]
      /\ cache[s] = NoCache
  BY <1>1, <1>2, BeginFacts
<1>4. SessionTypes'
  BY <1>2, <1>3, SessionFacts DEF SessionTypes, TypeOK, vars
<1>5. LocalTo(s)
  BY <1>2, <1>3 DEF LocalTo
<1>6. cache'[s] = NoCache /\ status'[o] = "pending_approval"
  BY <1>2, <1>3 DEF vars
<1>7. JobInv(s)'
  BY <1>1, <1>3, <1>6 DEF JobInv, NoJob
<1>8. StockInv(s)'
  BY <1>1, <1>3, <1>4, <1>6, EmptyCache DEF StockInv, SessionTypes, TypeOK
<1>9. PlanInv(s)' /\ MarkInv(s)'
  BY <1>3, <1>6, EmptyCache DEF PlanInv, MarkInv
<1>10. QueueInv(s)'
  BY <1>1, <1>3, <1>6, EmptyCache DEF QueueInv, Decides
<1> QED
  BY <1>4, <1>5, <1>7, <1>8, <1>9, <1>10, LocalStep DEF SessionInv

\* A receipt begins: it has loaded the stock row without a lock on it.
LEMMA ReceiptBegins ==
  ASSUME SessionsInv, NEW s \in Sessions, NEW p \in Products,
         NEW quantity \in 1..MaxReceipt, BeginReceipt(s, p, quantity)
  PROVE  SessionsInv'
<1> DEFINE j == Stock(p, quantity)
<1>1. /\ j \in Jobs /\ j.op = "stock" /\ j.product = p /\ "receive" \in Steps
  BY BoundsAssumption DEF Stock, Jobs, Steps
<1> HIDE DEF j
<1>2. /\ Begin(s, j, "receive", {}) /\ UNCHANGED vars
      /\ cache' = [cache EXCEPT ![s].onHand[p] = onHand[p],
                                ![s].reserved[p] = reserved[p]]
  BY DEF BeginReceipt, j
<1>3. /\ step' \in [Sessions -> Steps] /\ job' \in [Sessions -> Jobs]
      /\ holds' \in [Sessions -> SUBSET Rows] /\ alone' \in SUBSET Sessions
      /\ step'[s] = "receive" /\ job'[s] = j /\ holds'[s] = {}
      /\ \A t \in Sessions \ {s} :
           step'[t] = step[t] /\ job'[t] = job[t] /\ holds'[t] = holds[t]
      /\ cache[s] = NoCache
  BY <1>1, <1>2, BeginFacts
<1>4. /\ cache' \in [Sessions -> Cache]
      /\ \A t \in Sessions \ {s} : cache'[t] = cache[t]
      /\ cache'[s] = [cache[s] EXCEPT !.onHand = [cache[s].onHand EXCEPT ![p] = onHand[p]],
                                      !.reserved = [cache[s].reserved EXCEPT ![p] = reserved[p]]]
  <2>1. cache \in [Sessions -> Cache] /\ onHand[p] \in Nat /\ reserved[p] \in Nat
    BY SessionFacts DEF SessionTypes, TypeOK
  <2>2. cache' = [cache EXCEPT ![s].onHand[p] = onHand[p], ![s].reserved[p] = reserved[p]]
    BY <1>2
  <2>3. cache'[s] = [cache[s] EXCEPT !.onHand = [cache[s].onHand EXCEPT ![p] = onHand[p]],
                                     !.reserved = [cache[s].reserved EXCEPT ![p] = reserved[p]]]
    BY <2>1, <2>2 DEF Cache
  <2>4. cache'[s] \in Cache
    <3> DEFINE r1 == [cache[s].onHand EXCEPT ![p] = onHand[p]]
               r2 == [cache[s].reserved EXCEPT ![p] = reserved[p]]
    <3>1. r1 \in [Products -> Nat] /\ r2 \in [Products -> Nat] /\ cache[s] \in Cache
      BY <2>1 DEF Cache
    <3>2. cache'[s] = [cache[s] EXCEPT !.onHand = r1, !.reserved = r2]
      BY <2>3
    <3> HIDE DEF r1, r2
    <3> QED
      BY <3>1, <3>2 DEF Cache
  <2>5. \A t \in Sessions \ {s} : cache'[t] = cache[t]
    BY <2>1, <2>2
  <2> QED
    BY <2>1, <2>2, <2>3, <2>4, <2>5
<1>5. SessionTypes'
  BY <1>2, <1>3, <1>4, SessionFacts DEF SessionTypes, TypeOK, vars
<1>6. LocalTo(s)
  BY <1>2, <1>3, <1>4 DEF LocalTo
<1>7. /\ cache'[s].queue = {} /\ cache'[s].rows = {} /\ cache'[s].looked = {}
      /\ \A o \in Orders : cache'[s].new[o] = Nothing
      /\ \A o \in Orders, q \in Products : cache'[s].reservation[o][q] = 0
      /\ \A q \in Products : cache'[s].reserved[q] <= cache'[s].onHand[q]
  <2>1. reserved[p] <= onHand[p]
    BY DEF SessionsInv, CountersFit
  <2> QED
    BY <1>3, <1>4, <2>1 DEF NoCache, Nothing
<1>8. JobInv(s)'
  BY <1>1, <1>3 DEF JobInv, NoJob
<1>9. StockInv(s)'
  BY <1>1, <1>3, <1>5, <1>7 DEF StockInv, SessionTypes, TypeOK
<1>10. PlanInv(s)' /\ MarkInv(s)'
  BY <1>3, <1>7 DEF PlanInv, MarkInv
<1>11. QueueInv(s)'
  BY <1>1, <1>3, <1>7 DEF QueueInv, Decides
<1> QED
  BY <1>5, <1>6, <1>8, <1>9, <1>10, <1>11, LocalStep DEF SessionInv

-----------------------------------------------------------------------------
\* Which request is at which step, and the fields of its job.
LEMMA StepJobs ==
  ASSUME SessionsInv, NEW s \in Sessions
  PROVE  /\ step[s] = "receive" => job[s].op = "stock"
         /\ step[s] \in {"orders", "stock", "reservations", "allocate"} => Automatic(s)
         /\ step[s] \in {"siblings", "mark", "commit"} => job[s].op = "advance"
         /\ step[s] \in {"stop", "counter", "release"} => job[s].op = "cancel"
         /\ job[s].op = "approve" => /\ job[s].order \in Orders
                                     /\ job[s].partial \in BOOLEAN /\ job[s].at \in Nat
         /\ job[s].op = "stock" => job[s].product \in Products /\ job[s].quantity \in Nat
         /\ job[s].op = "advance" => job[s].order \in Orders /\ job[s].task \in Nat
         /\ job[s].op = "cancel" => job[s].order \in Orders
<1>1. JobInv(s) /\ job[s] \in Jobs
  BY SessionFacts
<1>2. /\ job[s].op \in {"none", "approve", "stock", "advance", "cancel"}
      /\ job[s].op = "none" <=> job[s] = NoJob
  BY <1>1, JobFields
<1>3. step[s] = "idle" <=> job[s].op = "none"
  BY <1>1, <1>2 DEF JobInv
<1>4. /\ step[s] = "receive" => job[s].op = "stock"
      /\ step[s] \in {"orders", "stock", "reservations", "allocate"} => Automatic(s)
      /\ step[s] \in {"siblings", "mark", "commit"} => job[s].op = "advance"
      /\ step[s] \in {"stop", "counter", "release"} => job[s].op = "cancel"
  BY <1>1, <1>2, <1>3 DEF JobInv, Automatic
<1> QED
  BY <1>1, <1>4, JobFields

\* The rows that s locks were free, and nobody else's locks change.
LEMMA LockFacts ==
  ASSUME SessionTypes, NEW s \in Sessions, NEW rows \in SUBSET Rows, Lock(s, rows)
  PROVE  /\ holds' \in [Sessions -> SUBSET Rows]
         /\ holds'[s] = holds[s] \cup rows
         /\ \A t \in Sessions \ {s} : holds'[t] = holds[t]
         /\ \A row \in rows : Free(s, row)
BY DEF Lock, SessionTypes

\* Moving on to a step that exists.
LEMMA GotoFacts ==
  ASSUME SessionTypes, NEW s \in Sessions, NEW label \in Steps, Goto(s, label)
  PROVE  /\ step' \in [Sessions -> Steps] /\ step'[s] = label
         /\ \A t \in Sessions \ {s} : step'[t] = step[t]
BY DEF Goto, SessionTypes

\* A stock row is only locked and its stock received.
LEMMA ReceiptStep ==
  ASSUME SessionsInv, NEW s \in Sessions, Receive(s)
  PROVE  SessionsInv'
<1> DEFINE p == job[s].product
           total == cache[s].onHand[p] + job[s].quantity
<1>1. /\ SessionTypes /\ TypeOK /\ JobInv(s) /\ StockInv(s) /\ PlanInv(s) /\ QueueInv(s)
      /\ step[s] = "receive" /\ job[s].op = "stock"
      /\ p \in Products /\ job[s].quantity \in Nat
  BY SessionFacts, StepJobs DEF Receive
<1>2. /\ Lock(s, {StockRow(p)}) /\ reserved[p] <= total /\ Goto(s, "orders")
      /\ cache' = [cache EXCEPT ![s].onHand[p] = total]
      /\ UNCHANGED <<vars, job, alone>>
  BY DEF Receive
<1>3. /\ holds' \in [Sessions -> SUBSET Rows]
      /\ holds'[s] = holds[s] \cup {StockRow(p)}
      /\ \A t \in Sessions \ {s} : holds'[t] = holds[t]
      /\ \A row \in {StockRow(p)} : Free(s, row)
  <2>1. {StockRow(p)} \in SUBSET Rows
    BY <1>1 DEF Rows
  <2> QED
    BY <1>1, <1>2, <2>1, LockFacts
<1>4. /\ step' \in [Sessions -> Steps] /\ step'[s] = "orders"
      /\ \A t \in Sessions \ {s} : step'[t] = step[t]
  BY <1>1, <1>2, GotoFacts DEF Steps
<1>5. /\ cache' \in [Sessions -> Cache]
      /\ \A t \in Sessions \ {s} : cache'[t] = cache[t]
      /\ cache'[s] = [cache[s] EXCEPT !.onHand = [cache[s].onHand EXCEPT ![p] = total]]
  <2>1. /\ cache \in [Sessions -> Cache] /\ total \in Nat /\ p \in Products
        /\ cache' = [cache EXCEPT ![s].onHand[p] = total]
    BY <1>1, <1>2, CacheFields DEF SessionTypes
  <2> HIDE DEF p, total
  <2>2. cache'[s] = [cache[s] EXCEPT !.onHand = [cache[s].onHand EXCEPT ![p] = total]]
    BY <2>1 DEF Cache
  <2>3. cache'[s] \in Cache
    <3> DEFINE r1 == [cache[s].onHand EXCEPT ![p] = total]
    <3>1. r1 \in [Products -> Nat] /\ cache[s] \in Cache
      BY <2>1 DEF Cache
    <3>2. cache'[s] = [cache[s] EXCEPT !.onHand = r1]
      BY <2>2
    <3> HIDE DEF r1
    <3> QED
      BY <3>1, <3>2 DEF Cache
  <2>4. \A t \in Sessions \ {s} : cache'[t] = cache[t]
    BY <2>1
  <2> QED
    BY <2>1, <2>2, <2>3, <2>4
<1>6. /\ cache'[s].queue = cache[s].queue /\ cache'[s].rows = cache[s].rows
      /\ cache'[s].looked = cache[s].looked /\ cache'[s].new = cache[s].new
      /\ cache'[s].reserved = cache[s].reserved
      /\ cache'[s].reservation = cache[s].reservation
      /\ cache'[s].served = cache[s].served
      /\ \A q \in Products : cache'[s].onHand[q] = IF q = p THEN total ELSE cache[s].onHand[q]
  <2>1. cache[s] \in Cache
    BY SessionFacts
  <2> QED
    BY <1>5, <2>1 DEF Cache
<1>7. SessionTypes'
  BY <1>1, <1>2, <1>3, <1>4, <1>5 DEF SessionTypes, TypeOK, vars
<1>8. LocalTo(s)
  BY <1>2, <1>3, <1>4, <1>5 DEF LocalTo
<1> HIDE DEF p, total
<1>9. job'[s] = job[s] /\ UNCHANGED vars
  BY <1>2
<1>10. JobInv(s)'
  BY <1>1, <1>3, <1>4, <1>9 DEF JobInv, NoJob, p
<1>11. StockInv(s)'
  <2>1. cache[s].looked = {} /\ total >= cache[s].onHand[p]
    BY <1>1, CacheFields DEF QueueInv, p, total
  <2>2. \A q \in Products : cache[s].reserved[q] <= cache'[s].onHand[q]
    BY <1>1, <1>6, <2>1, CacheFields DEF StockInv, Automatic, total
  <2>3. \A l \in cache[s].rows : l[2] \in Products
    BY <1>1, CacheFields
  <2>4. \A l \in cache[s].rows :
          /\ StockRow(l[2]) \in holds'[s]
          /\ cache[s].reserved[l[2]] <= StockNow(s, l[2])'
    BY <1>1, <1>3, <1>6, <1>9, <2>2, <2>3 DEF StockInv, StockNow, p, vars
  <2> QED
    BY <1>1, <1>2, <1>4, <1>6, <1>9, <2>2, <2>4 DEF StockInv, Automatic, p, total, vars
<1>12. PlanInv(s)'
  BY <1>1, <1>3, <1>6, <1>9 DEF PlanInv, Automatic, StatusIn, PartialIn, Decides, Planned, vars
<1>13. MarkInv(s)'
  BY <1>4 DEF MarkInv
<1>14. QueueInv(s)'
  BY <1>1, <1>3, <1>4, <1>6, <1>9 DEF QueueInv, Decides, Automatic, vars
<1> QED
  BY <1>7, <1>8, <1>10, <1>11, <1>12, <1>13, <1>14, LocalStep DEF SessionInv

-----------------------------------------------------------------------------
\* One of the three selects of the automation, which fills the cache with c.
LEMMA SelectStep ==
  ASSUME SessionsInv, NEW s \in Sessions, NEW label \in {"stock", "reservations", "allocate"},
         step[s] \in {"orders", "stock", "reservations"}, Goto(s, label),
         UNCHANGED <<vars, job, holds, alone>>,
         NEW c \in Cache,
         cache' \in [Sessions -> Cache], cache'[s] = c,
         \A t \in Sessions \ {s} : cache'[t] = cache[t],
         c.rows = cache[s].rows, c.looked = cache[s].looked, c.new = cache[s].new,
         \A o \in c.queue : Decides(s, o) \/ status[o] # "pending_approval",
         \A o \in Orders, p \in Products : c.reservation[o][p] <= line[o][p],
         \A p \in Products : c.reserved[p] <= c.onHand[p],
         job[s].op = "stock" => c.onHand[job[s].product] = cache[s].onHand[job[s].product],
         \A l \in c.rows : c.reserved[l[2]] <= StockNow(s, l[2])
  PROVE  SessionsInv'
<1>1. /\ SessionTypes /\ TypeOK /\ JobInv(s) /\ StockInv(s) /\ PlanInv(s) /\ QueueInv(s)
      /\ Automatic(s) /\ job[s].op = "stock" => job[s].product \in Products
  BY SessionFacts, StepJobs
<1>2. /\ step' \in [Sessions -> Steps] /\ step'[s] = label
      /\ \A t \in Sessions \ {s} : step'[t] = step[t]
  BY <1>1, GotoFacts DEF Steps
<1>3. SessionTypes'
  BY <1>1, <1>2 DEF SessionTypes, TypeOK, vars
<1>4. LocalTo(s)
  BY <1>2 DEF LocalTo
<1>5. c.looked = {} /\ job' = job /\ holds' = holds /\ UNCHANGED vars
  BY <1>1 DEF QueueInv
<1>6. JobInv(s)'
  BY <1>1, <1>2, <1>5 DEF JobInv, NoJob, Automatic, vars
<1>7. StockInv(s)'
  <2>1. \A l \in c.rows : l[2] \in Products
    BY <1>1, CacheFields
  <2>2. \A l \in c.rows : StockNow(s, l[2])' = StockNow(s, l[2])
    BY <1>1, <1>5, <2>1 DEF StockNow, vars
  <2> QED
    BY <1>1, <1>2, <1>5, <2>2 DEF StockInv, Automatic, vars
<1>8. PlanInv(s)'
  BY <1>1, <1>5 DEF PlanInv, Automatic, StatusIn, PartialIn, Decides, Planned, vars
<1>9. MarkInv(s)'
  BY <1>2 DEF MarkInv
<1>10. QueueInv(s)'
  BY <1>1, <1>2, <1>5 DEF QueueInv, Decides, Automatic, vars
<1> QED
  BY <1>3, <1>4, <1>6, <1>7, <1>8, <1>9, <1>10, LocalStep DEF SessionInv

\* allocate_approved_orders selects the approved orders.
LEMMA OrdersSelected ==
  ASSUME SessionsInv, NEW s \in Sessions, SelectOrders(s)
  PROVE  SessionsInv'
<1> DEFINE found == {o \in Orders : StatusIn(s)[o] = "approved"}
           c == [cache[s] EXCEPT !.queue = found]
<1>1. /\ SessionTypes /\ StockInv(s) /\ cache[s] \in Cache /\ step[s] = "orders" /\ Automatic(s)
  BY SessionFacts, StepJobs DEF SelectOrders
<1>2. /\ cache' = [cache EXCEPT ![s].queue = found] /\ Goto(s, "stock")
      /\ UNCHANGED <<vars, job, holds, alone>>
  BY DEF SelectOrders
<1>3. \A o \in found : Decides(s, o) \/ status[o] # "pending_approval"
  BY DEF StatusIn
<1>4. found \in SUBSET Orders
  OBVIOUS
<1> HIDE DEF found
<1>5. /\ c \in Cache /\ c.queue = found /\ c.rows = cache[s].rows
      /\ c.looked = cache[s].looked /\ c.new = cache[s].new
      /\ c.reservation = cache[s].reservation
      /\ c.reserved = cache[s].reserved /\ c.onHand = cache[s].onHand
  BY <1>1, <1>4 DEF Cache
<1>6. cache' = [cache EXCEPT ![s] = c]
  BY <1>1, <1>2 DEF SessionTypes
<1> HIDE DEF c
<1>7. /\ cache' \in [Sessions -> Cache] /\ cache'[s] = c
      /\ \A t \in Sessions \ {s} : cache'[t] = cache[t]
  BY <1>1, <1>5, <1>6 DEF SessionTypes
<1> QED
  BY <1>1, <1>2, <1>3, <1>5, <1>7, SelectStep DEF StockInv

\* It selects the stock rows, but keeps the one that a receipt has written to:
\* what it has found fits into the stock as it is now.
LEMMA StockSelected ==
  ASSUME SessionsInv, NEW s \in Sessions, SelectStock(s)
  PROVE  SessionsInv'
<1> DEFINE Own(p) == job[s].op = "stock" /\ job[s].product = p
           stock == [p \in Products |-> IF Own(p) THEN cache[s].onHand[p] ELSE onHand[p]]
           taken == [p \in Products |-> IF Own(p) THEN cache[s].reserved[p] ELSE reserved[p]]
           c == [cache[s] EXCEPT !.onHand = stock, !.reserved = taken]
<1>1. /\ SessionTypes /\ TypeOK /\ StockInv(s) /\ QueueInv(s) /\ cache[s] \in Cache
      /\ step[s] = "stock" /\ Automatic(s) /\ CountersFit
      /\ job[s].op = "stock" => job[s].product \in Products
  BY SessionFacts, StepJobs DEF SelectStock, SessionsInv
<1>2. /\ cache' = [cache EXCEPT ![s].onHand = stock, ![s].reserved = taken]
      /\ Goto(s, "reservations") /\ UNCHANGED <<vars, job, holds, alone>>
  <2>1. cache' = [cache EXCEPT
                    ![s].onHand   = [p \in Products |-> IF Own(p) THEN @[p] ELSE onHand[p]],
                    ![s].reserved = [p \in Products |-> IF Own(p) THEN @[p] ELSE reserved[p]]]
    BY DEF SelectStock
  <2> QED
    BY <1>1, <2>1 DEF SelectStock, SessionTypes, Cache
<1>3. /\ stock \in [Products -> Nat] /\ taken \in [Products -> Nat]
      /\ \A p \in Products : taken[p] <= stock[p]
      /\ job[s].op = "stock" => stock[job[s].product] = cache[s].onHand[job[s].product]
      /\ \A p \in Products : StockNow(s, p) = stock[p]
  BY <1>1, CacheFields DEF StockInv, TypeOK, CountersFit, StockNow
<1> HIDE DEF stock, taken
<1>4. /\ c \in Cache /\ c.queue = cache[s].queue /\ c.rows = cache[s].rows
      /\ c.looked = cache[s].looked /\ c.new = cache[s].new
      /\ c.reservation = cache[s].reservation
      /\ c.reserved = taken /\ c.onHand = stock
  BY <1>1, <1>3 DEF Cache
<1>5. cache' = [cache EXCEPT ![s] = c]
  BY <1>1, <1>2 DEF SessionTypes, Cache
<1>6. \A l \in c.rows : l[2] \in Products
  BY <1>1, <1>4, CacheFields
<1> HIDE DEF c
<1>7. /\ cache' \in [Sessions -> Cache] /\ cache'[s] = c
      /\ \A t \in Sessions \ {s} : cache'[t] = cache[t]
  BY <1>1, <1>4, <1>5 DEF SessionTypes
<1>8. /\ \A l \in c.rows : c.reserved[l[2]] <= StockNow(s, l[2])
      /\ \A p \in Products : c.reserved[p] <= c.onHand[p]
      /\ job[s].op = "stock" => c.onHand[job[s].product] = cache[s].onHand[job[s].product]
      /\ \A o \in Orders, p \in Products : c.reservation[o][p] <= line[o][p]
      /\ \A o \in c.queue : Decides(s, o) \/ status[o] # "pending_approval"
  BY <1>1, <1>3, <1>4, <1>6 DEF StockInv, QueueInv
<1> QED
  BY <1>1, <1>2, <1>4, <1>7, <1>8, SelectStep

\* It selects the reservations: none exceeds its line.
LEMMA ReservationsSelected ==
  ASSUME SessionsInv, NEW s \in Sessions, SelectReservations(s)
  PROVE  SessionsInv'
<1> DEFINE c == [cache[s] EXCEPT !.reservation = reservation]
<1>1. /\ SessionTypes /\ TypeOK /\ StockInv(s) /\ QueueInv(s) /\ cache[s] \in Cache
      /\ step[s] = "reservations" /\ Automatic(s)
  BY SessionFacts, StepJobs DEF SelectReservations
<1>2. /\ cache' = [cache EXCEPT ![s].reservation = reservation] /\ Goto(s, "allocate")
      /\ UNCHANGED <<vars, job, holds, alone>>
  BY DEF SelectReservations
<1>3. \A o \in Orders, p \in Products : reservation[o][p] <= line[o][p]
  BY DEF SessionsInv, OrderInv
<1>4. /\ c \in Cache /\ c.queue = cache[s].queue /\ c.rows = cache[s].rows
      /\ c.looked = cache[s].looked /\ c.new = cache[s].new
      /\ c.reservation = reservation
      /\ c.reserved = cache[s].reserved /\ c.onHand = cache[s].onHand
  BY <1>1 DEF Cache, TypeOK
<1>5. cache' = [cache EXCEPT ![s] = c]
  BY <1>1, <1>2 DEF SessionTypes
<1> HIDE DEF c
<1>6. /\ cache' \in [Sessions -> Cache] /\ cache'[s] = c
      /\ \A t \in Sessions \ {s} : cache'[t] = cache[t]
  BY <1>1, <1>4, <1>5 DEF SessionTypes
<1> QED
  BY <1>1, <1>2, <1>3, <1>4, <1>6, SelectStep DEF StockInv, QueueInv

-----------------------------------------------------------------------------
\* What the decision of s, if it has one, makes of the orders.
LEMMA SeenTypes ==
  ASSUME SessionsInv, NEW s \in Sessions, NEW o \in Orders
  PROVE  ApprovedIn(s)[o] \in Nat /\ PartialIn(s)[o] \in BOOLEAN
<1>1. job[s].op = "approve" => job[s].partial \in BOOLEAN /\ job[s].at \in Nat
  BY StepJobs
<1> QED
  BY <1>1, SessionFacts DEF ApprovedIn, PartialIn, Decides, TypeOK

\* What a line takes is a quantity, within the line and the stock.
LEMMA TakenFacts ==
  ASSUME SessionsInv, NEW s \in Sessions, Automatic(s), NEW o \in Orders, NEW p \in Products,
         <<o, p>> \in LinesLeft(s)
  PROVE  /\ TakenBy(s, o, p) \in Nat
         /\ cache[s].reservation[o][p] + TakenBy(s, o, p) <= line[o][p]
         /\ cache[s].reserved[p] + TakenBy(s, o, p) <= cache[s].onHand[p]
<1>1. /\ cache[s].reservation[o][p] \in Nat /\ line[o][p] \in Nat
      /\ cache[s].reserved[p] \in Nat /\ cache[s].onHand[p] \in Nat
      /\ cache[s].reservation[o][p] < line[o][p]
      /\ cache[s].reserved[p] <= cache[s].onHand[p]
  BY SessionFacts, CacheFields DEF LinesLeft, StockInv, TypeOK
<1> QED
  BY <1>1 DEF TakenBy, AtMost

\* The loops write the line <<o, p>>, or pass it.
LEMMA LineAllocated ==
  ASSUME SessionsInv, NEW s \in Sessions, NEW o \in Orders, NEW p \in Products,
         AllocateLine(s, o, p)
  PROVE  SessionsInv'
<1> DEFINE taken == TakenBy(s, o, p)
           l == <<o, p>>
           passed == [cache[s] EXCEPT !.served = cache[s].served \cup {l}]
           wrote == [passed EXCEPT
                       !.rows = cache[s].rows \cup {l},
                       !.reserved = [cache[s].reserved EXCEPT ![p] = @ + taken],
                       !.reservation = [cache[s].reservation EXCEPT
                                          ![o] = [cache[s].reservation[o] EXCEPT ![p] = @ + taken]]]
           c == IF taken = 0 THEN passed ELSE wrote
<1>1. /\ SessionTypes /\ TypeOK /\ JobInv(s) /\ StockInv(s) /\ PlanInv(s) /\ QueueInv(s)
      /\ cache[s] \in Cache /\ step[s] = "allocate" /\ Automatic(s)
      /\ job[s].op = "stock" => job[s].product \in Products
  BY SessionFacts, StepJobs DEF AllocateLine
<1>2. /\ l \in LinesLeft(s) /\ Lock(s, {StockRow(p)})
      /\ taken = 0 => cache' = [cache EXCEPT ![s].served = @ \cup {l}]
      /\ taken # 0 =>
           /\ cache[s].reserved[p] + taken <= StockNow(s, p)
           /\ cache' = [cache EXCEPT ![s].served = @ \cup {l},
                                     ![s].rows = @ \cup {l},
                                     ![s].reserved[p] = @ + taken,
                                     ![s].reservation[o][p] = @ + taken]
      /\ UNCHANGED <<vars, step, job, alone>>
  BY DEF AllocateLine
<1>3. /\ taken \in Nat
      /\ cache[s].reservation[o][p] + taken <= line[o][p]
      /\ cache[s].reserved[p] + taken <= cache[s].onHand[p]
  BY <1>1, <1>2, TakenFacts
<1>4. /\ holds' \in [Sessions -> SUBSET Rows]
      /\ holds'[s] = holds[s] \cup {StockRow(p)}
      /\ \A t \in Sessions \ {s} : holds'[t] = holds[t]
      /\ \A row \in {StockRow(p)} : Free(s, row)
  <2>1. {StockRow(p)} \in SUBSET Rows
    BY DEF Rows
  <2> QED
    BY <1>1, <1>2, <2>1, LockFacts
<1> HIDE DEF taken
<1>5. cache' = [cache EXCEPT ![s] = c]
  <2>1. CASE taken = 0
    BY <1>1, <1>2, <2>1 DEF SessionTypes, Cache
  <2>2. CASE taken # 0
    BY <1>1, <1>2, <2>2 DEF SessionTypes, Cache
  <2> QED
    BY <2>1, <2>2
<1>6. passed \in Cache /\ wrote \in Cache
  <2>1. passed \in Cache
    BY <1>1 DEF Cache
  <2> DEFINE r1 == [cache[s].reserved EXCEPT ![p] = @ + taken]
             r2 == [cache[s].reservation EXCEPT
                      ![o] = [cache[s].reservation[o] EXCEPT ![p] = @ + taken]]
             r3 == cache[s].rows \cup {l}
  <2>2. /\ r1 \in [Products -> Nat] /\ r2 \in [Orders -> [Products -> Nat]]
        /\ r3 \in SUBSET (Orders \X Products)
    BY <1>1, <1>3 DEF Cache
  <2> HIDE DEF r1, r2, r3
  <2>3. [passed EXCEPT !.rows = r3, !.reserved = r1, !.reservation = r2] \in Cache
    BY <2>1, <2>2 DEF Cache
  <2> QED
    BY <2>1, <2>3 DEF r1, r2, r3
<1>7. /\ c.queue = cache[s].queue /\ c.looked = cache[s].looked /\ c.new = cache[s].new
      /\ c.onHand = cache[s].onHand
      /\ c.rows = IF taken = 0 THEN cache[s].rows ELSE cache[s].rows \cup {l}
      /\ \A q \in Products : c.reserved[q] = IF q = p THEN cache[s].reserved[q] + taken
                                                       ELSE cache[s].reserved[q]
      /\ \A a \in Orders, q \in Products :
           c.reservation[a][q] = IF a = o /\ q = p THEN cache[s].reservation[a][q] + taken
                                                   ELSE cache[s].reservation[a][q]
  <2>1. /\ \A q \in Products : cache[s].reserved[q] \in Nat
        /\ \A a \in Orders, q \in Products : cache[s].reservation[a][q] \in Nat
    BY <1>1, CacheFields
  <2>2. CASE taken = 0
    BY <1>1, <2>1, <2>2 DEF Cache
  <2>3. CASE taken # 0
    BY <1>1, <2>1, <2>3 DEF Cache
  <2> QED
    BY <2>2, <2>3
<1>8. c \in Cache
  BY <1>6
<1> HIDE DEF passed, wrote, c
<1>9. /\ cache' \in [Sessions -> Cache] /\ cache'[s] = c
      /\ \A t \in Sessions \ {s} : cache'[t] = cache[t]
  BY <1>1, <1>5, <1>8 DEF SessionTypes
<1>10. SessionTypes'
  BY <1>1, <1>2, <1>4, <1>9 DEF SessionTypes, TypeOK, vars
<1>11. LocalTo(s)
  BY <1>2, <1>4, <1>9 DEF LocalTo
<1>12. /\ step' = step /\ job' = job /\ UNCHANGED vars /\ cache[s].looked = {}
  BY <1>1, <1>2 DEF QueueInv
<1>13. JobInv(s)'
  BY <1>1, <1>4, <1>12 DEF JobInv, NoJob, Automatic, vars
<1>14. StockInv(s)'
  <2>1. \A k \in cache[s].rows : k[2] \in Products
    BY <1>1, CacheFields
  <2>2. \A q \in Products : StockNow(s, q)' = StockNow(s, q)
    BY <1>1, <1>7, <1>9, <1>12 DEF StockNow, vars
  <2>3. \A k \in c.rows : /\ StockRow(k[2]) \in holds'[s]
                          /\ c.reserved[k[2]] <= StockNow(s, k[2])
    <3>1. \A k \in cache[s].rows : /\ StockRow(k[2]) \in holds[s]
                                   /\ cache[s].reserved[k[2]] <= StockNow(s, k[2])
      BY <1>1 DEF StockInv
    <3>2. CASE taken = 0
      BY <1>4, <1>7, <2>1, <3>1, <3>2, <1>1, CacheFields
    <3>3. CASE taken # 0
      BY <1>2, <1>4, <1>7, <2>1, <3>1, <3>3
    <3> QED
      BY <3>2, <3>3
  <2>4. \A k \in c.rows : k[2] \in Products
    BY <1>7, <2>1
  <2> QED
    BY <1>1, <1>3, <1>7, <1>9, <1>12, <2>2, <2>3, <2>4 DEF StockInv, Automatic, vars
<1>15. PlanInv(s)'
  BY <1>1, <1>4, <1>7, <1>9, <1>12
     DEF PlanInv, Automatic, StatusIn, PartialIn, Decides, Planned, vars
<1>16. MarkInv(s)'
  BY <1>1, <1>12 DEF MarkInv
<1>17. QueueInv(s)'
  BY <1>1, <1>4, <1>7, <1>9, <1>12 DEF QueueInv, Decides, Automatic, vars
<1> QED
  BY <1>10, <1>11, <1>13, <1>14, <1>15, <1>16, <1>17, LocalStep DEF SessionInv

-----------------------------------------------------------------------------
\* The task that a session cuts for an order stays within its lines.
LEMMA UnplannedFacts ==
  ASSUME SessionsInv, NEW s \in Sessions, NEW o \in Orders
  PROVE  /\ UnplannedBy(s, o) \in [Products -> Nat]
         /\ \A p \in Products :
              /\ Planned(o, p) \in Nat /\ line[o][p] \in Nat
              /\ Planned(o, p) <= line[o][p]
              /\ Planned(o, p) + UnplannedBy(s, o)[p] <= line[o][p]
<1>1. \A p \in Products : Planned(o, p) \in Nat /\ line[o][p] \in Nat
  BY SessionFacts, PlannedType DEF TypeOK
<1>2. \A p \in Products : ReservedNow(s, o)[p] \in Nat /\ ReservedNow(s, o)[p] <= line[o][p]
  <2>1. /\ \A p \in Products : reservation[o][p] \in Nat /\ reservation[o][p] <= line[o][p]
        /\ \A p \in Products : cache[s].reservation[o][p] \in Nat
        /\ \A p \in Products : cache[s].reservation[o][p] <= line[o][p]
    BY SessionFacts, CacheFields DEF TypeOK, SessionsInv, OrderInv, StockInv
  <2> QED
    BY <2>1 DEF ReservedNow
<1>3. \A p \in Products : Planned(o, p) <= line[o][p]
  BY DEF SessionsInv, OrderInv
<1> QED
  BY <1>1, <1>2, <1>3 DEF UnplannedBy, Beyond

\* create_task_for_allocation of one order.
LEMMA TaskPlanned ==
  ASSUME SessionsInv, NEW s \in Sessions, NEW o \in Orders, PlanTask(s, o)
  PROVE  SessionsInv'
<1> DEFINE items == UnplannedBy(s, o)
           c == [cache[s] EXCEPT !.looked = cache[s].looked \cup {o},
                                 !.new = [cache[s].new EXCEPT ![o] = items]]
<1>1. /\ SessionTypes /\ TypeOK /\ JobInv(s) /\ StockInv(s) /\ PlanInv(s) /\ QueueInv(s)
      /\ cache[s] \in Cache /\ step[s] = "allocate" /\ Automatic(s)
      /\ job[s].op = "stock" => job[s].product \in Products
  BY SessionFacts, StepJobs DEF PlanTask
<1>2. /\ LinesLeft(s) = {} /\ o \in OrdersLeft(s)
      /\ \A a \in OrdersLeft(s) : ~Before(ApprovedIn(s), a, o)
      /\ Lock(s, {OrderRow(o)})
      /\ items # Nothing => TaskAllowed(s, o)
      /\ cache' = [cache EXCEPT ![s].looked = @ \cup {o}, ![s].new[o] = items]
      /\ UNCHANGED <<vars, step, job, alone>>
  BY DEF PlanTask
<1>3. /\ items \in [Products -> Nat]
      /\ \A p \in Products :
           /\ Planned(o, p) \in Nat /\ line[o][p] \in Nat
           /\ Planned(o, p) <= line[o][p]
           /\ Planned(o, p) + items[p] <= line[o][p]
  BY UnplannedFacts
<1>4. items # Nothing =>
        /\ StatusIn(s)[o] = "approved"
        /\ ~PartialIn(s)[o] => \A p \in Products : Planned(o, p) + items[p] = line[o][p]
  BY <1>2, <1>3 DEF TaskAllowed
<1>5. /\ holds' \in [Sessions -> SUBSET Rows]
      /\ holds'[s] = holds[s] \cup {OrderRow(o)}
      /\ \A t \in Sessions \ {s} : holds'[t] = holds[t]
      /\ \A row \in {OrderRow(o)} : Free(s, row)
  <2>1. {OrderRow(o)} \in SUBSET Rows
    BY DEF Rows
  <2> QED
    BY <1>1, <1>2, <2>1, LockFacts
<1> HIDE DEF items
<1>6. cache' = [cache EXCEPT ![s] = c]
  BY <1>1, <1>2 DEF SessionTypes, Cache
<1>7. /\ c \in Cache
      /\ c.queue = cache[s].queue /\ c.looked = cache[s].looked \cup {o}
      /\ c.onHand = cache[s].onHand /\ c.rows = cache[s].rows
      /\ c.reserved = cache[s].reserved /\ c.reservation = cache[s].reservation
      /\ c.served = cache[s].served
      /\ \A a \in Orders : c.new[a] = IF a = o THEN items ELSE cache[s].new[a]
  BY <1>1, <1>3 DEF Cache
<1> HIDE DEF c
<1>8. /\ cache' \in [Sessions -> Cache] /\ cache'[s] = c
      /\ \A t \in Sessions \ {s} : cache'[t] = cache[t]
  BY <1>1, <1>6, <1>7 DEF SessionTypes
<1>9. SessionTypes'
  BY <1>1, <1>2, <1>5, <1>8 DEF SessionTypes, TypeOK, vars
<1>10. LocalTo(s)
  BY <1>2, <1>5, <1>8 DEF LocalTo
<1>11. /\ step' = step /\ job' = job /\ UNCHANGED vars
  BY <1>2
<1>12. JobInv(s)'
  BY <1>1, <1>5, <1>11 DEF JobInv, NoJob, Automatic, vars
<1>13. StockInv(s)'
  BY <1>1, <1>5, <1>7, <1>8, <1>11, CacheFields DEF StockInv, StockNow, Automatic, vars
<1>14. PlanInv(s)'
  <2>1. /\ StatusIn(s)' = StatusIn(s) /\ PartialIn(s)' = PartialIn(s)
        /\ \A a \in Orders, p \in Products : Planned(a, p)' = Planned(a, p)
        /\ line' = line
    BY <1>11 DEF StatusIn, PartialIn, Decides, Planned, vars
  <2> QED
    BY <1>1, <1>3, <1>4, <1>5, <1>7, <1>8, <1>11, <2>1 DEF PlanInv, Automatic
<1>15. MarkInv(s)'
  BY <1>1, <1>11 DEF MarkInv
<1>16. QueueInv(s)'
  <2>1. /\ PartialIn(s)' = PartialIn(s) /\ ApprovedIn(s)' = ApprovedIn(s)
        /\ \A a : Decides(s, a)' <=> Decides(s, a)
        /\ line' = line /\ status' = status
    BY <1>11 DEF PartialIn, ApprovedIn, Decides, vars
  <2>2. LinesLeft(s)' = {}
    BY <1>2, <1>7, <1>8, <2>1 DEF LinesLeft
  <2>3. OrdersLeft(s)' = OrdersLeft(s) \ {o} /\ o \in cache[s].queue
    BY <1>2, <1>7, <1>8, <2>1 DEF OrdersLeft
  <2>4. \A b \in OrdersLeft(s) \ {o} : Before(ApprovedIn(s), o, b)
    <3>1. OrdersLeft(s) \subseteq Orders /\ Orders \in SUBSET Nat
      BY <1>1, CacheFields, OrdersAssumption DEF OrdersLeft
    <3>2. \A a \in Orders : ApprovedIn(s)[a] \in Nat
      BY SeenTypes
    <3> QED
      BY <1>2, <3>1, <3>2, BeforeOrder
  <2>5. \A a \in c.looked, b \in OrdersLeft(s)' : Before(ApprovedIn(s), a, b)
    BY <1>1, <1>7, <2>3, <2>4 DEF QueueInv
  <2>6. \A a, b : Before(ApprovedIn(s)', a, b) <=> Before(ApprovedIn(s), a, b)
    BY <2>1
  <2> QED
    BY <1>1, <1>5, <1>7, <1>8, <1>11, <2>1, <2>2, <2>3, <2>5, <2>6 DEF QueueInv, Automatic
<1> QED
  BY <1>9, <1>10, <1>12, <1>13, <1>14, <1>15, <1>16, LocalStep DEF SessionInv

-----------------------------------------------------------------------------
\* A worker's last move of a task.
LEMMA AdvanceBegins ==
  ASSUME SessionsInv, NEW s \in Sessions, NEW o \in Orders, NEW i \in DOMAIN tasks[o],
         BeginLastAdvance(s, o, i)
  PROVE  SessionsInv'
<1> DEFINE j == Advance(o, i)
<1>1. /\ i \in Nat /\ j \in Jobs /\ j.op = "advance" /\ j.order = o /\ j.task = i
      /\ {TaskRow(o, i)} \in SUBSET Rows /\ "siblings" \in Steps
  <2>1. tasks[o] \in Seq(Task)
    BY SessionFacts DEF TypeOK
  <2>2. i \in Nat
    BY <2>1
  <2> QED
    BY <2>2 DEF Advance, Jobs, Rows, Steps
<1> HIDE DEF j
<1>2. Begin(s, j, "siblings", {TaskRow(o, i)}) /\ UNCHANGED <<vars, cache>>
      /\ tasks[o][i].status = "packing"
  BY DEF BeginLastAdvance, j
<1>3. /\ step' \in [Sessions -> Steps] /\ job' \in [Sessions -> Jobs]
      /\ holds' \in [Sessions -> SUBSET Rows] /\ alone' \in SUBSET Sessions
      /\ step'[s] = "siblings" /\ job'[s] = j /\ holds'[s] = {TaskRow(o, i)}
      /\ \A row \in {TaskRow(o, i)} : Free(s, row)
      /\ \A t \in Sessions \ {s} :
           step'[t] = step[t] /\ job'[t] = job[t] /\ holds'[t] = holds[t]
      /\ cache[s] = NoCache
  BY <1>1, <1>2, BeginFacts
<1>4. SessionTypes'
  BY <1>2, <1>3, SessionFacts DEF SessionTypes, TypeOK, vars
<1>5. LocalTo(s)
  BY <1>2, <1>3 DEF LocalTo
<1>6. cache'[s] = NoCache /\ tasks' = tasks
  BY <1>2, <1>3 DEF vars
<1>7. JobInv(s)'
  BY <1>1, <1>2, <1>3, <1>6 DEF JobInv, NoJob
<1>8. StockInv(s)'
  BY <1>1, <1>3, <1>4, <1>6, EmptyCache DEF StockInv, Automatic, SessionTypes, TypeOK
<1>9. PlanInv(s)' /\ MarkInv(s)'
  BY <1>3, <1>6, EmptyCache DEF PlanInv, MarkInv
<1>10. QueueInv(s)'
  BY <1>1, <1>3, <1>6, EmptyCache DEF QueueInv, Decides, Automatic
<1> QED
  BY <1>4, <1>5, <1>7, <1>8, <1>9, <1>10, LocalStep DEF SessionInv

\* A worker reads the other tasks of the order.  That all of them are ready stays
\* true, for ready tasks no longer change but by a cancellation.
LEMMA SiblingsRead ==
  ASSUME SessionsInv, NEW s \in Sessions, ReadSiblings(s)
  PROVE  SessionsInv'
<1>1. /\ SessionTypes /\ TypeOK /\ JobInv(s) /\ StockInv(s) /\ PlanInv(s) /\ QueueInv(s)
      /\ step[s] = "siblings" /\ job[s].op = "advance"
  BY SessionFacts, StepJobs DEF ReadSiblings
<1>2. PICK label \in {"mark", "commit"} :
        /\ Goto(s, label)
        /\ label = "mark" => CompleteIn(s, job[s].order)
  BY DEF ReadSiblings
<1>3. UNCHANGED <<vars, job, holds, cache, alone>>
  BY DEF ReadSiblings
<1>4. /\ step' \in [Sessions -> Steps] /\ step'[s] = label
      /\ \A t \in Sessions \ {s} : step'[t] = step[t]
  BY <1>1, <1>2, GotoFacts DEF Steps
<1>5. SessionTypes'
  BY <1>1, <1>3, <1>4 DEF SessionTypes, TypeOK, vars
<1>6. LocalTo(s)
  BY <1>3, <1>4 DEF LocalTo
<1>7. JobInv(s)'
  BY <1>1, <1>3, <1>4 DEF JobInv, NoJob, vars
<1>8. StockInv(s)'
  BY <1>1, <1>3, <1>4 DEF StockInv, Automatic, StockNow, vars
<1>9. PlanInv(s)'
  BY <1>1, <1>3 DEF PlanInv, Automatic
<1>10. MarkInv(s)'
  <2>1. CompleteIn(s, job[s].order)' <=> CompleteIn(s, job[s].order)
    BY <1>3 DEF CompleteIn, TasksIn, vars
  <2> QED
    BY <1>2, <1>3, <1>4, <2>1 DEF MarkInv
<1>11. QueueInv(s)'
  BY <1>1, <1>3, <1>4 DEF QueueInv, Decides, Automatic, vars
<1> QED
  BY <1>5, <1>6, <1>7, <1>8, <1>9, <1>10, <1>11, LocalStep DEF SessionInv

-----------------------------------------------------------------------------
\* An approved cancellation begins.
LEMMA CancellationBegins ==
  ASSUME SessionsInv, NEW s \in Sessions, NEW o \in Orders, BeginCancellation(s, o)
  PROVE  SessionsInv'
<1> DEFINE j == Cancel(o)
           held == [cache[s].reservation EXCEPT ![o] = reservation[o]]
           c == [cache[s] EXCEPT !.reservation = held]
<1>1. /\ j \in Jobs /\ j.op = "cancel" /\ j.order = o
      /\ {OrderRow(o)} \in SUBSET Rows /\ "stop" \in Steps
  BY DEF Cancel, Jobs, Rows, Steps
<1> HIDE DEF j
<1>2. /\ Begin(s, j, "stop", {OrderRow(o)}) /\ UNCHANGED vars
      /\ status[o] \notin {"draft", "pending_approval", "rejected"}
      /\ cache' = [cache EXCEPT ![s].reservation[o] = reservation[o]]
  BY DEF BeginCancellation, j
<1>3. /\ step' \in [Sessions -> Steps] /\ job' \in [Sessions -> Jobs]
      /\ holds' \in [Sessions -> SUBSET Rows] /\ alone' \in SUBSET Sessions
      /\ step'[s] = "stop" /\ job'[s] = j /\ holds'[s] = {OrderRow(o)}
      /\ \A row \in {OrderRow(o)} : Free(s, row)
      /\ \A t \in Sessions \ {s} :
           step'[t] = step[t] /\ job'[t] = job[t] /\ holds'[t] = holds[t]
      /\ cache[s] = NoCache
  BY <1>1, <1>2, BeginFacts
<1>4. /\ cache[s] \in Cache /\ reservation[o] \in [Products -> Nat]
      /\ \A p \in Products : reservation[o][p] <= line[o][p]
      /\ SessionTypes /\ TypeOK
  BY SessionFacts DEF TypeOK, SessionsInv, OrderInv
<1>5. /\ c \in Cache /\ cache' = [cache EXCEPT ![s] = c]
  BY <1>2, <1>4 DEF SessionTypes, Cache
<1>6. /\ c.queue = {} /\ c.rows = {} /\ c.looked = {}
      /\ \A a \in Orders : c.new[a] = Nothing
      /\ \A a \in Orders, q \in Products : c.reservation[a][q] <= line[a][q]
  <2>1. c.reservation = held /\ c.queue = {} /\ c.rows = {} /\ c.looked = {}
        /\ c.new = NoCache.new
    BY <1>3, <1>4, EmptyCache DEF Cache
  <2>2. \A a \in Orders, q \in Products : held[a][q] <= line[a][q]
    BY <1>3, <1>4, EmptyCache DEF Cache, TypeOK
  <2> QED
    BY <2>1, <2>2, EmptyCache
<1> HIDE DEF c
<1>7. /\ cache' \in [Sessions -> Cache] /\ cache'[s] = c
      /\ \A t \in Sessions \ {s} : cache'[t] = cache[t]
  BY <1>4, <1>5 DEF SessionTypes
<1>8. SessionTypes'
  BY <1>2, <1>3, <1>4, <1>7 DEF SessionTypes, TypeOK, vars
<1>9. LocalTo(s)
  BY <1>2, <1>3, <1>7 DEF LocalTo
<1>10. status' = status /\ line' = line
  BY <1>2 DEF vars
<1>11. JobInv(s)'
  BY <1>1, <1>2, <1>3, <1>10 DEF JobInv, NoJob
<1>12. StockInv(s)'
  BY <1>1, <1>3, <1>6, <1>7, <1>10 DEF StockInv, Automatic
<1>13. PlanInv(s)' /\ MarkInv(s)'
  BY <1>3, <1>6, <1>7 DEF PlanInv, MarkInv
<1>14. QueueInv(s)'
  BY <1>1, <1>3, <1>6, <1>7 DEF QueueInv, Decides, Automatic
<1> QED
  BY <1>8, <1>9, <1>11, <1>12, <1>13, <1>14, LocalStep DEF SessionInv

\* What a cancellation does to its own cache changes nothing else it relies on.
LEMMA CancelStep ==
  ASSUME SessionsInv, NEW s \in Sessions, job[s].op = "cancel",
         NEW label \in {"counter", "release"}, Goto(s, label),
         UNCHANGED <<vars, job, alone>>,
         holds' \in [Sessions -> SUBSET Rows], holds[s] \subseteq holds'[s],
         \A t \in Sessions \ {s} : holds'[t] = holds[t],
         \A row \in holds'[s] : row \in holds[s] \/ Free(s, row),
         LiveTasks(job[s].order) \subseteq holds'[s],
         NEW c \in Cache, cache' \in [Sessions -> Cache], cache'[s] = c,
         \A t \in Sessions \ {s} : cache'[t] = cache[t],
         c.queue = cache[s].queue, c.looked = cache[s].looked, c.new = cache[s].new,
         \A o \in Orders, p \in Products : c.reservation[o][p] <= line[o][p],
         \A l \in c.rows : /\ StockRow(l[2]) \in holds'[s]
                           /\ c.reserved[l[2]] <= onHand[l[2]]
  PROVE  SessionsInv'
<1>1. /\ SessionTypes /\ TypeOK /\ JobInv(s) /\ PlanInv(s) /\ QueueInv(s)
      /\ job[s].order \in Orders
  BY SessionFacts, StepJobs
<1>2. /\ step' \in [Sessions -> Steps] /\ step'[s] = label
      /\ \A t \in Sessions \ {s} : step'[t] = step[t]
  BY <1>1, GotoFacts DEF Steps
<1>3. SessionTypes'
  BY <1>1, <1>2 DEF SessionTypes, TypeOK, vars
<1>4. LocalTo(s)
  BY <1>2 DEF LocalTo
<1>5. /\ job' = job /\ UNCHANGED vars /\ c.looked = {}
  BY <1>1 DEF QueueInv, JobInv
<1>6. JobInv(s)'
  BY <1>1, <1>2, <1>5 DEF JobInv, NoJob, LiveTasks, vars
<1>7. StockInv(s)'
  BY <1>5 DEF StockInv, Automatic, StockNow, vars
<1>8. PlanInv(s)'
  BY <1>1, <1>5 DEF PlanInv, Automatic
<1>9. MarkInv(s)'
  BY <1>2 DEF MarkInv
<1>10. QueueInv(s)'
  BY <1>1, <1>2, <1>5 DEF QueueInv, Decides, Automatic, vars
<1> QED
  BY <1>3, <1>4, <1>6, <1>7, <1>8, <1>9, <1>10, LocalStep DEF SessionInv

\* A cancellation locks the tasks that are not cancelled yet.
LEMMA TasksStopped ==
  ASSUME SessionsInv, NEW s \in Sessions, StopTasks(s)
  PROVE  SessionsInv'
<1>1. /\ SessionTypes /\ TypeOK /\ JobInv(s) /\ StockInv(s) /\ cache[s] \in Cache
      /\ step[s] = "stop" /\ job[s].op = "cancel" /\ job[s].order \in Orders
  BY SessionFacts, StepJobs DEF StopTasks
<1>2. /\ Lock(s, LiveTasks(job[s].order)) /\ Goto(s, "counter")
      /\ UNCHANGED <<vars, job, cache, alone>>
  BY DEF StopTasks
<1>3. LiveTasks(job[s].order) \in SUBSET Rows
  <2>1. tasks[job[s].order] \in Seq(Task)
    BY <1>1 DEF TypeOK
  <2> QED
    BY <1>1, <2>1 DEF LiveTasks, Rows
<1>4. /\ holds' \in [Sessions -> SUBSET Rows]
      /\ holds'[s] = holds[s] \cup LiveTasks(job[s].order)
      /\ \A t \in Sessions \ {s} : holds'[t] = holds[t]
      /\ \A row \in LiveTasks(job[s].order) : Free(s, row)
  BY <1>1, <1>2, <1>3, LockFacts
<1>5. \A l \in cache[s].rows : cache[s].reserved[l[2]] <= onHand[l[2]]
  BY <1>1, CacheFields DEF StockInv, StockNow
<1>6. \A l \in cache[s].rows : StockRow(l[2]) \in holds[s]
  BY <1>1 DEF StockInv
<1>7. \A o \in Orders, p \in Products : cache[s].reservation[o][p] <= line[o][p]
  BY <1>1 DEF StockInv
<1> QED
  BY <1>1, <1>2, <1>4, <1>5, <1>6, <1>7, CancelStep DEF SessionTypes

\* It loads the counter of the first line that it releases.
LEMMA CounterRead ==
  ASSUME SessionsInv, NEW s \in Sessions, NEW p \in Products, ReadCounter(s, p)
  PROVE  SessionsInv'
<1> DEFINE l == <<job[s].order, p>>
           c == [cache[s] EXCEPT !.reserved = [cache[s].reserved EXCEPT ![p] = reserved[p]],
                                 !.served = {l}]
<1>1. /\ SessionTypes /\ TypeOK /\ JobInv(s) /\ StockInv(s) /\ cache[s] \in Cache
      /\ step[s] = "counter" /\ job[s].op = "cancel" /\ job[s].order \in Orders
      /\ reserved[p] \in Nat /\ reserved[p] <= onHand[p]
  BY SessionFacts, StepJobs DEF ReadCounter, TypeOK, SessionsInv, CountersFit
<1>2. /\ Goto(s, "release") /\ UNCHANGED <<vars, job, holds, alone>>
      /\ cache' = [cache EXCEPT ![s].reserved[p] = reserved[p], ![s].served = {l}]
  BY DEF ReadCounter
<1>3. /\ c \in Cache /\ c.queue = cache[s].queue /\ c.looked = cache[s].looked
      /\ c.new = cache[s].new /\ c.rows = cache[s].rows
      /\ c.reservation = cache[s].reservation
      /\ \A q \in Products : c.reserved[q] = IF q = p THEN reserved[p] ELSE cache[s].reserved[q]
  <2> DEFINE r1 == [cache[s].reserved EXCEPT ![p] = reserved[p]]
             r2 == {l}
  <2>1. /\ r1 \in [Products -> Nat] /\ r2 \in SUBSET (Orders \X Products)
        /\ \A q \in Products : r1[q] = IF q = p THEN reserved[p] ELSE cache[s].reserved[q]
    BY <1>1 DEF Cache
  <2> HIDE DEF r1, r2
  <2>2. [cache[s] EXCEPT !.reserved = r1, !.served = r2] \in Cache
    BY <1>1, <2>1 DEF Cache
  <2>3. c = [cache[s] EXCEPT !.reserved = r1, !.served = r2]
    BY DEF r1, r2
  <2> QED
    BY <1>1, <2>1, <2>2, <2>3 DEF Cache
<1>4. cache' = [cache EXCEPT ![s] = c]
  BY <1>1, <1>2 DEF SessionTypes, Cache
<1> HIDE DEF c
<1>5. /\ cache' \in [Sessions -> Cache] /\ cache'[s] = c
      /\ \A t \in Sessions \ {s} : cache'[t] = cache[t]
  BY <1>1, <1>3, <1>4 DEF SessionTypes
<1>6. \A k \in c.rows : StockRow(k[2]) \in holds[s] /\ c.reserved[k[2]] <= onHand[k[2]]
  <2>1. \A k \in cache[s].rows : k[2] \in Products
    BY <1>1, CacheFields
  <2>2. \A k \in cache[s].rows : /\ StockRow(k[2]) \in holds[s]
                                 /\ cache[s].reserved[k[2]] <= onHand[k[2]]
    BY <1>1 DEF StockInv, StockNow
  <2> QED
    BY <1>1, <1>3, <2>1, <2>2
<1>7. \A a \in Orders, q \in Products : c.reservation[a][q] <= line[a][q]
  BY <1>1, <1>3 DEF StockInv
<1>8. LiveTasks(job[s].order) \subseteq holds[s]
  BY <1>1 DEF JobInv
<1> QED
  BY <1>1, <1>2, <1>3, <1>5, <1>6, <1>7, <1>8, CancelStep DEF SessionTypes

\* It releases one more line.
LEMMA LineReleased ==
  ASSUME SessionsInv, NEW s \in Sessions, NEW p \in Products, ReleaseLine(s, p)
  PROVE  SessionsInv'
<1> DEFINE o == job[s].order
           l == <<o, p>>
           left == cache[s].reserved[p] - cache[s].reservation[o][p]
           c == [cache[s] EXCEPT
                   !.reserved = [cache[s].reserved EXCEPT ![p] = left],
                   !.reservation = [cache[s].reservation EXCEPT
                                      ![o] = [cache[s].reservation[o] EXCEPT ![p] = 0]],
                   !.rows = cache[s].rows \cup {l}]
<1>1. /\ SessionTypes /\ TypeOK /\ JobInv(s) /\ StockInv(s) /\ cache[s] \in Cache
      /\ step[s] = "release" /\ job[s].op = "cancel" /\ o \in Orders
  BY SessionFacts, StepJobs DEF ReleaseLine
<1>2. /\ Lock(s, {StockRow(p)}) /\ Goto(s, "counter") /\ UNCHANGED <<vars, job, alone>>
      /\ cache[s].reserved[p] >= cache[s].reservation[o][p] /\ left <= onHand[p]
      /\ cache' = [cache EXCEPT ![s].reserved[p] = left,
                                ![s].reservation[o][p] = 0,
                                ![s].rows = @ \cup {l}]
  <2>1. cache' = [cache EXCEPT ![s].reserved[p] = @ - cache[s].reservation[o][p],
                               ![s].reservation[o][p] = 0,
                               ![s].rows = @ \cup {l}]
    BY DEF ReleaseLine
  <2>2. cache' = [cache EXCEPT ![s].reserved[p] = left,
                               ![s].reservation[o][p] = 0,
                               ![s].rows = @ \cup {l}]
    BY <1>1, <2>1 DEF SessionTypes, Cache
  <2> QED
    BY <2>2 DEF ReleaseLine
<1>3. left \in Nat
  <2>1. cache[s].reserved[p] \in Nat /\ cache[s].reservation[o][p] \in Nat
    BY <1>1, CacheFields
  <2>2. cache[s].reserved[p] >= cache[s].reservation[o][p]
    BY <1>2
  <2> QED
    BY <2>1, <2>2
<1>4. /\ holds' \in [Sessions -> SUBSET Rows]
      /\ holds'[s] = holds[s] \cup {StockRow(p)}
      /\ \A t \in Sessions \ {s} : holds'[t] = holds[t]
      /\ \A row \in {StockRow(p)} : Free(s, row)
  <2>1. {StockRow(p)} \in SUBSET Rows
    BY DEF Rows
  <2> QED
    BY <1>1, <1>2, <2>1, LockFacts
<1> HIDE DEF left, o
<1>5. cache' = [cache EXCEPT ![s] = c]
  BY <1>1, <1>2 DEF SessionTypes, Cache
<1>6. c \in Cache
  <2> DEFINE r1 == [cache[s].reserved EXCEPT ![p] = left]
             r2 == [cache[s].reservation EXCEPT
                      ![o] = [cache[s].reservation[o] EXCEPT ![p] = 0]]
             r3 == cache[s].rows \cup {l}
  <2>1. /\ r1 \in [Products -> Nat] /\ r2 \in [Orders -> [Products -> Nat]]
        /\ r3 \in SUBSET (Orders \X Products)
    BY <1>1, <1>3 DEF Cache
  <2> HIDE DEF r1, r2, r3
  <2>2. [cache[s] EXCEPT !.reserved = r1, !.reservation = r2, !.rows = r3] \in Cache
    BY <1>1, <2>1 DEF Cache
  <2> QED
    BY <2>2 DEF r1, r2, r3
<1>7. /\ c.queue = cache[s].queue /\ c.looked = cache[s].looked /\ c.new = cache[s].new
      /\ c.rows = cache[s].rows \cup {l}
      /\ \A q \in Products : c.reserved[q] = IF q = p THEN left ELSE cache[s].reserved[q]
      /\ \A a \in Orders, q \in Products :
           c.reservation[a][q] = IF a = o /\ q = p THEN 0 ELSE cache[s].reservation[a][q]
  BY <1>1 DEF Cache
<1> HIDE DEF c
<1>8. /\ cache' \in [Sessions -> Cache] /\ cache'[s] = c
      /\ \A t \in Sessions \ {s} : cache'[t] = cache[t]
  BY <1>1, <1>5, <1>6 DEF SessionTypes
<1>9. \A k \in c.rows : StockRow(k[2]) \in holds'[s] /\ c.reserved[k[2]] <= onHand[k[2]]
  <2>1. \A k \in cache[s].rows : k[2] \in Products
    BY <1>1, CacheFields
  <2>2. \A k \in cache[s].rows : /\ StockRow(k[2]) \in holds[s]
                                 /\ cache[s].reserved[k[2]] <= onHand[k[2]]
    BY <1>1 DEF StockInv, StockNow
  <2> QED
    BY <1>2, <1>4, <1>7, <2>1, <2>2
<1>10. \A a \in Orders, q \in Products : c.reservation[a][q] <= line[a][q]
  <2>1. \A a \in Orders, q \in Products :
          cache[s].reservation[a][q] <= line[a][q] /\ 0 <= line[a][q]
    BY <1>1 DEF StockInv, TypeOK
  <2> QED
    BY <1>7, <2>1
<1>11. LiveTasks(job[s].order) \subseteq holds'[s] /\ job[s].order = o
  BY <1>1, <1>4 DEF JobInv, o
<1>12. \A row \in holds'[s] : row \in holds[s] \/ Free(s, row)
  BY <1>4
<1> QED
  BY <1>1, <1>2, <1>4, <1>6, <1>7, <1>8, <1>9, <1>10, <1>11, <1>12, CancelStep

-----------------------------------------------------------------------------
\* The transaction of s has ended.
LEMMA EndFacts ==
  ASSUME SessionTypes, NEW s \in Sessions, End(s)
  PROVE  /\ step' \in [Sessions -> Steps] /\ job' \in [Sessions -> Jobs]
         /\ holds' \in [Sessions -> SUBSET Rows] /\ cache' \in [Sessions -> Cache]
         /\ alone' \in SUBSET Sessions
         /\ step'[s] = "idle" /\ job'[s] = NoJob /\ holds'[s] = {} /\ cache'[s] = NoCache
         /\ \A t \in Sessions \ {s} : /\ step'[t] = step[t] /\ job'[t] = job[t]
                                      /\ holds'[t] = holds[t] /\ cache'[t] = cache[t]
BY EmptyCache DEF End, Goto, SessionTypes, Steps, Jobs

\* A transaction is rolled back.
LEMMA RolledBack ==
  ASSUME SessionsInv, NEW s \in Sessions, RollBack(s)
  PROVE  SessionsInv'
<1>1. SessionTypes /\ TypeOK /\ End(s) /\ UNCHANGED vars
  BY SessionFacts DEF RollBack
<1>2. SessionTypes'
  BY <1>1, EndFacts DEF SessionTypes, TypeOK, vars
<1>3. LocalTo(s)
  BY <1>1, EndFacts DEF LocalTo
<1>4. SessionInv(s)'
  BY <1>1, <1>2, EndFacts, IdleAfter
<1> QED
  BY <1>2, <1>3, <1>4, LocalStep

-----------------------------------------------------------------------------
\* What one session has locked, no other has.
LEMMA NotShared ==
  ASSUME SessionsInv, NEW s \in Sessions, NEW t \in Sessions \ {s}, NEW row \in holds[s]
  PROVE  row \notin holds[t]
BY DEF SessionsInv, Exclusive

\* A commit that leaves the other sessions what they rely on.
LEMMA CommitStep ==
  ASSUME SessionsInv, SessionTypes', NEW s \in Sessions, End(s),
         \A t \in Sessions \ {s} : Kept(t),
         CountersFit', \A o \in Orders : OrderInv(o)'
  PROVE  SessionsInv'
<1>1. /\ step'[s] = "idle" /\ job'[s] = NoJob /\ holds'[s] = {} /\ cache'[s] = NoCache
      /\ \A t \in Sessions \ {s} : holds'[t] = holds[t]
  BY SessionFacts, EndFacts
<1>2. Exclusive'
  BY <1>1 DEF SessionsInv, Exclusive
<1>3. SessionInv(s)'
  BY <1>1, IdleAfter
<1>4. ASSUME NEW t \in Sessions \ {s} PROVE SessionInv(t)'
  BY KeptInv DEF SessionsInv
<1> QED
  BY <1>2, <1>3, <1>4 DEF SessionsInv

\* A worker who is about to mark the order ready: the order is approved, its
\* tasks cover all of it, and only the worker's own one is not ready.
LEMMA MarkFacts ==
  ASSUME SessionsInv, NEW t \in Sessions, step[t] = "mark"
  PROVE  LET o == job[t].order
             i == job[t].task
         IN  /\ o \in Orders /\ i \in DOMAIN tasks[o] /\ TaskRow(o, i) \in holds[t]
             /\ tasks[o][i].status = "packing" /\ status[o] = "approved"
             /\ \A p \in Products : Planned(o, p) = line[o][p]
             /\ \A k \in DOMAIN tasks[o] \ {i} : tasks[o][k].status = "ready_to_ship"
<1> DEFINE o == job[t].order
           i == job[t].task
           old == tasks[o]
           ts == [old EXCEPT ![i].status = "ready_to_ship"]
           R == {k \in DOMAIN ts : ts[k].status = "ready_to_ship"}
<1>1. /\ o \in Orders /\ i \in DOMAIN old /\ TaskRow(o, i) \in holds[t]
      /\ old[i].status = "packing" /\ TypeOK /\ OrderInv(o)
      /\ CompleteIn(t, o)
  BY SessionFacts, StepJobs DEF JobInv, MarkInv, SessionsInv
<1>2. status[o] = "approved"
  BY <1>1 DEF OrderInv, OpenStatus, NextStatus
<1>3. old \in Seq(Task) /\ \A k \in DOMAIN old : old[k] \in Task
  BY <1>1 DEF TypeOK
<1>4. [old[i] EXCEPT !.status = "ready_to_ship"] \in Task
  BY <1>1, <1>3 DEF Task, TaskStatus
<1>5. /\ ts \in Seq(Task) /\ DOMAIN ts = DOMAIN old
      /\ \A k \in DOMAIN old : ts[k].items = old[k].items
      /\ \A k \in DOMAIN old \ {i} : ts[k] = old[k]
  <2> DEFINE done == [old[i] EXCEPT !.status = "ready_to_ship"]
  <2>1. ts = [old EXCEPT ![i] = done]
    OBVIOUS
  <2>2. done \in Task /\ done.items = old[i].items
    BY <1>1, <1>3, <1>4 DEF Task
  <2> HIDE DEF ts, old, done
  <2>3. ts \in Seq(Task)
    BY <1>1, <1>3, <2>1, <2>2
  <2>4. /\ DOMAIN ts = DOMAIN old /\ ts[i] = done
        /\ \A k \in DOMAIN old \ {i} : ts[k] = old[k]
    BY <1>1, <1>3, <2>1
  <2> QED
    BY <2>2, <2>3, <2>4
<1>6. \A p \in Products : Ships(ts, p) = Ships(old, p)
  <2> HIDE DEF ts, old
  <2>1. \A p \in Products : \A k \in DOMAIN old : ts[k].items[p] = old[k].items[p]
    BY <1>5
  <2> QED
    BY <1>5, <2>1 DEF Ships
<1>7. TasksIn(t)[o] = ts
  BY <1>1 DEF TasksIn, TypeOK
<1>8. \A p \in Products : Total(Ships(ts, p), R) = line[o][p]
  BY <1>1, <1>7 DEF CompleteIn
<1>9. \A p \in Products : Total(Ships(ts, p), DOMAIN ts) = Planned(o, p)
  BY <1>5, <1>6 DEF Planned
<1>10. \A p \in Products : Total(Ships(ts, p), DOMAIN ts) <= line[o][p]
  BY <1>1, <1>9 DEF OrderInv
<1>11. /\ \A k \in DOMAIN ts : ts[k].items # Nothing
       /\ line[o] \in [Products -> Nat]
  BY <1>1, <1>5 DEF OrderInv, TypeOK
<1> HIDE DEF ts, old, o, i
<1>12. \A k \in DOMAIN ts : ts[k].status = "ready_to_ship"
  BY <1>5, <1>8, <1>10, <1>11, CompleteMeansAllReady
<1>13. R = DOMAIN ts
  BY <1>12
<1>14. \A p \in Products : Planned(o, p) = line[o][p]
  BY <1>8, <1>9, <1>13
<1>15. \A k \in DOMAIN old \ {i} : old[k].status = "ready_to_ship"
  BY <1>5, <1>12
<1> QED
  BY <1>1, <1>2, <1>14, <1>15 DEF old, o, i

\* A commit that leaves an order as it is, but for its reservations.
LEMMA OrderUntouched ==
  ASSUME NEW o \in Orders, OrderInv(o), status'[o] = status[o], line'[o] = line[o],
         status[o] # "pending_approval" => partial'[o] = partial[o],
         tasks'[o] = tasks[o], \A p \in Products : reservation'[o][p] <= line[o][p]
  PROVE  OrderInv(o)'
<1>1. \A p \in Products : Planned(o, p)' = Planned(o, p)
  BY DEF Planned
<1>2. Complete(o)' <=> Complete(o)
  BY DEF Complete, ReadyQuantity, ReadyTasks
<1> QED
  BY <1>1, <1>2 DEF OrderInv, Live, Nothing

\* A commit that adds a task to an approved order.
LEMMA OrderAppended ==
  ASSUME TypeOK, NEW o \in Orders, OrderInv(o), status'[o] = "approved", line'[o] = line[o],
         tasks[o] # <<>> => status[o] = "approved",
         NEW items \in [Products -> Nat], items # Nothing,
         tasks'[o] = Append(tasks[o], NewTask(items)),
         \A p \in Products : /\ reservation'[o][p] <= line[o][p]
                             /\ Planned(o, p) + items[p] <= line[o][p],
         ~partial'[o] => \A p \in Products : Planned(o, p) + items[p] = line[o][p]
  PROVE  OrderInv(o)'
<1> DEFINE ts == tasks[o]
           t == NewTask(items)
<1>1. ts \in Seq(Task) /\ t \in Task /\ t.items = items
  BY NewTaskType DEF TypeOK, NewTask
<1>2. /\ DOMAIN tasks'[o] = DOMAIN ts \cup {Len(ts) + 1}
      /\ tasks'[o][Len(ts) + 1] = t
      /\ \A i \in DOMAIN ts : tasks'[o][i] = ts[i]
  BY <1>1
<1>3. \A p \in Products : Planned(o, p)' = Planned(o, p) + items[p]
  BY <1>1, ShipsAppend DEF Planned
<1>4. \A i \in DOMAIN tasks'[o] : tasks'[o][i].items # Nothing
  BY <1>1, <1>2 DEF OrderInv
<1> QED
  BY <1>3, <1>4 DEF OrderInv, Live, Nothing

\* What a commit writes into the stock rows: the constraint holds, no line is
\* promised more than was ordered, and rows that others have locked stay.
LEMMA StockCommitted ==
  ASSUME SessionsInv, NEW s \in Sessions, step[s] # "receive", CommitStock(s)
  PROVE  /\ onHand' \in [Products -> Nat] /\ reserved' \in [Products -> Nat]
         /\ reservation' \in [Orders -> [Products -> Nat]]
         /\ CountersFit'
         /\ \A o \in Orders, p \in Products : reservation'[o][p] <= line[o][p]
         /\ \A t \in Sessions \ {s}, p \in Products : StockRow(p) \in holds[t] =>
              onHand'[p] = onHand[p] /\ reserved'[p] = reserved[p]
<1> DEFINE c == cache[s]
           wrote(p) == \E o \in Orders : <<o, p>> \in c.rows
<1>1. /\ TypeOK /\ StockInv(s) /\ JobInv(s) /\ CountersFit
      /\ c \in Cache /\ job[s].op = "stock" => job[s].product \in Products
  BY SessionFacts, StepJobs DEF SessionsInv
<1>2. /\ \A p \in Products : c.onHand[p] \in Nat /\ c.reserved[p] \in Nat
      /\ \A o \in Orders, p \in Products : c.reservation[o][p] \in Nat
  BY SessionFacts, CacheFields
<1>3. /\ onHand' = IF job[s].op = "stock"
                     THEN [onHand EXCEPT ![job[s].product] = c.onHand[job[s].product]]
                     ELSE onHand
      /\ reserved' = [p \in Products |-> IF wrote(p) THEN c.reserved[p] ELSE reserved[p]]
      /\ reservation' = [o \in Orders |-> [p \in Products |->
                           IF <<o, p>> \in c.rows THEN c.reservation[o][p]
                                                  ELSE reservation[o][p]]]
  BY DEF CommitStock
<1>4. /\ \A p \in Products : onHand'[p] = StockNow(s, p)
      /\ onHand' \in [Products -> Nat]
  BY <1>1, <1>2, <1>3 DEF StockNow, TypeOK
<1>5. /\ reserved' \in [Products -> Nat]
      /\ reservation' \in [Orders -> [Products -> Nat]]
  BY <1>1, <1>2, <1>3 DEF TypeOK
<1>6. \A p \in Products : wrote(p) =>
        StockRow(p) \in holds[s] /\ c.reserved[p] <= StockNow(s, p)
  BY <1>1 DEF StockInv
<1>7. ASSUME NEW p \in Products PROVE reserved'[p] <= onHand'[p]
  <2>1. CASE wrote(p)
    BY <1>3, <1>4, <1>6, <2>1
  <2>2. CASE ~wrote(p)
    BY <1>1, <1>3, <1>4, <2>2 DEF StockInv, StockNow, CountersFit
  <2> QED
    BY <2>1, <2>2
<1>8. ASSUME NEW o \in Orders, NEW p \in Products PROVE reservation'[o][p] <= line[o][p]
  <2>1. c.reservation[o][p] <= line[o][p]
    BY <1>1 DEF StockInv
  <2>2. reservation[o][p] <= line[o][p]
    BY DEF SessionsInv, OrderInv
  <2> QED
    BY <1>3, <2>1, <2>2
<1>9. ASSUME NEW t \in Sessions \ {s}, NEW p \in Products, StockRow(p) \in holds[t]
      PROVE  onHand'[p] = onHand[p] /\ reserved'[p] = reserved[p]
  <2>1. StockRow(p) \notin holds[s]
    BY <1>9, NotShared
  <2>2. ~wrote(p)
    BY <1>6, <2>1
  <2>3. ~(job[s].op = "stock" /\ job[s].product = p)
    BY <1>1, <2>1 DEF JobInv
  <2> QED
    BY <1>3, <1>4, <2>2, <2>3 DEF StockNow
<1> QED
  BY <1>4, <1>5, <1>7, <1>8, <1>9 DEF CountersFit

\* A task of order o changes its status.
LEMMA TaskMoved ==
  ASSUME TypeOK, NEW o \in Orders, NEW i \in DOMAIN tasks[o], NEW label \in TaskStatus,
         tasks' = [tasks EXCEPT ![o][i].status = label]
  PROVE  /\ tasks' \in [Orders -> Seq(Task)]
         /\ \A a \in Orders \ {o} : tasks'[a] = tasks[a]
         /\ DOMAIN tasks'[o] = DOMAIN tasks[o]
         /\ \A k \in DOMAIN tasks[o] : tasks'[o][k].items = tasks[o][k].items
         /\ \A k \in DOMAIN tasks[o] \ {i} : tasks'[o][k] = tasks[o][k]
         /\ tasks'[o][i].status = label
         /\ \A a \in Orders, p \in Products : Planned(a, p)' = Planned(a, p)
<1> DEFINE old == tasks[o]
           new == [old[i] EXCEPT !.status = label]
           ts == [old EXCEPT ![i] = new]
<1>1. tasks \in [Orders -> Seq(Task)] /\ old \in Seq(Task) /\ \A k \in DOMAIN old : old[k] \in Task
  BY DEF TypeOK
<1>2. tasks' = [tasks EXCEPT ![o] = ts]
  BY <1>1
<1>3. new \in Task /\ new.items = old[i].items /\ new.status = label
  <2>1. old[i] \in Task
    BY <1>1
  <2> QED
    BY <2>1 DEF Task
<1> HIDE DEF new
<1>4. /\ ts \in Seq(Task) /\ DOMAIN ts = DOMAIN old
      /\ \A k \in DOMAIN old : ts[k].items = old[k].items
      /\ \A k \in DOMAIN old \ {i} : ts[k] = old[k]
      /\ ts[i].status = label
  BY <1>1, <1>3
<1> HIDE DEF ts
<1>5. /\ tasks' \in [Orders -> Seq(Task)] /\ tasks'[o] = ts
      /\ \A a \in Orders \ {o} : tasks'[a] = tasks[a]
  BY <1>1, <1>2, <1>4
<1>6. \A p \in Products : Planned(o, p)' = Planned(o, p)
  <2>1. \A p \in Products : Ships(ts, p) = Ships(old, p)
    BY <1>4 DEF Ships
  <2> QED
    BY <1>4, <1>5, <2>1 DEF Planned
<1>7. \A a \in Orders \ {o}, p \in Products : Planned(a, p)' = Planned(a, p)
  BY <1>5 DEF Planned
<1> QED
  BY <1>4, <1>5, <1>6, <1>7

-----------------------------------------------------------------------------
\* The automation's request commits: its orders get their tasks.
LEMMA ProcessCommits ==
  ASSUME SessionsInv, NEW s \in Sessions, CommitProcess(s)
  PROVE  SessionsInv'
<1> DEFINE new == cache[s].new
<1>1. /\ SessionTypes /\ TypeOK /\ JobInv(s) /\ PlanInv(s)
      /\ step[s] = "allocate" /\ End(s) /\ CommitStock(s)
      /\ line' = line /\ requests' = requests
      /\ \A o \in Orders : new[o] \in [Products -> Nat]
  BY SessionFacts, CacheFields DEF CommitProcess
<1>2. /\ \A o \in Orders : /\ status'[o] = StatusIn(s)[o]
                           /\ partial'[o] = PartialIn(s)[o]
                           /\ approvedAt'[o] = ApprovedIn(s)[o]
      /\ tasks' = [o \in Orders |-> IF new[o] = Nothing THEN tasks[o]
                                     ELSE Append(tasks[o], NewTask(new[o]))]
  BY DEF CommitProcess
<1>3. \A o \in Orders : /\ new[o] = Nothing => tasks'[o] = tasks[o]
                        /\ new[o] # Nothing => tasks'[o] = Append(tasks[o], NewTask(new[o]))
  BY <1>2
<1>4. \A o \in Orders : IF Decides(s, o)
        THEN /\ status[o] = "pending_approval" /\ status'[o] = "approved"
             /\ OrderRow(o) \in holds[s]
        ELSE /\ status'[o] = status[o] /\ partial'[o] = partial[o]
             /\ approvedAt'[o] = approvedAt[o]
  BY <1>1, <1>2 DEF Decides, StatusIn, PartialIn, ApprovedIn, JobInv
<1>5. \A o \in Orders : new[o] # Nothing =>
        /\ OrderRow(o) \in holds[s] /\ status'[o] = "approved"
        /\ \A p \in Products : Planned(o, p) + new[o][p] <= line[o][p]
        /\ ~partial'[o] => \A p \in Products : Planned(o, p) + new[o][p] = line[o][p]
  BY <1>1, <1>2 DEF PlanInv
<1>6. /\ onHand' \in [Products -> Nat] /\ reserved' \in [Products -> Nat]
      /\ reservation' \in [Orders -> [Products -> Nat]]
      /\ CountersFit'
      /\ \A o \in Orders, p \in Products : reservation'[o][p] <= line[o][p]
      /\ \A t \in Sessions \ {s}, p \in Products : StockRow(p) \in holds[t] =>
           onHand'[p] = onHand[p] /\ reserved'[p] = reserved[p]
  BY <1>1, StockCommitted
<1>7. SessionTypes'
  <2>1. tasks' \in [Orders -> Seq(Task)]
    <3>1. \A o \in Orders : tasks[o] \in Seq(Task) /\ NewTask(new[o]) \in Task
      BY <1>1, NewTaskType DEF TypeOK
    <3>2. ASSUME NEW o \in Orders PROVE tasks'[o] \in Seq(Task)
      <4>1. CASE new[o] = Nothing
        BY <1>3, <3>1, <4>1
      <4>2. CASE new[o] # Nothing
        <5>1. tasks'[o] = Append(tasks[o], NewTask(new[o]))
          BY <1>3, <4>2
        <5>2. tasks[o] \in Seq(Task) /\ NewTask(new[o]) \in Task
          BY <3>1
        <5> HIDE DEF new
        <5> QED
          BY <5>1, <5>2
      <4> QED
        BY <4>1, <4>2
    <3>3. DOMAIN tasks' = Orders /\ tasks' = [o \in Orders |-> tasks'[o]]
      BY <1>2
    <3> QED
      BY <3>2, <3>3
  <2>2. /\ status' \in [Orders -> OrderStatus] /\ partial' \in [Orders -> BOOLEAN]
        /\ approvedAt' \in [Orders -> Nat]
    <3>1. /\ status' = StatusIn(s) /\ partial' = PartialIn(s) /\ approvedAt' = ApprovedIn(s)
      BY DEF CommitProcess
    <3>2. \A o \in Orders : StatusIn(s)[o] \in OrderStatus
      BY <1>1 DEF StatusIn, OrderStatus, TypeOK
    <3> QED
      BY <3>1, <3>2, SeenTypes DEF StatusIn, PartialIn, ApprovedIn
  <2> QED
    BY <1>1, <1>6, <2>1, <2>2, EndFacts DEF SessionTypes, TypeOK
<1>8. ASSUME NEW t \in Sessions \ {s} PROVE Kept(t)
  <2>1. \A o \in Orders : OrderRow(o) \in holds[t] =>
          /\ status'[o] = status[o] /\ tasks'[o] = tasks[o]
    <3>1. \A o \in Orders : OrderRow(o) \in holds[t] => OrderRow(o) \notin holds[s]
      BY NotShared
    <3> QED
      BY <1>3, <1>4, <1>5, <3>1
  <2>2. \A o \in Orders : status[o] # "pending_approval" =>
          /\ status'[o] # "pending_approval"
          /\ partial'[o] = partial[o] /\ approvedAt'[o] = approvedAt[o]
    BY <1>4
  <2>3. \A o \in Orders : \A i \in DOMAIN tasks[o] :
          i \in DOMAIN tasks'[o] /\ tasks'[o][i] = tasks[o][i]
    <3>1. SUFFICES ASSUME NEW o \in Orders, NEW i \in DOMAIN tasks[o]
                   PROVE  i \in DOMAIN tasks'[o] /\ tasks'[o][i] = tasks[o][i]
      OBVIOUS
    <3>2. tasks[o] \in Seq(Task) /\ NewTask(new[o]) \in Task
      BY <1>1, NewTaskType DEF TypeOK
    <3>3. CASE new[o] = Nothing
      BY <1>3, <3>3
    <3>4. CASE new[o] # Nothing
      <4>1. tasks'[o] = Append(tasks[o], NewTask(new[o]))
        BY <1>3, <3>4
      <4> QED
        BY <3>2, <4>1
    <3> QED
      BY <3>3, <3>4
  <2>4. step[t] = "mark" => tasks'[job[t].order] = tasks[job[t].order]
    <3>1. SUFFICES ASSUME step[t] = "mark", new[job[t].order] # Nothing PROVE FALSE
      <4>1. step[t] = "mark" => job[t].order \in Orders
        BY StepJobs
      <4> QED
        BY <1>3, <3>1, <4>1
    <3>2. PICK o \in Orders : /\ o = job[t].order
                              /\ \A p \in Products : Planned(o, p) = line[o][p]
      BY <3>1, MarkFacts
    <3>3. \A p \in Products : /\ Planned(o, p) + new[o][p] <= line[o][p]
                              /\ new[o][p] \in Nat /\ line[o][p] \in Nat
      BY <1>1, <1>5, <3>1, <3>2 DEF TypeOK
    <3>4. \A p \in Products : new[o][p] = 0
      BY <3>2, <3>3
    <3>5. new[o] = Nothing
      BY <1>1, <3>4 DEF Nothing
    <3> QED
      BY <3>1, <3>2, <3>5
  <2>5. /\ step'[t] = step[t] /\ job'[t] = job[t]
        /\ holds'[t] = holds[t] /\ cache'[t] = cache[t]
    BY <1>1, EndFacts
  <2>6. \A o \in Orders : OrderRow(o) \in holds[t] =>
          /\ status'[o] = status[o] /\ DOMAIN tasks'[o] = DOMAIN tasks[o]
          /\ \A p \in Products : Planned(o, p)' = Planned(o, p)
    BY <2>1 DEF Planned
  <2> HIDE DEF new
  <2> QED
    BY <1>1, <1>6, <2>2, <2>3, <2>4, <2>5, <2>6 DEF Kept
<1>9. ASSUME NEW o \in Orders PROVE OrderInv(o)'
  <2>1. OrderInv(o) /\ line'[o] = line[o]
    BY <1>1 DEF SessionsInv
  <2>2. CASE new[o] # Nothing
    <3>1. tasks[o] # <<>> => status[o] = "approved"
      BY <1>4, <1>5, <2>1, <2>2 DEF OrderInv
    <3>2. /\ new[o] \in [Products -> Nat] /\ status'[o] = "approved"
          /\ tasks'[o] = Append(tasks[o], NewTask(new[o]))
          /\ \A p \in Products : Planned(o, p) + new[o][p] <= line[o][p]
          /\ ~partial'[o] => \A p \in Products : Planned(o, p) + new[o][p] = line[o][p]
      BY <1>1, <1>3, <1>5, <2>2
    <3> HIDE DEF new
    <3> QED
      BY <1>1, <1>6, <2>1, <2>2, <3>1, <3>2, OrderAppended
  <2>3. CASE new[o] = Nothing /\ Decides(s, o)
    <3>1. status'[o] = "approved" /\ tasks'[o] = tasks[o] /\ tasks[o] = <<>>
      BY <1>3, <1>4, <2>1, <2>3 DEF OrderInv
    <3>2. \A p \in Products : Planned(o, p)' = Planned(o, p)
      BY <3>1 DEF Planned
    <3> QED
      BY <1>6, <2>1, <3>1, <3>2 DEF OrderInv
  <2>4. CASE new[o] = Nothing /\ ~Decides(s, o)
    BY <1>3, <1>4, <1>6, <2>1, <2>4, OrderUntouched
  <2> QED
    BY <2>2, <2>3, <2>4
<1> QED
  BY <1>1, <1>6, <1>7, <1>8, <1>9, CommitStep

\* A worker moves a task on that is not about to be ready: nobody relies on
\* it, for the sessions that have come to "mark" or "stop" hold or need others.
LEMMA OpenTaskAdvanced ==
  ASSUME SessionsInv, NEW s \in Sessions, NEW o \in Orders, NEW i \in DOMAIN tasks[o],
         AdvanceOpenTask(s, o, i)
  PROVE  SessionsInv'
<1> DEFINE label == NextStatus[tasks[o][i].status]
<1>1. /\ SessionTypes /\ TypeOK /\ OrderInv(o)
      /\ step[s] = "idle" /\ Free(s, TaskRow(o, i))
      /\ tasks[o][i].status \in OpenStatus \ {"packing"}
      /\ UNCHANGED <<status, line, partial, approvedAt, stockVars, requests,
                     step, job, holds, cache>>
      /\ alone' = {}
      /\ tasks' = [tasks EXCEPT ![o][i].status = NextStatus[@]]
  BY SessionFacts DEF AdvanceOpenTask, SessionsInv
<1>2. label \in OpenStatus
  BY <1>1 DEF OpenStatus, NextStatus
<1>3. tasks' = [tasks EXCEPT ![o][i].status = label] /\ label \in TaskStatus
  BY <1>1, <1>2 DEF TypeOK, TaskStatus
<1> HIDE DEF label
<1>4. /\ tasks' \in [Orders -> Seq(Task)]
      /\ \A a \in Orders \ {o} : tasks'[a] = tasks[a]
      /\ DOMAIN tasks'[o] = DOMAIN tasks[o]
      /\ \A k \in DOMAIN tasks[o] : tasks'[o][k].items = tasks[o][k].items
      /\ \A k \in DOMAIN tasks[o] \ {i} : tasks'[o][k] = tasks[o][k]
      /\ tasks'[o][i].status = label
      /\ \A a \in Orders, p \in Products : Planned(a, p)' = Planned(a, p)
  <2>1. TypeOK
    BY <1>1
  <2> QED
    BY <1>3, <2>1, TaskMoved
<1>5. SessionTypes'
  BY <1>1, <1>4 DEF SessionTypes, TypeOK, stockVars
<1>6. status[o] = "approved"
  BY <1>1 DEF OrderInv
<1>7. ASSUME NEW t \in Sessions PROVE Kept(t)
  <2>1. TaskRow(o, i) \notin holds[t]
    BY <1>1, SessionFacts DEF Free, JobInv
  <2>2. step[t] = "mark" => job[t].order # o
    <3>1. SUFFICES ASSUME step[t] = "mark", job[t].order = o PROVE FALSE
      OBVIOUS
    <3>2. /\ TaskRow(o, job[t].task) \in holds[t]
          /\ \A k \in DOMAIN tasks[o] \ {job[t].task} : tasks[o][k].status = "ready_to_ship"
      BY <3>1, MarkFacts
    <3>3. i # job[t].task
      BY <2>1, <3>2
    <3> QED
      BY <1>1, <3>2, <3>3 DEF OpenStatus, NextStatus
  <2>3. \A a \in Orders : \A k \in DOMAIN tasks[a] :
          /\ k \in DOMAIN tasks'[a]
          /\ TaskRow(a, k) \in holds[t] => tasks'[a][k] = tasks[a][k]
          /\ tasks[a][k].status = "cancelled" => tasks'[a][k].status = "cancelled"
    BY <1>1, <1>4, <2>1 DEF OpenStatus, NextStatus
  <2>4. \A a \in Orders : DOMAIN tasks'[a] = DOMAIN tasks[a]
    BY <1>4
  <2>5. step[t] = "mark" => tasks'[job[t].order] = tasks[job[t].order]
    BY <1>4, <2>2, StepJobs
  <2> QED
    BY <1>1, <1>4, <2>3, <2>4, <2>5 DEF Kept, stockVars
<1>8. ASSUME NEW a \in Orders PROVE OrderInv(a)'
  <2>1. OrderInv(a) /\ \A p \in Products : reservation'[a][p] <= line[a][p]
    BY <1>1 DEF SessionsInv, OrderInv, stockVars
  <2>2. CASE a # o
    BY <1>1, <1>4, <2>1, <2>2, OrderUntouched
  <2>3. CASE a = o
    <3>1. /\ status'[o] = "approved" /\ line' = line /\ partial' = partial
      BY <1>1, <1>6
    <3>2. \A k \in DOMAIN tasks'[o] : tasks'[o][k].items # Nothing
      BY <1>4, <2>1, <2>3 DEF OrderInv
    <3>3. tasks[o] # <<>>
      OBVIOUS
    <3> QED
      BY <1>4, <1>6, <2>1, <2>3, <3>1, <3>2, <3>3 DEF OrderInv, Live, Nothing
  <2> QED
    BY <2>2, <2>3
<1>9. Exclusive' /\ CountersFit'
  BY <1>1 DEF SessionsInv, Exclusive, CountersFit, stockVars
<1>10. \A t \in Sessions : SessionInv(t)'
  BY <1>1, <1>5, <1>7, KeptInv DEF SessionsInv
<1> QED
  BY <1>5, <1>8, <1>9, <1>10 DEF SessionsInv

\* A worker's last advance commits.
LEMMA AdvanceCommits ==
  ASSUME SessionsInv, NEW s \in Sessions, CommitAdvance(s)
  PROVE  SessionsInv'
<1>0. PICK o \in Orders, i \in Nat : o = job[s].order /\ i = job[s].task
  <2>1. step[s] \in {"commit", "mark"}
    BY DEF CommitAdvance
  <2> QED
    BY <2>1, StepJobs
<1>1. /\ SessionTypes /\ TypeOK /\ JobInv(s) /\ MarkInv(s) /\ End(s)
      /\ step[s] \in {"commit", "mark"} /\ job[s].op = "advance"
      /\ UNCHANGED <<line, partial, approvedAt, stockVars, requests>>
      /\ tasks' = TasksIn(s)
  BY SessionFacts, StepJobs DEF CommitAdvance
<1>2. /\ TaskRow(o, i) \in holds[s] /\ i \in DOMAIN tasks[o]
      /\ tasks[o][i].status = "packing" /\ OrderInv(o)
  BY <1>0, <1>1 DEF JobInv, SessionsInv
<1>3. status[o] = "approved"
  BY <1>2 DEF OrderInv, OpenStatus, NextStatus
<1>4. tasks' = [tasks EXCEPT ![o][i].status = "ready_to_ship"]
  BY <1>0, <1>1 DEF TasksIn
<1>5. \/ step[s] = "commit" /\ status' = status
      \/ /\ step[s] = "mark" /\ Free(s, OrderRow(o))
         /\ status' = [status EXCEPT ![o] = "ready_to_ship"]
  BY <1>0 DEF CommitAdvance
<1>6. step[s] = "mark" => CompleteIn(s, o)
  BY <1>0, <1>1 DEF MarkInv
<1>7. "ready_to_ship" \in TaskStatus
  BY DEF TaskStatus
<1>8. /\ tasks' \in [Orders -> Seq(Task)]
      /\ \A a \in Orders \ {o} : tasks'[a] = tasks[a]
      /\ DOMAIN tasks'[o] = DOMAIN tasks[o]
      /\ \A k \in DOMAIN tasks[o] : tasks'[o][k].items = tasks[o][k].items
      /\ \A k \in DOMAIN tasks[o] \ {i} : tasks'[o][k] = tasks[o][k]
      /\ tasks'[o][i].status = "ready_to_ship"
      /\ \A a \in Orders, p \in Products : Planned(a, p)' = Planned(a, p)
  BY <1>1, <1>2, <1>4, <1>7, TaskMoved
<1>9. /\ status' \in [Orders -> OrderStatus]
      /\ status'[o] \in {"approved", "ready_to_ship"}
      /\ status'[o] = "ready_to_ship" => step[s] = "mark"
      /\ \A a \in Orders \ {o} : status'[a] = status[a]
  BY <1>1, <1>3, <1>5 DEF TypeOK, OrderStatus
<1>10. SessionTypes'
  BY <1>1, <1>8, <1>9, EndFacts DEF SessionTypes, TypeOK, stockVars
<1>11. ASSUME NEW t \in Sessions \ {s} PROVE Kept(t)
  <2>1. TaskRow(o, i) \notin holds[t]
    BY <1>2, NotShared
  <2>2. step[t] = "mark" => job[t].order # o
    <3>1. SUFFICES ASSUME step[t] = "mark", job[t].order = o PROVE FALSE
      OBVIOUS
    <3>2. /\ TaskRow(o, job[t].task) \in holds[t]
          /\ \A k \in DOMAIN tasks[o] \ {job[t].task} : tasks[o][k].status = "ready_to_ship"
      BY <3>1, MarkFacts
    <3>3. i # job[t].task
      BY <2>1, <3>2
    <3> QED
      BY <1>2, <3>2, <3>3
  <2>3. \A a \in Orders : \A k \in DOMAIN tasks[a] :
          /\ k \in DOMAIN tasks'[a]
          /\ TaskRow(a, k) \in holds[t] => tasks'[a][k] = tasks[a][k]
          /\ tasks[a][k].status = "cancelled" => tasks'[a][k].status = "cancelled"
    BY <1>2, <1>8, <2>1
  <2>4. \A a \in Orders : DOMAIN tasks'[a] = DOMAIN tasks[a]
    BY <1>8
  <2>5. step[t] = "mark" => tasks'[job[t].order] = tasks[job[t].order]
    BY <1>8, <2>2, StepJobs
  <2>6. \A a \in Orders : OrderRow(a) \in holds[t] => status'[a] = status[a]
    BY <1>5, <1>9 DEF Free
  <2>7. \A a \in Orders : status[a] # "pending_approval" => status'[a] # "pending_approval"
    BY <1>9
  <2>8. /\ step'[t] = step[t] /\ job'[t] = job[t]
        /\ holds'[t] = holds[t] /\ cache'[t] = cache[t]
    BY <1>1, EndFacts
  <2> QED
    BY <1>1, <1>8, <2>3, <2>4, <2>5, <2>6, <2>7, <2>8 DEF Kept, stockVars
<1>12. ASSUME NEW a \in Orders PROVE OrderInv(a)'
  <2>1. OrderInv(a) /\ \A p \in Products : reservation'[a][p] <= line[a][p]
    BY <1>1 DEF SessionsInv, OrderInv, stockVars
  <2>2. CASE a # o
    BY <1>1, <1>8, <1>9, <2>1, <2>2, OrderUntouched
  <2>3. CASE a = o
    <3>1. line' = line /\ partial' = partial /\ tasks[o] # <<>>
      BY <1>1, <1>2
    <3>2. \A k \in DOMAIN tasks'[o] : tasks'[o][k].items # Nothing
      BY <1>8, <2>1, <2>3 DEF OrderInv
    <3>3. status'[o] = "ready_to_ship" => Complete(o)'
      <4>1. SUFFICES ASSUME step[s] = "mark" PROVE Complete(o)'
        BY <1>9
      <4>2. tasks'[o] = TasksIn(s)[o]
        BY <1>1
      <4>3. \A p \in Products :
              Total(Ships(tasks'[o], p),
                    {k \in DOMAIN tasks'[o] : tasks'[o][k].status = "ready_to_ship"})
                = line[o][p]
        BY <1>6, <4>1, <4>2 DEF CompleteIn
      <4> QED
        BY <3>1, <4>3 DEF Complete, ReadyQuantity, ReadyTasks
    <3>4. \A k \in DOMAIN tasks'[o] :
            tasks'[o][k].status \in OpenStatus => status'[o] = "approved"
      <4>1. CASE step[s] = "commit"
        BY <1>9, <4>1
      <4>2. CASE step[s] = "mark"
        <5>1. \A k \in DOMAIN tasks[o] \ {i} : tasks[o][k].status = "ready_to_ship"
          BY <1>0, <4>2, MarkFacts
        <5> QED
          BY <1>8, <5>1 DEF OpenStatus, NextStatus
      <4> QED
        BY <1>1, <4>1, <4>2
    <3>5. \A p \in Products : reservation'[o][p] <= line'[o][p] /\ Planned(o, p)' <= line'[o][p]
      BY <1>8, <2>1, <2>3, <3>1 DEF OrderInv
    <3>6. ~partial'[o] => \A p \in Products : Planned(o, p)' = line'[o][p]
      BY <1>3, <1>8, <2>1, <2>3, <3>1 DEF OrderInv, Live
    <3>7. OrderInv(o)'
      BY <1>9, <3>2, <3>3, <3>4, <3>5, <3>6 DEF OrderInv, Nothing
    <3> QED
      BY <2>3, <3>7
  <2> QED
    BY <2>2, <2>3
<1>13. CountersFit'
  BY <1>1 DEF SessionsInv, CountersFit, stockVars
<1> QED
  BY <1>1, <1>10, <1>11, <1>12, <1>13, CommitStep

\* A cancellation commits: every task of the order that was not cancelled is
\* locked, so nobody else is about to move one.
LEMMA CancellationCommits ==
  ASSUME SessionsInv, NEW s \in Sessions, CommitCancellation(s)
  PROVE  SessionsInv'
<1>0. PICK o \in Orders : o = job[s].order
  <2>1. step[s] = "counter"
    BY DEF CommitCancellation
  <2> QED
    BY <2>1, StepJobs
<1>1. /\ SessionTypes /\ TypeOK /\ JobInv(s) /\ OrderInv(o) /\ End(s) /\ CommitStock(s)
      /\ step[s] = "counter" /\ job[s].op = "cancel"
      /\ line' = line /\ partial' = partial /\ approvedAt' = approvedAt
      /\ requests' = requests
      /\ status' = [status EXCEPT ![o] = "cancelled"]
      /\ CancelTasks(o)
  BY <1>0, SessionFacts, StepJobs DEF CommitCancellation, CancelStatus, SessionsInv
<1>2. /\ OrderRow(o) \in holds[s] /\ LiveTasks(o) \subseteq holds[s]
      /\ status[o] # "pending_approval"
  BY <1>0, <1>1 DEF JobInv
<1>3. /\ onHand' \in [Products -> Nat] /\ reserved' \in [Products -> Nat]
      /\ reservation' \in [Orders -> [Products -> Nat]]
      /\ CountersFit'
      /\ \A a \in Orders, p \in Products : reservation'[a][p] <= line[a][p]
      /\ \A t \in Sessions \ {s}, p \in Products : StockRow(p) \in holds[t] =>
           onHand'[p] = onHand[p] /\ reserved'[p] = reserved[p]
  BY <1>1, StockCommitted
<1>4. /\ tasks' \in [Orders -> Seq(Task)]
      /\ \A a \in Orders \ {o} : tasks'[a] = tasks[a]
      /\ DOMAIN tasks'[o] = DOMAIN tasks[o]
      /\ \A k \in DOMAIN tasks[o] : tasks'[o][k] = [tasks[o][k] EXCEPT !.status = "cancelled"]
  <2> DEFINE old == tasks[o]
             ts == [k \in DOMAIN old |-> [old[k] EXCEPT !.status = "cancelled"]]
  <2>1. tasks \in [Orders -> Seq(Task)] /\ ts \in Seq(Task)
    BY <1>1, CancelledTasksType DEF TypeOK
  <2>2. /\ DOMAIN ts = DOMAIN old
        /\ \A k \in DOMAIN old : ts[k] = [old[k] EXCEPT !.status = "cancelled"]
    OBVIOUS
  <2>3. tasks' = [tasks EXCEPT ![o] = ts]
    BY <1>1, <2>1 DEF CancelTasks
  <2> HIDE DEF ts
  <2> QED
    BY <2>1, <2>2, <2>3
<1>5. \A k \in DOMAIN tasks[o] :
        /\ tasks'[o][k].items = tasks[o][k].items
        /\ tasks'[o][k].status = "cancelled"
        /\ tasks[o][k].status = "cancelled" => tasks'[o][k] = tasks[o][k]
  <2>1. tasks[o] \in Seq(Task)
    BY <1>1 DEF TypeOK
  <2>2. \A k \in DOMAIN tasks[o] : tasks[o][k] \in Task
    BY <2>1
  <2>3. ASSUME NEW old \in Task
        PROVE  /\ [old EXCEPT !.status = "cancelled"].items = old.items
               /\ [old EXCEPT !.status = "cancelled"].status = "cancelled"
               /\ old.status = "cancelled" => [old EXCEPT !.status = "cancelled"] = old
    BY DEF Task
  <2>4. SUFFICES ASSUME NEW k \in DOMAIN tasks[o]
                 PROVE  /\ tasks'[o][k].items = tasks[o][k].items
                        /\ tasks'[o][k].status = "cancelled"
                        /\ tasks[o][k].status = "cancelled" => tasks'[o][k] = tasks[o][k]
    OBVIOUS
  <2>5. tasks[o][k] \in Task /\ tasks'[o][k] = [tasks[o][k] EXCEPT !.status = "cancelled"]
    BY <1>4, <2>2
  <2> QED
    BY <2>3, <2>5
<1>6. \A a \in Orders, p \in Products : Planned(a, p)' = Planned(a, p)
  <2>1. \A p \in Products : Ships(tasks'[o], p) = Ships(tasks[o], p)
    BY <1>4, <1>5 DEF Ships
  <2> QED
    BY <1>4, <2>1 DEF Planned
<1>7. /\ status' \in [Orders -> OrderStatus] /\ status'[o] = "cancelled"
      /\ \A a \in Orders \ {o} : status'[a] = status[a]
  BY <1>1 DEF TypeOK, OrderStatus
<1>8. SessionTypes'
  BY <1>1, <1>3, <1>4, <1>7, EndFacts DEF SessionTypes, TypeOK
<1>9. ASSUME NEW t \in Sessions \ {s} PROVE Kept(t)
  <2>1. OrderRow(o) \notin holds[t]
    BY <1>2, NotShared
  <2>2. \A k \in DOMAIN tasks[o] :
          TaskRow(o, k) \in holds[t] => tasks[o][k].status = "cancelled"
    BY <1>2, NotShared DEF LiveTasks
  <2>3. step[t] = "mark" => job[t].order # o
    <3>1. SUFFICES ASSUME step[t] = "mark", job[t].order = o PROVE FALSE
      OBVIOUS
    <3>2. /\ TaskRow(o, job[t].task) \in holds[t] /\ job[t].task \in DOMAIN tasks[o]
          /\ tasks[o][job[t].task].status = "packing"
      BY <3>1, MarkFacts
    <3> QED
      BY <2>2, <3>2
  <2>4. \A a \in Orders : \A k \in DOMAIN tasks[a] :
          /\ k \in DOMAIN tasks'[a]
          /\ TaskRow(a, k) \in holds[t] => tasks'[a][k] = tasks[a][k]
          /\ tasks[a][k].status = "cancelled" => tasks'[a][k].status = "cancelled"
    BY <1>4, <1>5, <2>2
  <2>5. \A a \in Orders : OrderRow(a) \in holds[t] =>
          status'[a] = status[a] /\ DOMAIN tasks'[a] = DOMAIN tasks[a]
    BY <1>4, <1>7, <2>1
  <2>6. step[t] = "mark" => tasks'[job[t].order] = tasks[job[t].order]
    BY <1>4, <2>3, StepJobs
  <2>7. \A a \in Orders : status[a] # "pending_approval" => status'[a] # "pending_approval"
    BY <1>7
  <2>8. /\ step'[t] = step[t] /\ job'[t] = job[t]
        /\ holds'[t] = holds[t] /\ cache'[t] = cache[t]
    BY <1>1, EndFacts
  <2> QED
    BY <1>1, <1>3, <1>6, <2>4, <2>5, <2>6, <2>7, <2>8 DEF Kept
<1>10. ASSUME NEW a \in Orders PROVE OrderInv(a)'
  <2>1. OrderInv(a) /\ line'[a] = line[a] /\ partial'[a] = partial[a]
    BY <1>1 DEF SessionsInv
  <2>2. CASE a # o
    BY <1>3, <1>4, <1>7, <2>1, <2>2, OrderUntouched
  <2>3. CASE a = o
    <3>1. \A p \in Products : reservation'[o][p] <= line'[o][p] /\ Planned(o, p)' <= line'[o][p]
      BY <1>1, <1>3, <1>6 DEF OrderInv
    <3>2. \A k \in DOMAIN tasks'[o] : tasks'[o][k].items # Nothing
      BY <1>1, <1>4, <1>5 DEF OrderInv
    <3>3. OrderInv(o)'
      BY <1>4, <1>5, <1>7, <3>1, <3>2 DEF OrderInv, Nothing, OpenStatus, NextStatus, Live
    <3> QED
      BY <2>3, <3>3
  <2> QED
    BY <2>2, <2>3
<1> QED
  BY <1>1, <1>3, <1>8, <1>9, <1>10, CommitStep

-----------------------------------------------------------------------------
\* Submitted orders, an empty warehouse and idle sessions.
LEMMA SessionsStart == SessionInit => SessionsInv
<1> SUFFICES ASSUME SessionInit PROVE SessionsInv
  OBVIOUS
<1>1. TypeOK
  BY CartsAssumption DEF SessionInit, TypeOK, OrderStatus, Nothing
<1>2. /\ step \in [Sessions -> Steps] /\ job \in [Sessions -> Jobs]
      /\ holds \in [Sessions -> SUBSET Rows] /\ cache \in [Sessions -> Cache]
      /\ alone \in SUBSET Sessions
  BY EmptyCache DEF SessionInit, Steps, Jobs
<1>3. SessionTypes
  BY <1>1, <1>2 DEF SessionTypes
<1>4. Exclusive /\ CountersFit
  BY DEF SessionInit, Exclusive, CountersFit, Nothing
<1>5. ASSUME NEW o \in Orders PROVE OrderInv(o)
  <2>1. /\ tasks[o] = <<>> /\ status[o] = "pending_approval"
        /\ \A p \in Products : reservation[o][p] = 0 /\ line[o][p] \in Nat
    BY <1>1 DEF SessionInit, Nothing, TypeOK
  <2>2. \A p \in Products : Planned(o, p) = 0
    BY <2>1, NothingPlanned DEF Planned
  <2> QED
    BY <2>1, <2>2 DEF OrderInv, Live
<1>6. ASSUME NEW s \in Sessions PROVE SessionInv(s)
  BY <1>3, IdleInv DEF SessionInit
<1> QED
  BY <1>3, <1>4, <1>5, <1>6 DEF SessionsInv

\* Every statement of every session keeps the invariant.
LEMMA SessionsStep == SessionsInv /\ [SessionNext]_allVars => SessionsInv'
<1> SUFFICES ASSUME SessionsInv, [SessionNext]_allVars PROVE SessionsInv'
  OBVIOUS
<1>1. CASE UNCHANGED allVars
  <2>1. UNCHANGED <<vars, step, job, holds, cache, alone>>
    BY <1>1 DEF allVars, sessionVars
  <2>2. CASE Sessions = {}
    <3>1. SessionTypes' /\ Exclusive' /\ CountersFit' /\ \A o \in Orders : OrderInv(o)'
      BY <2>1 DEF SessionsInv, SessionTypes, TypeOK, Exclusive, CountersFit, OrderInv,
                  Planned, Complete, ReadyQuantity, ReadyTasks, vars
    <3> QED
      BY <2>2, <3>1 DEF SessionsInv
  <2>3. CASE Sessions # {}
    <3>1. PICK s \in Sessions : TRUE
      BY <2>3
    <3>2. SessionTypes'
      BY <2>1 DEF SessionsInv, SessionTypes, TypeOK, vars
    <3>3. LocalTo(s)
      BY <2>1 DEF LocalTo
    <3>4. Kept(s)
      BY <2>1 DEF Kept, vars, Planned
    <3>5. SessionInv(s)'
      BY <3>2, <3>4, KeptInv DEF SessionsInv
    <3> QED
      BY <3>2, <3>3, <3>5, LocalStep
  <2> QED
    BY <2>2, <2>3
<1>2. ASSUME NEW s \in Sessions,
             \/ \E o \in Orders, allowPartial \in BOOLEAN, now \in 0..MaxTime :
                  BeginApproval(s, o, allowPartial, now)
             \/ \E p \in Products, quantity \in 1..MaxReceipt : BeginReceipt(s, p, quantity)
             \/ Receive(s)
             \/ SelectOrders(s)
             \/ SelectStock(s)
             \/ SelectReservations(s)
             \/ \E o \in Orders, p \in Products : AllocateLine(s, o, p)
             \/ \E o \in Orders : PlanTask(s, o)
             \/ CommitProcess(s)
      PROVE  SessionsInv'
  BY <1>2, ApprovalBegins, ReceiptBegins, ReceiptStep, OrdersSelected, StockSelected,
     ReservationsSelected, LineAllocated, TaskPlanned, ProcessCommits
<1>3. ASSUME NEW s \in Sessions,
             \/ \E o \in Orders : \E i \in DOMAIN tasks[o] :
                  AdvanceOpenTask(s, o, i) \/ BeginLastAdvance(s, o, i)
             \/ ReadSiblings(s)
             \/ CommitAdvance(s)
             \/ \E o \in Orders : BeginCancellation(s, o)
             \/ StopTasks(s)
             \/ \E p \in Products : ReadCounter(s, p) \/ ReleaseLine(s, p)
             \/ CommitCancellation(s)
             \/ RollBack(s)
      PROVE  SessionsInv'
  BY <1>3, OpenTaskAdvanced, AdvanceBegins, SiblingsRead, AdvanceCommits, CancellationBegins,
     TasksStopped, CounterRead, LineReleased, CancellationCommits, RolledBack
<1> QED
  BY <1>1, <1>2, <1>3 DEF SessionNext

\* The invariant holds in every reachable state of the sessions.
THEOREM SessionsInvariant == SessionSpec => []SessionsInv
BY SessionsStart, SessionsStep, PTL DEF SessionSpec

-----------------------------------------------------------------------------
\* Every row, cache and lock keeps its type: in particular no session that
\* writes counters as values ever writes a negative one, and an idle session
\* holds no lock.
THEOREM SessionTypesCorrect == SessionSpec => []SessionTypeOK
<1>1. ASSUME SessionsInv PROVE SessionTypeOK
  <2>1. TypeOK /\ step \in [Sessions -> Steps] /\ alone \in SUBSET Sessions
    BY <1>1 DEF SessionsInv, SessionTypes
  <2>2. ASSUME NEW s \in Sessions
        PROVE  /\ cache[s] \in Cache
               /\ step[s] = "idle" => holds[s] = {} /\ job[s] = NoJob
    BY <1>1, SessionFacts DEF JobInv
  <2> QED
    BY <2>1, <2>2 DEF SessionTypeOK, Cache
<1> QED
  BY <1>1, SessionsInvariant, PTL

\* However sessions overlap, no line is reserved or put into tasks beyond
\* what was ordered.
THEOREM SessionLinesCorrect == SessionSpec => []LinesNotExceeded
<1>1. SessionsInv => LinesNotExceeded
  BY DEF SessionsInv, OrderInv, LinesNotExceeded
<1> QED
  BY <1>1, SessionsInvariant, PTL

\* An order that the Boss withholds until it is complete has no task or tasks
\* for the whole of it, even when receipts and approvals plan at once.
THEOREM SessionWithheldCorrect == SessionSpec => []WithheldShipsWhole
<1>1. SessionsInv => WithheldShipsWhole
  BY DEF SessionsInv, OrderInv, WithheldShipsWhole
<1> QED
  BY <1>1, SessionsInvariant, PTL

\* The warehouse only works on approved orders, even when a cancellation
\* overlaps an advance.
THEOREM SessionOpenTasksCorrect == SessionSpec => []OpenTaskMeansApproved
<1>1. SessionsInv => OpenTaskMeansApproved
  BY DEF SessionsInv, OrderInv, OpenTaskMeansApproved
<1> QED
  BY <1>1, SessionsInvariant, PTL

\* An order that is marked ready by an UPDATE that does not look at its tasks
\* again is complete all the same.
THEOREM SessionReadyCorrect == SessionSpec => []ReadyMeansComplete
<1>1. SessionsInv => ReadyMeansComplete
  BY DEF SessionsInv, OrderInv, ReadyMeansComplete
<1> QED
  BY <1>1, SessionsInvariant, PTL

-----------------------------------------------------------------------------
\* What a session that is not a cancellation may wait for, and what it holds.
LEMMA AwaitFacts ==
  ASSUME SessionsInv, NEW s \in Sessions, job[s].op # "cancel",
         NEW row \in Awaits(s)
  PROVE  /\ \E o \in Orders : row = OrderRow(o)
         /\ step[s] = "mark" => holds[s] = {TaskRow(job[s].order, job[s].task)}
         /\ step[s] = "mark" \/ (step[s] = "allocate" /\ Automatic(s))
         /\ step[s] = "allocate" => \E o \in OrdersLeft(s) : row = OrderRow(o)
<1>1. step[s] # "stop"
  BY StepJobs
<1>2. /\ step[s] = "mark" => job[s].op = "advance" /\ job[s].order \in Orders
      /\ step[s] = "allocate" => Automatic(s)
      /\ JobInv(s) /\ OrdersLeft(s) \subseteq Orders
  BY SessionFacts, StepJobs, CacheFields DEF OrdersLeft
<1>3. CASE step[s] = "mark"
  BY <1>2, <1>3 DEF Awaits, JobInv
<1>4. CASE step[s] = "allocate"
  BY <1>2, <1>4 DEF Awaits
<1> QED
  BY <1>1, <1>3, <1>4 DEF Awaits

\* An order that one automation waits for and another has locked: the other
\* has been through it, and nobody is approving it.
LEMMA AwaitedOrder ==
  ASSUME SessionsInv, NEW s \in Sessions, NEW t \in Sessions \ {s},
         Automatic(s), Automatic(t), NEW o \in OrdersLeft(s), OrderRow(o) \in holds[t]
  PROVE  /\ o \in Orders /\ o \in cache[t].looked
         /\ ApprovedIn(s)[o] = approvedAt[o] /\ ApprovedIn(t)[o] = approvedAt[o]
<1>1. /\ o \in cache[s].queue /\ o \in Orders
  BY SessionFacts, CacheFields DEF OrdersLeft
<1>2. Decides(s, o) \/ status[o] # "pending_approval"
  BY <1>1, SessionFacts DEF QueueInv
<1>3. ~Decides(s, o)
  <2>1. Decides(s, o) => OrderRow(o) \in holds[s]
    BY SessionFacts DEF Decides, JobInv
  <2> QED
    BY <2>1, NotShared
<1>4. ~Decides(t, o)
  <2>1. Decides(t, o) => status[o] = "pending_approval"
    BY SessionFacts DEF Decides, JobInv
  <2> QED
    BY <1>2, <1>3, <2>1
<1>5. o \in cache[t].looked
  <2>1. OrderRow(o) \in {StockRow(p) : p \in Products}
          \cup {OrderRow(a) : a \in {b \in Orders : b \in cache[t].looked \/ Decides(t, b)}}
    BY SessionFacts DEF QueueInv
  <2> QED
    BY <1>4, <2>1, RowsDiffer
<1> QED
  BY <1>1, <1>3, <1>4, <1>5 DEF ApprovedIn

\* Two requests never wait for each other's order and task rows, unless one
\* of them is a cancellation: a worker about to mark an order holds a task
\* that only cancellations wait for, and automations lock the orders in the
\* order of their approvals.
THEOREM DeadlockCorrect == SessionSpec => []OnlyCancellationDeadlocks
<1>1. ASSUME SessionsInv PROVE OnlyCancellationDeadlocks
  <2>1. SUFFICES ASSUME NEW s \in Sessions, NEW t \in Sessions \ {s},
                        NEW r1 \in Awaits(s), r1 \in holds[t],
                        NEW r2 \in Awaits(t), r2 \in holds[s],
                        job[s].op # "cancel", job[t].op # "cancel"
                 PROVE  FALSE
    BY DEF OnlyCancellationDeadlocks
  <2>2. /\ step[s] = "allocate" /\ Automatic(s)
        /\ \E o \in OrdersLeft(s) : r1 = OrderRow(o)
    <3>1. \E o \in Orders : r2 = OrderRow(o)
      BY <1>1, <2>1, AwaitFacts
    <3>2. step[s] # "mark"
      BY <1>1, <2>1, <3>1, AwaitFacts, RowsDiffer
    <3> QED
      BY <1>1, <2>1, <3>2, AwaitFacts
  <2>3. /\ step[t] = "allocate" /\ Automatic(t)
        /\ \E o \in OrdersLeft(t) : r2 = OrderRow(o)
    <3>1. \E o \in Orders : r1 = OrderRow(o)
      BY <1>1, <2>1, AwaitFacts
    <3>2. step[t] # "mark"
      BY <1>1, <2>1, <3>1, AwaitFacts, RowsDiffer
    <3> QED
      BY <1>1, <2>1, <3>2, AwaitFacts
  <2>4. PICK a \in OrdersLeft(s) : r1 = OrderRow(a)
    BY <2>2
  <2>5. PICK b \in OrdersLeft(t) : r2 = OrderRow(b)
    BY <2>3
  <2>6. /\ a \in Orders /\ a \in cache[t].looked
        /\ ApprovedIn(s)[a] = approvedAt[a] /\ ApprovedIn(t)[a] = approvedAt[a]
    BY <1>1, <2>1, <2>2, <2>3, <2>4, AwaitedOrder
  <2>7. /\ b \in Orders /\ b \in cache[s].looked
        /\ ApprovedIn(s)[b] = approvedAt[b] /\ ApprovedIn(t)[b] = approvedAt[b]
    BY <1>1, <2>1, <2>2, <2>3, <2>5, AwaitedOrder
  <2>8. Before(ApprovedIn(s), b, a) /\ Before(ApprovedIn(t), a, b)
    BY <1>1, <2>4, <2>5, <2>6, <2>7, SessionFacts DEF QueueInv
  <2>9. /\ a \in Nat /\ b \in Nat /\ approvedAt[a] \in Nat /\ approvedAt[b] \in Nat
    BY <1>1, <2>6, <2>7, OrdersAssumption, SessionFacts DEF TypeOK
  <2> QED
    BY <2>6, <2>7, <2>8, <2>9 DEF Before
<1> QED
  BY <1>1, SessionsInvariant, PTL

-----------------------------------------------------------------------------
\* A step of any session leaves the cancelled orders alone.
LEMMA CancelledStays ==
  ASSUME SessionsInv, [SessionNext]_allVars, NEW o \in Orders, status[o] = "cancelled"
  PROVE  status'[o] = "cancelled" /\ tasks'[o] = tasks[o]
<1>1. OrderInv(o) /\ TypeOK
  BY DEF SessionsInv, SessionTypes
<1>2. CASE UNCHANGED vars
  BY <1>2 DEF vars
<1>3. ASSUME NEW s \in Sessions, CommitProcess(s)
      PROVE  status'[o] = "cancelled" /\ tasks'[o] = tasks[o]
  <2>1. StatusIn(s)[o] = "cancelled"
    <3>1. job[s].op = "approve" => status[job[s].order] = "pending_approval"
      BY SessionFacts DEF JobInv
    <3> QED
      BY <3>1 DEF StatusIn, Decides
  <2>2. cache[s].new[o] = Nothing
    BY <2>1, SessionFacts DEF PlanInv
  <2> QED
    BY <1>3, <2>1, <2>2 DEF CommitProcess
<1>4. ASSUME NEW s \in Sessions, NEW a \in Orders, NEW i \in DOMAIN tasks[a],
             AdvanceOpenTask(s, a, i)
      PROVE  status'[o] = "cancelled" /\ tasks'[o] = tasks[o]
  <2>1. status[a] = "approved"
    BY <1>4 DEF AdvanceOpenTask, SessionsInv, OrderInv
  <2> QED
    BY <1>1, <1>4, <2>1 DEF AdvanceOpenTask, TypeOK
<1>5. ASSUME NEW s \in Sessions, CommitAdvance(s)
      PROVE  status'[o] = "cancelled" /\ tasks'[o] = tasks[o]
  <2>1. PICK a \in Orders : a = job[s].order /\ status[a] = "approved"
    <3>1. job[s].op = "advance" /\ job[s].order \in Orders
      BY <1>5, StepJobs DEF CommitAdvance
    <3>2. OrderInv(job[s].order) /\ JobInv(s)
      BY <3>1, SessionFacts DEF SessionsInv
    <3> QED
      BY <3>1, <3>2 DEF JobInv, OrderInv, OpenStatus, NextStatus
  <2> QED
    BY <1>1, <1>5, <2>1 DEF CommitAdvance, TasksIn, TypeOK
<1>6. ASSUME NEW s \in Sessions, CommitCancellation(s)
      PROVE  status'[o] = "cancelled" /\ tasks'[o] = tasks[o]
  <2>1. PICK a \in Orders : a = job[s].order
    BY <1>6, StepJobs DEF CommitCancellation
  <2>2. CancelTasks(a) /\ status' = [status EXCEPT ![a] = "cancelled"]
    BY <1>6, <2>1 DEF CommitCancellation, CancelStatus
  <2>3. CASE a # o
    BY <1>1, <2>2, <2>3 DEF CancelTasks, TypeOK
  <2>4. CASE a = o
    <3> DEFINE old == tasks[o]
               ts == [i \in DOMAIN old |-> [old[i] EXCEPT !.status = "cancelled"]]
    <3>1. status'[o] = "cancelled" /\ tasks'[o] = ts
      BY <1>1, <2>2, <2>4 DEF CancelTasks, TypeOK
    <3>2. old \in Seq(Task) /\ \A i \in DOMAIN old : old[i].status = "cancelled"
      BY <1>1 DEF OrderInv, TypeOK
    <3>3. ASSUME NEW i \in DOMAIN old PROVE [old[i] EXCEPT !.status = "cancelled"] = old[i]
      <4>1. old[i] \in Task
        BY <3>2
      <4> QED
        BY <3>2, <4>1 DEF Task
    <3>4. ts = [i \in DOMAIN old |-> old[i]]
      BY <3>3
    <3>5. [i \in DOMAIN old |-> old[i]] = old
      BY <3>2
    <3> QED
      BY <3>1, <3>4, <3>5
  <2> QED
    BY <2>3, <2>4
<1>7. ASSUME NEW s \in Sessions,
             \/ \E a \in Orders, allowPartial \in BOOLEAN, now \in 0..MaxTime :
                  BeginApproval(s, a, allowPartial, now)
             \/ \E p \in Products, quantity \in 1..MaxReceipt : BeginReceipt(s, p, quantity)
             \/ Receive(s) \/ SelectOrders(s) \/ SelectStock(s) \/ SelectReservations(s)
             \/ \E a \in Orders, p \in Products : AllocateLine(s, a, p)
             \/ \E a \in Orders : PlanTask(s, a)
      PROVE  UNCHANGED vars
  <2>1. CASE \/ \E a \in Orders, allowPartial \in BOOLEAN, now \in 0..MaxTime :
                  BeginApproval(s, a, allowPartial, now)
             \/ \E p \in Products, quantity \in 1..MaxReceipt : BeginReceipt(s, p, quantity)
    BY <2>1 DEF BeginApproval, BeginReceipt
  <2>2. CASE Receive(s) \/ SelectOrders(s) \/ SelectStock(s) \/ SelectReservations(s)
    BY <2>2 DEF Receive, SelectOrders, SelectStock, SelectReservations
  <2>3. CASE \E a \in Orders, p \in Products : AllocateLine(s, a, p)
    BY <2>3 DEF AllocateLine
  <2>4. CASE \E a \in Orders : PlanTask(s, a)
    BY <2>4 DEF PlanTask
  <2> QED
    BY <1>7, <2>1, <2>2, <2>3, <2>4
<1>8. ASSUME NEW s \in Sessions,
             \/ \E a \in Orders : \E i \in DOMAIN tasks[a] : BeginLastAdvance(s, a, i)
             \/ ReadSiblings(s)
             \/ \E a \in Orders : BeginCancellation(s, a)
             \/ StopTasks(s)
             \/ \E p \in Products : ReadCounter(s, p) \/ ReleaseLine(s, p)
             \/ RollBack(s)
      PROVE  UNCHANGED vars
  BY <1>8 DEF BeginLastAdvance, ReadSiblings, BeginCancellation, StopTasks, ReadCounter,
     ReleaseLine, RollBack
<1>9. CASE UNCHANGED allVars
  BY <1>2, <1>9 DEF allVars
<1> QED
  BY <1>2, <1>3, <1>4, <1>5, <1>6, <1>7, <1>8, <1>9 DEF SessionNext

\* Once an order is cancelled, nothing that an overlapping session had read
\* or planned before changes its status or its tasks.
THEOREM SessionCancelledCorrect == SessionSpec => CancelledWorkIsFinal
<1>1. SessionsInv /\ [SessionNext]_allVars =>
        [\A o \in Orders :
           status[o] = "cancelled" =>
             status'[o] = "cancelled" /\ tasks'[o] = tasks[o]]_allVars
  BY CancelledStays
<1> QED
  BY <1>1, SessionsInvariant, PTL DEF SessionSpec, CancelledWorkIsFinal

-----------------------------------------------------------------------------
\* No other session has a request.
Sole(s) == step[s] # "idle" /\ \A t \in Sessions \ {s} : step[t] = "idle"

\* The approved orders as s sees them, and the stock once s has received its.
Queue(s) == {o \in Orders : StatusIn(s)[o] = "approved"}
Stocked(s, p) == IF job[s].op = "stock" /\ job[s].product = p
                   THEN onHand[p] + job[s].quantity ELSE onHand[p]
FreeUnits(s, p) == Stocked(s, p) - reserved[p]

\* What the automation is to give the line of p, and the orders whose line of
\* p the loop of s has been through.
Given(s, o, p) == Grant(Wanted(p), FreeUnits(s, p), Queue(s), ApprovedIn(s), o)
ServedBy(s, p) == {o \in Orders : <<o, p>> \in cache[s].served}

\* What s was asked to do, and the stock row that a receipt starts from.
AloneJob(s) ==
  /\ job[s].op = "approve" => job[s].at \in 0..MaxTime
  /\ job[s].op = "stock" =>
       LET p == job[s].product
       IN  /\ job[s].quantity \in 1..MaxReceipt
           /\ cache[s].onHand[p] = IF step[s] = "receive" THEN onHand[p] ELSE Stocked(s, p)
           /\ step[s] # "receive" => Stocked(s, p) <= MaxStock
           /\ step[s] # "allocate" => cache[s].reserved[p] = reserved[p]

\* What the selects of the automation have found: the committed rows.
AloneSelects(s) ==
  Automatic(s) =>
    /\ step[s] # "allocate" => cache[s].served = {} /\ cache[s].rows = {}
    /\ step[s] \in {"stock", "reservations", "allocate"} => cache[s].queue = Queue(s)
    /\ step[s] \in {"reservations", "allocate"} =>
         \A p \in Products : cache[s].onHand[p] = Stocked(s, p)
    /\ step[s] = "reservations" =>
         \A p \in Products : cache[s].reserved[p] = reserved[p]

\* The loop has given every line it has been through what Grant says.
AloneLines(s) ==
  step[s] = "allocate" =>
    /\ cache[s].served \subseteq Queue(s) \X Products
    /\ \A a, b \in Queue(s), p \in Products :
         Before(ApprovedIn(s), a, b) /\ <<b, p>> \in cache[s].served =>
           <<a, p>> \in cache[s].served \/ Wanted(p)[a] = 0
    /\ \A o \in Orders, p \in Products :
         /\ cache[s].reservation[o][p] =
              reservation[o][p] + IF <<o, p>> \in cache[s].served THEN Given(s, o, p) ELSE 0
         /\ <<o, p>> \notin cache[s].rows => cache[s].reservation[o][p] = reservation[o][p]
    /\ \A p \in Products :
         /\ cache[s].reserved[p] =
              reserved[p] + AtMost(FreeUnits(s, p), Total(Wanted(p), ServedBy(s, p)))
         /\ (\A o \in Orders : <<o, p>> \notin cache[s].rows) =>
              cache[s].reserved[p] = reserved[p]

\* The tasks that s has planned, each from the reservation rows it left.
AlonePlans(s) ==
  Automatic(s) =>
    /\ \A o \in Orders :
         cache[s].new[o] = IF o \in cache[s].looked THEN UnplannedBy(s, o) ELSE Nothing
    /\ \A o \in cache[s].looked :
         \/ PartialIn(s)[o]
         \/ \A p \in Products : cache[s].reservation[o][p] = line[o][p]

\* A worker only leaves the order as it is when it is not complete.
AloneMark(s) ==
  step[s] = "commit" /\ job[s].op = "advance" =>
    ~CompleteIn(s, job[s].order) \/ status[job[s].order] = "ready_to_ship"

\* The reservations of a cancelled order, those released and those to come.
AloneRelease(s) ==
  job[s].op = "cancel" =>
    LET o == job[s].order
        c == cache[s]
    IN  /\ c.rows \subseteq {o} \X Products
        /\ step[s] = "stop" => c.rows = {}
        /\ \A p \in Products :
             IF <<o, p>> \in c.rows
               THEN /\ c.reservation[o][p] = 0
                    /\ reserved[p] >= reservation[o][p]
                    /\ c.reserved[p] = reserved[p] - reservation[o][p]
               ELSE c.reservation[o][p] = reservation[o][p]
        /\ step[s] = "release" =>
             \E p \in Products : /\ c.served = {<<o, p>>} /\ <<o, p>> \notin c.rows
                                 /\ c.reserved[p] = reserved[p]

\* What a session that no other overlaps knows of the committed rows.
AloneFacts(s) ==
  /\ Sole(s)
  /\ AloneJob(s) /\ AloneSelects(s) /\ AloneLines(s) /\ AlonePlans(s)
  /\ AloneMark(s) /\ AloneRelease(s)

AloneInv == \A s \in alone : AloneFacts(s)

-----------------------------------------------------------------------------
\* All that is granted is what there is, or what is wanted if that is less.
LEMMA GrantsTotal ==
  ASSUME NEW Q \in SUBSET Nat, IsFiniteSet(Q), NEW at, \A x \in Q : at[x] \in Nat,
         NEW want, \A x \in Q : want[x] \in Nat, NEW avail \in Nat,
         NEW got, \A o \in Q : got[o] = Grant(want, avail, Q, at, o)
  PROVE  Total(got, Q) = AtMost(avail, Total(want, Q))
<1>1. \A o \in Q : got[o] \in Nat /\ want[o] \in Nat /\ got[o] <= want[o]
  BY GrantType
<1> DEFINE rest == [o \in Q |-> want[o] - got[o]]
<1>2. \A o \in Q : rest[o] \in Nat /\ want[o] = got[o] + rest[o]
  BY <1>1
<1> HIDE DEF rest
<1>3. Total(want, Q) = Total(got, Q) + Total(rest, Q)
  BY <1>1, <1>2, TotalSum
<1>4. /\ Total(got, Q) \in Nat /\ Total(rest, Q) \in Nat /\ Total(want, Q) \in Nat
  BY <1>1, <1>2, TotalType
<1>5. Total(got, Q) <= avail
  BY GrantsWithinStock
<1>6. CASE Total(got, Q) = avail
  BY <1>3, <1>4, <1>6 DEF AtMost
<1>7. CASE \A o \in Q : got[o] = want[o]
  <2>1. Total(got, Q) = Total(want, Q)
    BY <1>7, TotalEqual
  <2> QED
    BY <1>4, <1>5, <2>1 DEF AtMost
<1> QED
  BY <1>6, <1>7, GrantsUseStock

\* Those that want nothing add nothing to a total.
LEMMA TotalWanted ==
  ASSUME NEW A, IsFiniteSet(A), NEW D \in SUBSET A, NEW want,
         \A x \in A : want[x] \in Nat, \A x \in A \ D : want[x] = 0
  PROVE  Total(want, A) = Total(want, D)
<1>1. IsFiniteSet(D) /\ IsFiniteSet(A \ D)
  BY FS_Subset
<1>2. A = D \cup (A \ D) /\ D \cap (A \ D) = {}
  OBVIOUS
<1>3. \A x \in D \cup (A \ D) : want[x] \in Nat
  BY <1>2
<1>4. Total(want, A) = Total(want, D) + Total(want, A \ D)
  <2>1. Total(want, D \cup (A \ D)) = Total(want, D) + Total(want, A \ D)
    BY <1>1, <1>2, <1>3, TotalUnion
  <2> QED
    BY <1>2, <2>1, Zenon
<1>5. Total(want, A \ D) = 0
  BY TotalZeros
<1>6. Total(want, D) \in Nat
  BY <1>1, <1>3, TotalType
<1> QED
  BY <1>4, <1>5, <1>6

\* The next order of the walk gets what it wants of what those before it have
\* left.
LEMMA GrantNext ==
  ASSUME NEW Q \in SUBSET Nat, IsFiniteSet(Q), NEW at, NEW want, \A x \in Q : want[x] \in Nat,
         NEW avail \in Nat, NEW o \in Q, NEW D \in SUBSET Q, o \notin D,
         Total(want, AheadOf(Q, at, o)) = Total(want, D)
  PROVE  /\ AtMost(avail, Total(want, D)) \in Nat
         /\ AtMost(avail, Total(want, D)) <= avail
         /\ Grant(want, avail, Q, at, o) \in Nat
         /\ Grant(want, avail, Q, at, o) = AtMost(want[o], avail - AtMost(avail, Total(want, D)))
         /\ AtMost(avail, Total(want, D \cup {o}))
              = AtMost(avail, Total(want, D)) + Grant(want, avail, Q, at, o)
<1> DEFINE w == want[o]
           t == Total(want, D)
<1>1. IsFiniteSet(D) /\ \A x \in D \cup {o} : want[x] \in Nat
  BY FS_Subset
<1>2. t \in Nat /\ w \in Nat
  BY <1>1, TotalType
<1>3. Total(want, D \cup {o}) = t + w
  BY <1>1, TotalAdd
<1>4. Grant(want, avail, Q, at, o) = AtMost(w, Beyond(avail, t))
  BY DEF Grant
<1> HIDE DEF t, w
<1> QED
  BY <1>2, <1>3, <1>4 DEF AtMost, Beyond, t, w

-----------------------------------------------------------------------------
\* What the loops of the automation compute with.
LEMMA AloneInputs ==
  ASSUME SessionsInv, NEW s \in Sessions, AloneJob(s), NEW p \in Products
  PROVE  /\ Queue(s) \in SUBSET Nat /\ IsFiniteSet(Queue(s)) /\ Queue(s) \subseteq Orders
         /\ \A o \in Orders : ApprovedIn(s)[o] \in Nat
         /\ \A o \in Orders : /\ Wanted(p)[o] = line[o][p] - reservation[o][p]
                              /\ Wanted(p)[o] \in Nat
                              /\ line[o][p] \in Nat /\ reservation[o][p] \in Nat
         /\ Stocked(s, p) \in Nat /\ onHand[p] <= Stocked(s, p)
         /\ reserved[p] \in Nat /\ onHand[p] \in Nat
         /\ FreeUnits(s, p) \in Nat
<1>1. SessionTypes /\ TypeOK /\ job[s] \in Jobs
  BY SessionFacts
<1>2. Queue(s) \in SUBSET Nat /\ IsFiniteSet(Queue(s)) /\ Queue(s) \subseteq Orders
  <2>1. Queue(s) \subseteq Orders
    BY DEF Queue
  <2> QED
    BY <2>1, OrdersAssumption, FS_Subset
<1>3. ASSUME NEW o \in Orders PROVE ApprovedIn(s)[o] \in Nat
  <2>1. Decides(s, o) => job[s].at \in Nat
    BY <1>1, JobFields DEF Decides
  <2> QED
    BY <1>1, <2>1 DEF ApprovedIn, TypeOK
<1>4. ASSUME NEW o \in Orders
      PROVE  /\ Wanted(p)[o] = line[o][p] - reservation[o][p]
             /\ Wanted(p)[o] \in Nat
             /\ line[o][p] \in Nat /\ reservation[o][p] \in Nat
  <2>1. line[o][p] \in Nat /\ reservation[o][p] \in Nat
    BY <1>1 DEF TypeOK
  <2>2. reservation[o][p] <= line[o][p]
    BY DEF SessionsInv, OrderInv
  <2> QED
    BY <2>1, <2>2 DEF Wanted
<1>5. reserved[p] \in Nat /\ onHand[p] \in Nat /\ reserved[p] <= onHand[p]
  BY <1>1 DEF TypeOK, SessionsInv, CountersFit
<1>6. Stocked(s, p) \in Nat /\ onHand[p] <= Stocked(s, p)
  <2>1. job[s].op = "stock" => job[s].quantity \in Nat
    BY <1>1, JobFields
  <2> QED
    BY <1>5, <2>1 DEF Stocked
<1>7. FreeUnits(s, p) \in Nat
  BY <1>5, <1>6 DEF FreeUnits
<1> QED
  BY <1>2, <1>3, <1>4, <1>5, <1>6, <1>7

\* What a session computes from the committed rows stays the same while they
\* and its job do.
LEMMA SameReads ==
  ASSUME NEW s \in Sessions, UNCHANGED vars, job' = job
  PROVE  /\ StatusIn(s)' = StatusIn(s) /\ PartialIn(s)' = PartialIn(s)
         /\ ApprovedIn(s)' = ApprovedIn(s) /\ Queue(s)' = Queue(s)
         /\ Automatic(s)' <=> Automatic(s)
         /\ \A p \in Products : /\ Stocked(s, p)' = Stocked(s, p)
                                /\ FreeUnits(s, p)' = FreeUnits(s, p)
                                /\ Wanted(p)' = Wanted(p)
         /\ \A o \in Orders, p \in Products : /\ Given(s, o, p)' = Given(s, o, p)
                                              /\ Planned(o, p)' = Planned(o, p)
<1>1. /\ StatusIn(s)' = StatusIn(s) /\ PartialIn(s)' = PartialIn(s)
      /\ ApprovedIn(s)' = ApprovedIn(s)
      /\ Automatic(s)' <=> Automatic(s)
  BY DEF vars, StatusIn, PartialIn, ApprovedIn, Decides, Automatic
<1>2. Queue(s)' = Queue(s)
  BY <1>1 DEF Queue
<1>3. \A p \in Products : /\ Stocked(s, p)' = Stocked(s, p)
                          /\ FreeUnits(s, p)' = FreeUnits(s, p)
                          /\ Wanted(p)' = Wanted(p)
  BY DEF vars, Stocked, FreeUnits, Wanted
<1>4. \A o \in Orders, p \in Products : Given(s, o, p)' = Given(s, o, p)
  BY <1>1, <1>2, <1>3 DEF Given
<1>5. \A o \in Orders, p \in Products : Planned(o, p)' = Planned(o, p)
  BY DEF vars, Planned
<1> QED
  BY <1>1, <1>2, <1>3, <1>4, <1>5

-----------------------------------------------------------------------------
\* When s goes on, the others are still idle.
LEMMA SoleGoesOn ==
  ASSUME NEW s \in Sessions, Sole(s), step'[s] # "idle",
         \A t \in Sessions \ {s} : step'[t] = step[t]
  PROVE  Sole(s)'
BY DEF Sole

\* An approval that begins while all are idle.
LEMMA AloneApproval ==
  ASSUME SessionsInv, NEW s \in Sessions, NEW o \in Orders,
         NEW allowPartial \in BOOLEAN, NEW now \in 0..MaxTime,
         BeginApproval(s, o, allowPartial, now), \A t \in Sessions : step[t] = "idle"
  PROVE  AloneFacts(s)'
<1> DEFINE j == Approve(o, allowPartial, now)
<1>1. /\ j \in Jobs /\ j.op = "approve" /\ j.at = now
      /\ {OrderRow(o)} \in SUBSET Rows /\ "orders" \in Steps
  BY BoundsAssumption DEF Approve, Jobs, Rows, Steps
<1> HIDE DEF j
<1>2. Begin(s, j, "orders", {OrderRow(o)}) /\ cache' = cache
  BY DEF BeginApproval, j
<1>3. /\ step'[s] = "orders" /\ job'[s] = j /\ cache'[s] = NoCache
      /\ \A t \in Sessions \ {s} : step'[t] = step[t]
  BY <1>1, <1>2, BeginFacts
<1>4. Sole(s)'
  BY <1>3 DEF Sole
<1>5. AloneJob(s)'
  BY <1>1, <1>3 DEF AloneJob
<1>6. AloneSelects(s)' /\ AloneLines(s)'
  BY <1>3, EmptyCache DEF AloneSelects, AloneLines
<1>7. AlonePlans(s)'
  BY <1>3, EmptyCache DEF AlonePlans
<1>8. AloneMark(s)' /\ AloneRelease(s)'
  BY <1>1, <1>3 DEF AloneMark, AloneRelease
<1> QED
  BY <1>4, <1>5, <1>6, <1>7, <1>8 DEF AloneFacts

\* A receipt that begins while all are idle.
LEMMA AloneReceipt ==
  ASSUME SessionsInv, NEW s \in Sessions, NEW p \in Products,
         NEW quantity \in 1..MaxReceipt, BeginReceipt(s, p, quantity),
         \A t \in Sessions : step[t] = "idle"
  PROVE  AloneFacts(s)'
<1> DEFINE j == Stock(p, quantity)
<1>1. /\ j \in Jobs /\ j.op = "stock" /\ j.product = p /\ j.quantity = quantity
      /\ "receive" \in Steps
  BY BoundsAssumption DEF Stock, Jobs, Steps
<1> HIDE DEF j
<1>2. /\ Begin(s, j, "receive", {}) /\ UNCHANGED vars
      /\ cache' = [cache EXCEPT ![s].onHand[p] = onHand[p],
                                ![s].reserved[p] = reserved[p]]
  BY DEF BeginReceipt, j
<1>3. /\ step'[s] = "receive" /\ job'[s] = j /\ cache[s] = NoCache
      /\ \A t \in Sessions \ {s} : step'[t] = step[t]
  BY <1>1, <1>2, BeginFacts
<1>4. /\ cache'[s].onHand[p] = onHand[p] /\ cache'[s].reserved[p] = reserved[p]
      /\ cache'[s].served = {} /\ cache'[s].rows = {} /\ cache'[s].looked = {}
      /\ \A o \in Orders : cache'[s].new[o] = Nothing
  <2>1. cache \in [Sessions -> Cache]
    BY SessionFacts DEF SessionTypes
  <2>2. /\ cache'[s].onHand[p] = onHand[p] /\ cache'[s].reserved[p] = reserved[p]
        /\ cache'[s].served = cache[s].served /\ cache'[s].rows = cache[s].rows
        /\ cache'[s].looked = cache[s].looked /\ cache'[s].new = cache[s].new
    BY <1>2, <2>1 DEF Cache
  <2> QED
    BY <1>3, <2>2, EmptyCache
<1>5. Sole(s)'
  BY <1>3 DEF Sole
<1>6. AloneJob(s)'
  BY <1>1, <1>2, <1>3, <1>4 DEF AloneJob, vars
<1>7. AloneSelects(s)' /\ AloneLines(s)'
  BY <1>3, <1>4 DEF AloneSelects, AloneLines
<1>8. AlonePlans(s)'
  BY <1>4 DEF AlonePlans
<1>9. AloneMark(s)' /\ AloneRelease(s)'
  BY <1>1, <1>3 DEF AloneMark, AloneRelease
<1> QED
  BY <1>5, <1>6, <1>7, <1>8, <1>9 DEF AloneFacts

\* A worker's last advance that begins while all are idle.
LEMMA AloneAdvance ==
  ASSUME SessionsInv, NEW s \in Sessions, NEW o \in Orders, NEW i \in DOMAIN tasks[o],
         BeginLastAdvance(s, o, i), \A t \in Sessions : step[t] = "idle"
  PROVE  AloneFacts(s)'
<1> DEFINE j == Advance(o, i)
<1>1. i \in Nat
  BY SessionFacts DEF TypeOK
<1>2. /\ j \in Jobs /\ j.op = "advance"
      /\ {TaskRow(o, i)} \in SUBSET Rows /\ "siblings" \in Steps
  BY <1>1 DEF Advance, Jobs, Rows, Steps
<1> HIDE DEF j
<1>3. Begin(s, j, "siblings", {TaskRow(o, i)}) /\ cache' = cache
  BY DEF BeginLastAdvance, j
<1>4. /\ step'[s] = "siblings" /\ job'[s] = j
      /\ \A t \in Sessions \ {s} : step'[t] = step[t]
  BY <1>2, <1>3, BeginFacts
<1>5. Sole(s)'
  BY <1>4 DEF Sole
<1>6. /\ AloneJob(s)' /\ AloneSelects(s)' /\ AloneLines(s)' /\ AlonePlans(s)'
      /\ AloneMark(s)' /\ AloneRelease(s)'
  BY <1>2, <1>4 DEF AloneJob, AloneSelects, AloneLines, AlonePlans, AloneMark,
     AloneRelease, Automatic
<1> QED
  BY <1>5, <1>6 DEF AloneFacts

\* A cancellation that begins while all are idle.
LEMMA AloneCancellation ==
  ASSUME SessionsInv, NEW s \in Sessions, NEW o \in Orders,
         BeginCancellation(s, o), \A t \in Sessions : step[t] = "idle"
  PROVE  AloneFacts(s)'
<1> DEFINE j == Cancel(o)
<1>1. /\ j \in Jobs /\ j.op = "cancel" /\ j.order = o
      /\ {OrderRow(o)} \in SUBSET Rows /\ "stop" \in Steps
  BY DEF Cancel, Jobs, Rows, Steps
<1> HIDE DEF j
<1>2. /\ Begin(s, j, "stop", {OrderRow(o)}) /\ UNCHANGED vars
      /\ cache' = [cache EXCEPT ![s].reservation[o] = reservation[o]]
  BY DEF BeginCancellation, j
<1>3. /\ step'[s] = "stop" /\ job'[s] = j /\ cache[s] = NoCache
      /\ \A t \in Sessions \ {s} : step'[t] = step[t]
  BY <1>1, <1>2, BeginFacts
<1>4. cache'[s].reservation[o] = reservation[o] /\ cache'[s].rows = {}
  <2>1. cache \in [Sessions -> Cache]
    BY SessionFacts DEF SessionTypes
  <2>2. cache'[s].reservation[o] = reservation[o] /\ cache'[s].rows = cache[s].rows
    BY <1>2, <2>1 DEF Cache
  <2> QED
    BY <1>3, <2>2, EmptyCache
<1>5. Sole(s)'
  BY <1>3 DEF Sole
<1>6. /\ AloneJob(s)' /\ AloneSelects(s)' /\ AloneLines(s)' /\ AlonePlans(s)'
      /\ AloneMark(s)'
  BY <1>1, <1>3 DEF AloneJob, AloneSelects, AloneLines, AlonePlans, AloneMark, Automatic
<1>7. AloneRelease(s)'
  BY <1>1, <1>2, <1>3, <1>4 DEF AloneRelease, vars
<1> QED
  BY <1>5, <1>6, <1>7 DEF AloneFacts

-----------------------------------------------------------------------------
\* The receipt adds to the stock that is committed.
LEMMA AloneReceives ==
  ASSUME SessionsInv, NEW s \in Sessions, AloneFacts(s), Receive(s)
  PROVE  AloneFacts(s)'
<1> DEFINE p == job[s].product
<1>1. /\ cache \in [Sessions -> Cache] /\ step \in [Sessions -> Steps]
      /\ job[s].op = "stock" /\ p \in Products /\ step[s] = "receive"
      /\ cache[s].looked = {} /\ cache[s].onHand[p] \in Nat /\ job[s].quantity \in Nat
  BY SessionFacts, StepJobs, CacheFields DEF SessionTypes, Receive, QueueInv
<1>2. /\ cache' = [cache EXCEPT ![s].onHand[p] = cache[s].onHand[p] + job[s].quantity]
      /\ cache[s].onHand[p] + job[s].quantity <= MaxStock
      /\ Goto(s, "orders") /\ job' = job /\ UNCHANGED vars
  BY DEF Receive
<1>3. /\ step'[s] = "orders" /\ \A t \in Sessions \ {s} : step'[t] = step[t]
  BY <1>1, <1>2 DEF Goto
<1>4. /\ cache'[s].onHand[p] = cache[s].onHand[p] + job[s].quantity
      /\ cache'[s].reserved = cache[s].reserved
      /\ cache'[s].served = cache[s].served /\ cache'[s].rows = cache[s].rows
      /\ cache'[s].looked = cache[s].looked /\ cache'[s].new = cache[s].new
  BY <1>1, <1>2 DEF Cache
<1>5. AloneFacts(s)
  OBVIOUS
<1>6. Sole(s)'
  BY <1>3, <1>5, SoleGoesOn DEF AloneFacts
<1>7. AloneJob(s)'
  <2>1. cache'[s].onHand[p] = Stocked(s, p)'
    BY <1>1, <1>2, <1>4, <1>5 DEF AloneFacts, AloneJob, Stocked, vars
  <2> QED
    BY <1>1, <1>2, <1>3, <1>4, <1>5, <2>1 DEF AloneFacts, AloneJob, vars
<1>8. AloneSelects(s)' /\ AloneLines(s)' /\ AloneMark(s)'
  BY <1>1, <1>2, <1>3, <1>4, <1>5
     DEF AloneFacts, AloneSelects, AloneLines, AloneMark, Automatic
<1>9. AlonePlans(s)'
  BY <1>1, <1>2, <1>4, <1>5 DEF AloneFacts, AlonePlans, Automatic
<1>10. AloneRelease(s)'
  BY <1>1, <1>2 DEF AloneRelease
<1> QED
  BY <1>6, <1>7, <1>8, <1>9, <1>10 DEF AloneFacts

\* The automation selects the orders that are approved.
LEMMA AloneSelectsOrders ==
  ASSUME SessionsInv, NEW s \in Sessions, AloneFacts(s), SelectOrders(s)
  PROVE  AloneFacts(s)'
<1>1. /\ cache \in [Sessions -> Cache] /\ step \in [Sessions -> Steps]
      /\ Automatic(s) /\ step[s] = "orders" /\ cache[s].looked = {}
  BY SessionFacts, StepJobs DEF SessionTypes, SelectOrders, QueueInv
<1>2. /\ cache' = [cache EXCEPT ![s].queue = Queue(s)]
      /\ Goto(s, "stock") /\ job' = job /\ UNCHANGED vars
  BY DEF SelectOrders, Queue
<1>3. /\ step'[s] = "stock" /\ \A t \in Sessions \ {s} : step'[t] = step[t]
  BY <1>1, <1>2 DEF Goto
<1>4. /\ cache'[s].queue = Queue(s)
      /\ cache'[s].onHand = cache[s].onHand /\ cache'[s].reserved = cache[s].reserved
      /\ cache'[s].served = cache[s].served /\ cache'[s].rows = cache[s].rows
      /\ cache'[s].looked = cache[s].looked /\ cache'[s].new = cache[s].new
  BY <1>1, <1>2 DEF Cache
<1>5. AloneFacts(s) /\ Queue(s)' = Queue(s)
  BY <1>2, SameReads
<1>6. Sole(s)'
  BY <1>3, <1>5, SoleGoesOn DEF AloneFacts
<1>7. AloneJob(s)'
  BY <1>1, <1>2, <1>3, <1>4, <1>5 DEF AloneFacts, AloneJob, Stocked, vars
<1>8. AloneSelects(s)' /\ AloneLines(s)' /\ AloneMark(s)'
  BY <1>1, <1>2, <1>3, <1>4, <1>5
     DEF AloneFacts, AloneSelects, AloneLines, AloneMark, Automatic
<1>9. AlonePlans(s)'
  BY <1>1, <1>2, <1>4, <1>5 DEF AloneFacts, AlonePlans, Automatic
<1>10. AloneRelease(s)'
  BY <1>1, <1>2 DEF AloneRelease, Automatic
<1> QED
  BY <1>6, <1>7, <1>8, <1>9, <1>10 DEF AloneFacts

\* It selects the stock as it is committed, with what has been received.
LEMMA AloneSelectsStock ==
  ASSUME SessionsInv, NEW s \in Sessions, AloneFacts(s), SelectStock(s)
  PROVE  AloneFacts(s)'
<1> DEFINE Own(p) == job[s].op = "stock" /\ job[s].product = p
           stock == [p \in Products |-> IF Own(p) THEN cache[s].onHand[p] ELSE onHand[p]]
           taken == [p \in Products |-> IF Own(p) THEN cache[s].reserved[p] ELSE reserved[p]]
<1>1. /\ cache \in [Sessions -> Cache] /\ step \in [Sessions -> Steps]
      /\ Automatic(s) /\ step[s] = "stock" /\ cache[s].looked = {}
      /\ job[s].op = "stock" => job[s].product \in Products
  BY SessionFacts, StepJobs DEF SessionTypes, SelectStock, QueueInv
<1>2. /\ cache' = [cache EXCEPT ![s].onHand = stock, ![s].reserved = taken]
      /\ Goto(s, "reservations") /\ job' = job /\ UNCHANGED vars
  <2>1. cache' = [cache EXCEPT
                    ![s].onHand   = [p \in Products |-> IF Own(p) THEN @[p] ELSE onHand[p]],
                    ![s].reserved = [p \in Products |-> IF Own(p) THEN @[p] ELSE reserved[p]]]
    BY DEF SelectStock
  <2> QED
    BY <1>1, <2>1 DEF SelectStock, Cache
<1>3. /\ step'[s] = "reservations" /\ \A t \in Sessions \ {s} : step'[t] = step[t]
  BY <1>1, <1>2 DEF Goto
<1>4. AloneFacts(s)
  OBVIOUS
<1>5. \A p \in Products : stock[p] = Stocked(s, p) /\ taken[p] = reserved[p]
  BY <1>1, <1>4 DEF AloneFacts, AloneJob, Stocked
<1> HIDE DEF stock, taken
<1>6. /\ cache'[s].onHand = stock /\ cache'[s].reserved = taken
      /\ cache'[s].queue = cache[s].queue
      /\ cache'[s].served = cache[s].served /\ cache'[s].rows = cache[s].rows
      /\ cache'[s].looked = cache[s].looked /\ cache'[s].new = cache[s].new
  BY <1>1, <1>2 DEF Cache
<1>7. /\ Queue(s)' = Queue(s) /\ reserved' = reserved
      /\ \A p \in Products : Stocked(s, p)' = Stocked(s, p)
  BY <1>2, SameReads DEF vars
<1>8. Sole(s)'
  BY <1>3, <1>4, SoleGoesOn DEF AloneFacts
<1>9. AloneJob(s)'
  BY <1>1, <1>2, <1>3, <1>4, <1>5, <1>6, <1>7 DEF AloneFacts, AloneJob
<1>10. AloneSelects(s)' /\ AloneLines(s)' /\ AloneMark(s)'
  BY <1>1, <1>2, <1>3, <1>4, <1>5, <1>6, <1>7
     DEF AloneFacts, AloneSelects, AloneLines, AloneMark, Automatic
<1>11. AlonePlans(s)'
  BY <1>1, <1>2, <1>4, <1>6 DEF AloneFacts, AlonePlans, Automatic
<1>12. AloneRelease(s)'
  BY <1>1, <1>2 DEF AloneRelease, Automatic
<1> QED
  BY <1>8, <1>9, <1>10, <1>11, <1>12 DEF AloneFacts

\* It selects the reservations as they are committed, and has served no line.
LEMMA AloneSelectsReservations ==
  ASSUME SessionsInv, NEW s \in Sessions, AloneFacts(s), SelectReservations(s)
  PROVE  AloneFacts(s)'
<1>1. /\ cache \in [Sessions -> Cache] /\ step \in [Sessions -> Steps]
      /\ Automatic(s) /\ step[s] = "reservations" /\ cache[s].looked = {}
      /\ reservation \in [Orders -> [Products -> Nat]]
  BY SessionFacts, StepJobs DEF SessionTypes, TypeOK, SelectReservations, QueueInv
<1>2. /\ cache' = [cache EXCEPT ![s].reservation = reservation]
      /\ Goto(s, "allocate") /\ job' = job /\ UNCHANGED vars
  BY DEF SelectReservations
<1>3. /\ step'[s] = "allocate" /\ \A t \in Sessions \ {s} : step'[t] = step[t]
  BY <1>1, <1>2 DEF Goto
<1>4. /\ cache'[s].reservation = reservation
      /\ cache'[s].queue = cache[s].queue
      /\ cache'[s].onHand = cache[s].onHand /\ cache'[s].reserved = cache[s].reserved
      /\ cache'[s].served = cache[s].served /\ cache'[s].rows = cache[s].rows
      /\ cache'[s].looked = cache[s].looked /\ cache'[s].new = cache[s].new
  BY <1>1, <1>2 DEF Cache
<1>5. AloneFacts(s) /\ cache[s].served = {} /\ cache[s].rows = {}
  BY <1>1 DEF AloneFacts, AloneSelects
<1>6. /\ Queue(s)' = Queue(s) /\ reserved' = reserved /\ reservation' = reservation
      /\ \A p \in Products : Stocked(s, p)' = Stocked(s, p) /\ FreeUnits(s, p)' = FreeUnits(s, p)
  BY <1>2, SameReads DEF vars
<1>7. Sole(s)'
  BY <1>3, <1>5, SoleGoesOn DEF AloneFacts
<1>8. AloneJob(s)'
  BY <1>1, <1>2, <1>3, <1>4, <1>5, <1>6, StepJobs DEF AloneFacts, AloneJob
<1>9. AloneSelects(s)' /\ AloneMark(s)'
  BY <1>1, <1>2, <1>3, <1>4, <1>5, <1>6
     DEF AloneFacts, AloneSelects, AloneMark, Automatic
<1>10. AloneLines(s)'
  <2>1. ASSUME NEW p \in Products
        PROVE  /\ reserved[p] \in Nat
               /\ AtMost(FreeUnits(s, p)', Total(Wanted(p)', ServedBy(s, p)')) = 0
    <3>1. ServedBy(s, p)' = {}
      BY <1>4, <1>5 DEF ServedBy
    <3>2. FreeUnits(s, p) \in Nat /\ reserved[p] \in Nat
      BY <1>5, AloneInputs DEF AloneFacts
    <3>3. Total(Wanted(p)', ServedBy(s, p)') = 0
      BY <3>1, TotalEmpty
    <3> QED
      BY <1>6, <3>2, <3>3 DEF AtMost
  <2>2. \A p \in Products : cache[s].reserved[p] = reserved[p]
    BY <1>1, <1>5 DEF AloneFacts, AloneSelects
  <2>3. \A o \in Orders, p \in Products : reservation[o][p] \in Nat
    BY <1>1
  <2> QED
    BY <1>4, <1>5, <1>6, <2>1, <2>2, <2>3 DEF AloneLines
<1>11. AlonePlans(s)'
  BY <1>1, <1>2, <1>4, <1>5 DEF AloneFacts, AlonePlans, Automatic
<1>12. AloneRelease(s)'
  BY <1>1, <1>2 DEF AloneRelease, Automatic
<1> QED
  BY <1>7, <1>8, <1>9, <1>10, <1>11, <1>12 DEF AloneFacts

\* The cache of s once the line of o for p has been given taken units.
LineGets(s, o, p, taken) ==
  /\ cache'[s].queue = cache[s].queue /\ cache'[s].looked = cache[s].looked
  /\ cache'[s].new = cache[s].new /\ cache'[s].onHand = cache[s].onHand
  /\ cache'[s].served = cache[s].served \cup {<<o, p>>}
  /\ cache'[s].rows =
       IF taken = 0 THEN cache[s].rows ELSE cache[s].rows \cup {<<o, p>>}
  /\ \A q \in Products :
       cache'[s].reserved[q] = IF q = p THEN cache[s].reserved[q] + taken
                                        ELSE cache[s].reserved[q]
  /\ \A a \in Orders, q \in Products :
       cache'[s].reservation[a][q] =
         IF a = o /\ q = p THEN cache[s].reservation[a][q] + taken
                           ELSE cache[s].reservation[a][q]

\* That is what the step does, with what the line takes.
LEMMA LineEffect ==
  ASSUME SessionsInv, NEW s \in Sessions, NEW o \in Orders, NEW p \in Products,
         AllocateLine(s, o, p), NEW taken, taken = TakenBy(s, o, p)
  PROVE  LineGets(s, o, p, taken)
<1>1. /\ cache \in [Sessions -> Cache]
      /\ \A q \in Products : cache[s].reserved[q] \in Nat
      /\ \A a \in Orders, q \in Products : cache[s].reservation[a][q] \in Nat
  BY SessionFacts, CacheFields DEF SessionTypes
<1>2. /\ taken = 0 => cache' = [cache EXCEPT ![s].served = @ \cup {<<o, p>>}]
      /\ taken # 0 =>
           cache' = [cache EXCEPT ![s].served = @ \cup {<<o, p>>},
                                  ![s].rows = @ \cup {<<o, p>>},
                                  ![s].reserved[p] = @ + taken,
                                  ![s].reservation[o][p] = @ + taken]
  BY DEF AllocateLine
<1>3. CASE taken = 0
  <2>1. /\ cache'[s].queue = cache[s].queue /\ cache'[s].looked = cache[s].looked
        /\ cache'[s].new = cache[s].new /\ cache'[s].onHand = cache[s].onHand
        /\ cache'[s].served = cache[s].served \cup {<<o, p>>}
        /\ cache'[s].rows = cache[s].rows
        /\ cache'[s].reserved = cache[s].reserved
        /\ cache'[s].reservation = cache[s].reservation
    BY <1>1, <1>2, <1>3 DEF Cache
  <2>2. /\ \A q \in Products : cache[s].reserved[q] + taken = cache[s].reserved[q]
        /\ \A a \in Orders, q \in Products :
             cache[s].reservation[a][q] + taken = cache[s].reservation[a][q]
    BY <1>1, <1>3
  <2> QED
    BY <1>3, <2>1, <2>2 DEF LineGets
<1>4. CASE taken # 0
  BY <1>1, <1>2, <1>4 DEF Cache, LineGets
<1> QED
  BY <1>3, <1>4

\* A line takes what Grant says, out of what the lines before it have left.
LEMMA LineGranted ==
  ASSUME SessionsInv, NEW s \in Sessions, AloneFacts(s), NEW o \in Orders, NEW p \in Products,
         AllocateLine(s, o, p)
  PROVE  /\ o \in Queue(s) /\ <<o, p>> \notin cache[s].served
         /\ TakenBy(s, o, p) = Given(s, o, p) /\ Given(s, o, p) \in Nat
         /\ AtMost(FreeUnits(s, p), Total(Wanted(p), ServedBy(s, p) \cup {o})) =
              AtMost(FreeUnits(s, p), Total(Wanted(p), ServedBy(s, p))) + Given(s, o, p)
         /\ AtMost(FreeUnits(s, p), Total(Wanted(p), ServedBy(s, p))) \in Nat
         /\ \A a \in Queue(s) : Before(ApprovedIn(s), a, o) =>
              <<a, p>> \in cache[s].served \/ Wanted(p)[a] = 0
<1> DEFINE D == ServedBy(s, p)
           Q == Queue(s)
           at == ApprovedIn(s)
           want == Wanted(p)
<1>1. /\ step[s] = "allocate" /\ <<o, p>> \in LinesLeft(s)
      /\ \A l \in LinesLeft(s) : ~Before(at, l[1], o)
  BY DEF AllocateLine
<1>2. /\ Automatic(s) /\ AloneJob(s) /\ AloneSelects(s) /\ AloneLines(s)
  BY <1>1, StepJobs DEF AloneFacts
<1>3. /\ Q \in SUBSET Nat /\ IsFiniteSet(Q) /\ Q \subseteq Orders
      /\ \A a \in Orders : at[a] \in Nat
      /\ \A a \in Orders : /\ want[a] = line[a][p] - reservation[a][p] /\ want[a] \in Nat
                           /\ line[a][p] \in Nat /\ reservation[a][p] \in Nat
      /\ Stocked(s, p) \in Nat /\ reserved[p] \in Nat /\ FreeUnits(s, p) \in Nat
  BY <1>2, AloneInputs
<1>4. cache[s].queue = Q /\ cache[s].onHand[p] = Stocked(s, p)
  BY <1>1, <1>2 DEF AloneSelects
<1>5. /\ o \in Q /\ <<o, p>> \notin cache[s].served
      /\ cache[s].reservation[o][p] < line[o][p] /\ cache[s].onHand[p] > 0
  BY <1>1, <1>4 DEF LinesLeft
<1>6. \A a \in Orders : <<a, p>> \notin cache[s].served =>
        cache[s].reservation[a][p] = reservation[a][p]
  BY <1>1, <1>2, <1>3 DEF AloneLines
<1>7. want[o] > 0
  BY <1>3, <1>5, <1>6
<1>8. ASSUME NEW a \in Q, Before(at, a, o)
      PROVE  <<a, p>> \in cache[s].served \/ want[a] = 0
  <2>1. SUFFICES ASSUME <<a, p>> \notin cache[s].served PROVE want[a] = 0
    OBVIOUS
  <2>2. <<a, p>> \notin LinesLeft(s)
    BY <1>1, <1>8
  <2>3. ~(cache[s].reservation[a][p] < line[a][p])
    BY <1>4, <1>5, <2>1, <2>2 DEF LinesLeft
  <2> QED
    BY <1>3, <1>6, <2>1, <2>3
<1>9. D \in SUBSET AheadOf(Q, at, o)
  <2>1. SUFFICES ASSUME NEW a \in D PROVE a \in Q /\ Before(at, a, o)
    BY DEF AheadOf
  <2>2. a \in Orders /\ <<a, p>> \in cache[s].served
    BY DEF ServedBy
  <2>3. a \in Q
    BY <1>1, <1>2, <2>2 DEF AloneLines
  <2>4. a # o
    BY <1>5, <2>2
  <2>5. ~Before(at, o, a)
    BY <1>1, <1>2, <1>5, <1>7, <2>2, <2>3 DEF AloneLines
  <2> QED
    BY <1>3, <1>5, <2>3, <2>4, <2>5, BeforeOrder
<1>10. \A a \in AheadOf(Q, at, o) \ D : want[a] = 0
  <2>1. SUFFICES ASSUME NEW a \in AheadOf(Q, at, o) \ D PROVE want[a] = 0
    OBVIOUS
  <2>2. a \in Q /\ Before(at, a, o) /\ a \notin D
    BY DEF AheadOf
  <2>3. <<a, p>> \notin cache[s].served
    BY <1>3, <2>2 DEF ServedBy
  <2> QED
    BY <1>8, <2>2, <2>3
<1> DEFINE before == AtMost(FreeUnits(s, p), Total(want, D))
           given == Grant(want, FreeUnits(s, p), Q, at, o)
<1>11. /\ before \in Nat /\ before <= FreeUnits(s, p) /\ given \in Nat
       /\ given = AtMost(want[o], FreeUnits(s, p) - before)
       /\ AtMost(FreeUnits(s, p), Total(want, D \cup {o})) = before + given
  <2>1. \A x \in Q : want[x] \in Nat
    BY <1>3
  <2>2. /\ Q \in SUBSET Nat /\ IsFiniteSet(Q) /\ o \in Q /\ FreeUnits(s, p) \in Nat
    BY <1>3, <1>5
  <2>3. Total(want, AheadOf(Q, at, o)) = Total(want, D)
    <3>1. AheadOf(Q, at, o) \subseteq Q
      BY DEF AheadOf
    <3>2. IsFiniteSet(AheadOf(Q, at, o))
      BY <1>3, <3>1, FS_Subset
    <3>3. \A x \in AheadOf(Q, at, o) : want[x] \in Nat
      BY <2>1, <3>1
    <3> DEFINE A == AheadOf(Q, at, o)
    <3> HIDE DEF A, D, Q, at, want
    <3>4. \A x \in A \ D : want[x] = 0
      BY <1>10 DEF A
    <3> QED
      BY <1>9, <3>2, <3>3, <3>4, TotalWanted DEF A
  <2>4. D \in SUBSET Q /\ o \notin D
    BY <1>5, <1>9 DEF AheadOf, ServedBy
  <2> HIDE DEF D, Q, at, want
  <2> QED
    BY <2>1, <2>2, <2>3, <2>4, GrantNext
<1>12. given = Given(s, o, p)
  BY DEF Given
<1>13. TakenBy(s, o, p) = given
  <2>1. cache[s].reserved[p] = reserved[p] + before
    BY <1>1, <1>2 DEF AloneLines
  <2>2. cache[s].reservation[o][p] = reservation[o][p]
    BY <1>5, <1>6
  <2>3. TakenBy(s, o, p) = AtMost(line[o][p] - reservation[o][p],
                                  Stocked(s, p) - (reserved[p] + before))
    BY <1>4, <2>1, <2>2 DEF TakenBy
  <2> HIDE DEF before, given
  <2>4. Stocked(s, p) - (reserved[p] + before) = FreeUnits(s, p) - before
    BY <1>3, <1>11 DEF FreeUnits
  <2> QED
    BY <1>3, <1>11, <2>3, <2>4
<1> QED
  BY <1>5, <1>8, <1>11, <1>12, <1>13

\* The loop goes on to give what Grant says.
LEMMA AloneAllocates ==
  ASSUME SessionsInv, NEW s \in Sessions, AloneFacts(s), NEW o \in Orders, NEW p \in Products,
         AllocateLine(s, o, p)
  PROVE  AloneFacts(s)'
<1> DEFINE l == <<o, p>>
           given == Given(s, o, p)
           c == cache'[s]
<1>1. /\ step[s] = "allocate" /\ Automatic(s) /\ cache[s].looked = {}
      /\ step' = step /\ job' = job /\ UNCHANGED vars
      /\ job[s].op = "stock" => job[s].product \in Products
  <2>1. step[s] = "allocate" /\ l \in LinesLeft(s) /\ UNCHANGED <<vars, step, job>>
    BY DEF AllocateLine
  <2> QED
    BY <2>1, SessionFacts, StepJobs DEF QueueInv
<1>2. /\ AloneFacts(s) /\ AloneJob(s) /\ AloneSelects(s) /\ AloneLines(s) /\ AlonePlans(s)
  BY DEF AloneFacts
<1>3. /\ c.queue = cache[s].queue /\ c.looked = cache[s].looked
      /\ c.new = cache[s].new /\ c.onHand = cache[s].onHand
      /\ c.served = cache[s].served \cup {l}
      /\ c.rows = IF given = 0 THEN cache[s].rows ELSE cache[s].rows \cup {l}
      /\ \A q \in Products : c.reserved[q] = IF q = p THEN cache[s].reserved[q] + given
                                                       ELSE cache[s].reserved[q]
      /\ \A a \in Orders, q \in Products :
           c.reservation[a][q] = IF a = o /\ q = p THEN cache[s].reservation[a][q] + given
                                                   ELSE cache[s].reservation[a][q]
      /\ o \in Queue(s) /\ l \notin cache[s].served /\ given \in Nat
      /\ \A a \in Queue(s) : Before(ApprovedIn(s), a, o) =>
           <<a, p>> \in cache[s].served \/ Wanted(p)[a] = 0
  <2>1. /\ given = TakenBy(s, o, p) /\ given \in Nat
        /\ o \in Queue(s) /\ l \notin cache[s].served
        /\ \A a \in Queue(s) : Before(ApprovedIn(s), a, o) =>
             <<a, p>> \in cache[s].served \/ Wanted(p)[a] = 0
    BY <1>2, LineGranted
  <2> HIDE DEF given, c
  <2>2. given = TakenBy(s, o, p)
    BY <2>1
  <2>3. /\ cache'[s].queue = cache[s].queue /\ cache'[s].looked = cache[s].looked
        /\ cache'[s].new = cache[s].new /\ cache'[s].onHand = cache[s].onHand
        /\ cache'[s].served = cache[s].served \cup {<<o, p>>}
        /\ cache'[s].rows =
             IF given = 0 THEN cache[s].rows ELSE cache[s].rows \cup {<<o, p>>}
        /\ \A q \in Products :
             cache'[s].reserved[q] = IF q = p THEN cache[s].reserved[q] + given
                                              ELSE cache[s].reserved[q]
        /\ \A a \in Orders, q \in Products :
             cache'[s].reservation[a][q] =
               IF a = o /\ q = p THEN cache[s].reservation[a][q] + given
                                 ELSE cache[s].reservation[a][q]
    <3>1. LineGets(s, o, p, given)
      BY <2>2, LineEffect
    <3> QED
      BY <3>1 DEF LineGets
  <2> QED
    BY <2>1, <2>3 DEF c
<1>4. /\ Queue(s)' = Queue(s) /\ ApprovedIn(s)' = ApprovedIn(s)
      /\ reserved' = reserved /\ reservation' = reservation /\ line' = line
      /\ \A q \in Products : /\ Stocked(s, q)' = Stocked(s, q)
                             /\ FreeUnits(s, q)' = FreeUnits(s, q)
                             /\ Wanted(q)' = Wanted(q)
      /\ \A a \in Orders, q \in Products : Given(s, a, q)' = Given(s, a, q)
  BY <1>1, SameReads DEF vars
<1>5. /\ Sole(s)' /\ AloneJob(s)' /\ AloneSelects(s)' /\ AloneMark(s)' /\ AloneRelease(s)'
  <2>1. Sole(s)'
    BY <1>1, <1>2, SoleGoesOn DEF AloneFacts, Sole
  <2>2. AloneJob(s)'
    BY <1>1, <1>2, <1>3, <1>4 DEF AloneJob
  <2>3. AloneSelects(s)'
    BY <1>1, <1>2, <1>3, <1>4 DEF AloneSelects
  <2>4. AloneMark(s)' /\ AloneRelease(s)'
    BY <1>1 DEF AloneMark, AloneRelease, Automatic
  <2> QED
    BY <2>1, <2>2, <2>3, <2>4
<1>6. AlonePlans(s)'
  BY <1>1, <1>2, <1>3 DEF AlonePlans, Automatic
<1>7. AloneLines(s)'
  <2> HIDE DEF given, c, l
  <2>1. c.served \subseteq Queue(s) \X Products
    BY <1>1, <1>2, <1>3 DEF AloneLines, l
  <2>2. ASSUME NEW a \in Queue(s), NEW b \in Queue(s), NEW q \in Products,
               Before(ApprovedIn(s), a, b), <<b, q>> \in c.served
        PROVE  <<a, q>> \in c.served \/ Wanted(q)[a] = 0
    <3>1. CASE <<b, q>> \in cache[s].served
      BY <1>1, <1>2, <1>3, <2>2, <3>1 DEF AloneLines
    <3>2. CASE <<b, q>> = l
      <4>1. b = o /\ q = p
        BY <3>2 DEF l
      <4> QED
        BY <1>3, <2>2, <4>1
    <3> QED
      BY <1>3, <2>2, <3>1, <3>2
  <2>3. ASSUME NEW a \in Orders, NEW q \in Products
        PROVE  /\ c.reservation[a][q] =
                    reservation[a][q] + IF <<a, q>> \in c.served THEN Given(s, a, q) ELSE 0
               /\ <<a, q>> \notin c.rows => c.reservation[a][q] = reservation[a][q]
    <3>1. /\ cache[s].reservation[a][q] =
               reservation[a][q] + IF <<a, q>> \in cache[s].served THEN Given(s, a, q) ELSE 0
          /\ <<a, q>> \notin cache[s].rows => cache[s].reservation[a][q] = reservation[a][q]
      BY <1>1, <1>2 DEF AloneLines
    <3>2. reservation[a][q] \in Nat
      BY <1>2, AloneInputs
    <3>3. CASE a = o /\ q = p
      <4>1. cache[s].reservation[a][q] = reservation[a][q]
        BY <1>3, <3>1, <3>2, <3>3 DEF l
      <4>2. l \in c.served /\ l = <<a, q>> /\ (given = 0 \/ l \in c.rows)
        BY <1>3, <3>3 DEF l
      <4>3. c.reservation[a][q] = reservation[a][q] + given
        BY <1>3, <3>3, <4>1
      <4> QED
        BY <1>3, <3>2, <3>3, <4>2, <4>3 DEF given
    <3>4. CASE ~(a = o /\ q = p)
      <4>1. <<a, q>> # l
        BY <3>4 DEF l
      <4> QED
        BY <1>3, <3>1, <3>4, <4>1
    <3> QED
      BY <3>3, <3>4
  <2>4. ASSUME NEW q \in Products
        PROVE  /\ c.reserved[q] = reserved[q]
                    + AtMost(FreeUnits(s, q), Total(Wanted(q), ServedBy(s, q)'))
               /\ (\A a \in Orders : <<a, q>> \notin c.rows) => c.reserved[q] = reserved[q]
    <3>1. /\ cache[s].reserved[q] =
               reserved[q] + AtMost(FreeUnits(s, q), Total(Wanted(q), ServedBy(s, q)))
          /\ (\A a \in Orders : <<a, q>> \notin cache[s].rows) =>
               cache[s].reserved[q] = reserved[q]
          /\ reserved[q] \in Nat
      BY <1>1, <1>2, AloneInputs DEF AloneLines
    <3>2. CASE q = p
      <4>1. ServedBy(s, q)' = ServedBy(s, q) \cup {o}
        BY <1>3, <3>2 DEF ServedBy, l, c
      <4>2. /\ AtMost(FreeUnits(s, q), Total(Wanted(q), ServedBy(s, q) \cup {o})) =
                 AtMost(FreeUnits(s, q), Total(Wanted(q), ServedBy(s, q))) + given
            /\ AtMost(FreeUnits(s, q), Total(Wanted(q), ServedBy(s, q))) \in Nat
        BY <1>2, <3>2, LineGranted DEF given
      <4>3. c.reserved[q] = cache[s].reserved[q] + given
        BY <1>3, <3>2
      <4>4. given = 0 \/ l \in c.rows
        BY <1>3
      <4>5. (\A a \in Orders : <<a, q>> \notin c.rows) =>
              given = 0 /\ \A a \in Orders : <<a, q>> \notin cache[s].rows
        BY <1>3, <3>2, <4>4 DEF l
      <4>6. c.reserved[q] = reserved[q]
              + AtMost(FreeUnits(s, q), Total(Wanted(q), ServedBy(s, q) \cup {o}))
        BY <1>3, <3>1, <4>2, <4>3
      <4>7. (\A a \in Orders : <<a, q>> \notin c.rows) => c.reserved[q] = reserved[q]
        BY <1>3, <3>1, <4>3, <4>5
      <4> QED
        BY <4>1, <4>6, <4>7
    <3>3. CASE q # p
      <4>1. ServedBy(s, q)' = ServedBy(s, q)
        BY <1>3, <3>3 DEF ServedBy, l, c
      <4>2. \A a \in Orders : <<a, q>> \in cache[s].rows => <<a, q>> \in c.rows
        BY <1>3
      <4> QED
        BY <1>3, <3>1, <3>3, <4>1, <4>2
    <3> QED
      BY <3>2, <3>3
  <2> QED
    BY <1>4, <2>1, <2>2, <2>3, <2>4 DEF AloneLines, c
<1> QED
  BY <1>5, <1>6, <1>7 DEF AloneFacts

\* A task is planned from reservations that stay as they are.
LEMMA AlonePlansTask ==
  ASSUME SessionsInv, NEW s \in Sessions, AloneFacts(s), NEW o \in Orders, PlanTask(s, o)
  PROVE  AloneFacts(s)'
<1>1. /\ cache \in [Sessions -> Cache] /\ step[s] = "allocate" /\ Automatic(s)
      /\ o \in OrdersLeft(s) /\ step' = step /\ job' = job /\ UNCHANGED vars
      /\ cache' = [cache EXCEPT ![s].looked = @ \cup {o}, ![s].new[o] = UnplannedBy(s, o)]
      /\ job[s].op = "stock" => job[s].product \in Products
  <2>1. /\ step[s] = "allocate" /\ o \in OrdersLeft(s) /\ UNCHANGED <<vars, step, job>>
        /\ cache' = [cache EXCEPT ![s].looked = @ \cup {o}, ![s].new[o] = UnplannedBy(s, o)]
    BY DEF PlanTask
  <2> QED
    BY <2>1, SessionFacts, StepJobs DEF SessionTypes
<1>2. /\ AloneFacts(s) /\ AloneJob(s) /\ AloneSelects(s) /\ AloneLines(s) /\ AlonePlans(s)
  BY DEF AloneFacts
<1>3. /\ cache'[s].queue = cache[s].queue /\ cache'[s].onHand = cache[s].onHand
      /\ cache'[s].served = cache[s].served /\ cache'[s].rows = cache[s].rows
      /\ cache'[s].reserved = cache[s].reserved
      /\ cache'[s].reservation = cache[s].reservation
      /\ cache'[s].looked = cache[s].looked \cup {o}
      /\ \A a \in Orders : cache'[s].new[a] = IF a = o THEN UnplannedBy(s, o)
                                                       ELSE cache[s].new[a]
  BY <1>1 DEF Cache
<1>4. /\ Queue(s)' = Queue(s) /\ ApprovedIn(s)' = ApprovedIn(s)
      /\ PartialIn(s)' = PartialIn(s)
      /\ reserved' = reserved /\ reservation' = reservation /\ line' = line
      /\ \A q \in Products : /\ Stocked(s, q)' = Stocked(s, q)
                             /\ FreeUnits(s, q)' = FreeUnits(s, q)
                             /\ Wanted(q)' = Wanted(q)
      /\ \A a \in Orders, q \in Products : /\ Given(s, a, q)' = Given(s, a, q)
                                           /\ Planned(a, q)' = Planned(a, q)
  BY <1>1, SameReads DEF vars
<1>5. /\ Sole(s)' /\ AloneJob(s)' /\ AloneSelects(s)' /\ AloneMark(s)' /\ AloneRelease(s)'
  <2>1. Sole(s)'
    BY <1>1, <1>2, SoleGoesOn DEF AloneFacts, Sole
  <2>2. AloneJob(s)'
    BY <1>1, <1>2, <1>3, <1>4 DEF AloneJob
  <2>3. AloneSelects(s)'
    BY <1>1, <1>2, <1>3, <1>4 DEF AloneSelects
  <2>4. AloneMark(s)' /\ AloneRelease(s)'
    BY <1>1 DEF AloneMark, AloneRelease, Automatic
  <2> QED
    BY <2>1, <2>2, <2>3, <2>4
<1>6. AloneLines(s)'
  <2>1. \A q \in Products : ServedBy(s, q)' = ServedBy(s, q)
    BY <1>3 DEF ServedBy
  <2> QED
    BY <1>1, <1>2, <1>3, <1>4, <2>1 DEF AloneLines
<1>7. AlonePlans(s)'
  <2>1. \A a \in Orders : UnplannedBy(s, a)' = UnplannedBy(s, a)
    BY <1>3, <1>4 DEF UnplannedBy, ReservedNow
  <2>2. \A a \in Orders :
          cache'[s].new[a] = IF a \in cache'[s].looked THEN UnplannedBy(s, a)' ELSE Nothing
    BY <1>1, <1>2, <1>3, <2>1 DEF AlonePlans
  <2>3. \/ PartialIn(s)[o]
        \/ \A p \in Products : cache[s].reservation[o][p] = line[o][p]
    BY <1>1 DEF OrdersLeft
  <2>4. \A a \in cache[s].looked :
          \/ PartialIn(s)[a]
          \/ \A p \in Products : cache[s].reservation[a][p] = line[a][p]
    BY <1>1, <1>2 DEF AlonePlans
  <2> QED
    BY <1>3, <1>4, <2>2, <2>3, <2>4 DEF AlonePlans
<1> QED
  BY <1>5, <1>6, <1>7 DEF AloneFacts

-----------------------------------------------------------------------------
\* A worker goes on to commit the task alone only if the order is not complete.
LEMMA AloneReadsSiblings ==
  ASSUME SessionsInv, NEW s \in Sessions, AloneFacts(s), ReadSiblings(s)
  PROVE  AloneFacts(s)'
<1> DEFINE o == job[s].order
           next == IF CompleteIn(s, o) /\ status[o] # "ready_to_ship" THEN "mark" ELSE "commit"
<1>1. /\ step \in [Sessions -> Steps] /\ step[s] = "siblings" /\ job[s].op = "advance"
      /\ Goto(s, next) /\ UNCHANGED vars /\ job' = job /\ cache' = cache
  BY SessionFacts, StepJobs DEF ReadSiblings, SessionTypes
<1> HIDE DEF next
<1>2. /\ step'[s] = next /\ \A t \in Sessions \ {s} : step'[t] = step[t]
  BY <1>1 DEF Goto
<1>3. Sole(s)'
  BY <1>2, SoleGoesOn DEF AloneFacts, next
<1>4. CompleteIn(s, o)' <=> CompleteIn(s, o)
  BY <1>1 DEF CompleteIn, TasksIn, vars
<1>5. AloneMark(s)'
  BY <1>1, <1>2, <1>4 DEF AloneMark, next, vars
<1>6. /\ AloneJob(s)' /\ AloneSelects(s)' /\ AloneLines(s)' /\ AlonePlans(s)' /\ AloneRelease(s)'
  BY <1>1, <1>2 DEF AloneJob, AloneSelects, AloneLines, AlonePlans, AloneRelease,
     Automatic, next
<1> QED
  BY <1>3, <1>5, <1>6 DEF AloneFacts

-----------------------------------------------------------------------------
\* A cancellation that leaves the rows alone, but moves on.
LEMMA AloneStopsTasks ==
  ASSUME SessionsInv, NEW s \in Sessions, AloneFacts(s), StopTasks(s)
  PROVE  AloneFacts(s)'
<1>1. /\ step \in [Sessions -> Steps] /\ step[s] = "stop" /\ job[s].op = "cancel"
      /\ Goto(s, "counter") /\ UNCHANGED vars /\ job' = job /\ cache' = cache
  BY SessionFacts, StepJobs DEF StopTasks, SessionTypes
<1>2. /\ step'[s] = "counter" /\ \A t \in Sessions \ {s} : step'[t] = step[t]
  BY <1>1 DEF Goto
<1>3. Sole(s)'
  BY <1>2, SoleGoesOn DEF AloneFacts
<1>4. AloneRelease(s)'
  BY <1>1, <1>2 DEF AloneFacts, AloneRelease, vars
<1>5. /\ AloneJob(s)' /\ AloneSelects(s)' /\ AloneLines(s)' /\ AlonePlans(s)' /\ AloneMark(s)'
  BY <1>1, <1>2 DEF AloneJob, AloneSelects, AloneLines, AlonePlans, AloneMark, Automatic
<1> QED
  BY <1>3, <1>4, <1>5 DEF AloneFacts

\* The counter that it reads is the one that is committed.
LEMMA AloneReadsCounter ==
  ASSUME SessionsInv, NEW s \in Sessions, AloneFacts(s), NEW p \in Products, ReadCounter(s, p)
  PROVE  AloneFacts(s)'
<1> DEFINE o == job[s].order
           c == cache'[s]
<1>1. /\ step \in [Sessions -> Steps] /\ step[s] = "counter" /\ job[s].op = "cancel"
      /\ cache \in [Sessions -> Cache] /\ o \in Orders
      /\ Goto(s, "release") /\ UNCHANGED vars /\ job' = job
      /\ cache[s].reservation[o][p] > 0
      /\ cache' = [cache EXCEPT ![s].reserved[p] = reserved[p], ![s].served = {<<o, p>>}]
  BY SessionFacts, StepJobs DEF ReadCounter, LinesHeld, SessionTypes
<1>2. /\ step'[s] = "release" /\ \A t \in Sessions \ {s} : step'[t] = step[t]
  BY <1>1 DEF Goto
<1>3. /\ c.rows = cache[s].rows /\ c.reservation = cache[s].reservation
      /\ c.served = {<<o, p>>}
      /\ \A q \in Products : c.reserved[q] = IF q = p THEN reserved[p] ELSE cache[s].reserved[q]
  BY <1>1 DEF Cache
<1>4. Sole(s)'
  BY <1>2, SoleGoesOn DEF AloneFacts
<1>5. AloneRelease(s)'
  <2>1. AloneRelease(s)
    BY DEF AloneFacts
  <2>2. <<o, p>> \notin cache[s].rows
    BY <1>1, <2>1 DEF AloneRelease
  <2> HIDE DEF c
  <2>3. /\ c.rows \subseteq {o} \X Products
        /\ \A q \in Products :
             IF <<o, q>> \in c.rows
               THEN /\ c.reservation[o][q] = 0
                    /\ reserved[q] >= reservation[o][q]
                    /\ c.reserved[q] = reserved[q] - reservation[o][q]
               ELSE c.reservation[o][q] = reservation[o][q]
    BY <1>1, <1>3, <2>1, <2>2 DEF AloneRelease
  <2>4. c.served = {<<o, p>>} /\ <<o, p>> \notin c.rows /\ c.reserved[p] = reserved[p]
    BY <1>3, <2>2
  <2> QED
    BY <1>1, <1>2, <2>3, <2>4 DEF AloneRelease, c, vars
<1>6. /\ AloneJob(s)' /\ AloneSelects(s)' /\ AloneLines(s)' /\ AlonePlans(s)' /\ AloneMark(s)'
  BY <1>1, <1>2 DEF AloneJob, AloneSelects, AloneLines, AlonePlans, AloneMark, Automatic
<1> QED
  BY <1>4, <1>5, <1>6 DEF AloneFacts

\* It releases the line whose counter it has read.
LEMMA AloneReleases ==
  ASSUME SessionsInv, NEW s \in Sessions, AloneFacts(s), NEW p \in Products, ReleaseLine(s, p)
  PROVE  AloneFacts(s)'
<1> DEFINE o == job[s].order
           c == cache'[s]
           held == cache[s].reservation[o][p]
<1>1. /\ step \in [Sessions -> Steps] /\ step[s] = "release" /\ job[s].op = "cancel"
      /\ cache \in [Sessions -> Cache] /\ o \in Orders
      /\ Goto(s, "counter") /\ UNCHANGED vars /\ job' = job
      /\ <<o, p>> \in cache[s].served
      /\ cache[s].reserved[p] >= held
      /\ cache' = [cache EXCEPT ![s].reserved[p] = @ - held,
                                ![s].reservation[o][p] = 0,
                                ![s].rows = @ \cup {<<o, p>>}]
  BY SessionFacts, StepJobs DEF ReleaseLine, SessionTypes
<1> HIDE DEF held
<1>2. /\ step'[s] = "counter" /\ \A t \in Sessions \ {s} : step'[t] = step[t]
  BY <1>1 DEF Goto
<1>3. /\ c.rows = cache[s].rows \cup {<<o, p>>}
      /\ \A q \in Products :
           /\ c.reserved[q] = IF q = p THEN cache[s].reserved[p] - held ELSE cache[s].reserved[q]
           /\ c.reservation[o][q] = IF q = p THEN 0 ELSE cache[s].reservation[o][q]
  BY <1>1 DEF Cache
<1>4. Sole(s)'
  BY <1>2, SoleGoesOn DEF AloneFacts
<1>5. AloneRelease(s)'
  <2>1. AloneRelease(s)
    BY DEF AloneFacts
  <2>2. <<o, p>> \notin cache[s].rows /\ cache[s].reserved[p] = reserved[p]
    <3>1. PICK q \in Products : /\ cache[s].served = {<<o, q>>} /\ <<o, q>> \notin cache[s].rows
                                /\ cache[s].reserved[q] = reserved[q]
      BY <1>1, <2>1 DEF AloneRelease
    <3>2. q = p
      BY <1>1, <3>1
    <3> QED
      BY <3>1, <3>2
  <2>3. held = reservation[o][p]
    BY <1>1, <2>1, <2>2 DEF AloneRelease, held
  <2> HIDE DEF c
  <2>4. c.rows \subseteq {o} \X Products
    BY <1>1, <1>3, <2>1 DEF AloneRelease
  <2>5. ASSUME NEW q \in Products
        PROVE  IF <<o, q>> \in c.rows
                 THEN /\ c.reservation[o][q] = 0
                      /\ reserved[q] >= reservation[o][q]
                      /\ c.reserved[q] = reserved[q] - reservation[o][q]
                 ELSE c.reservation[o][q] = reservation[o][q]
    <3>1. CASE q = p
      BY <1>1, <1>3, <2>2, <2>3, <3>1
    <3>2. CASE q # p
      BY <1>1, <1>3, <2>1, <3>2 DEF AloneRelease
    <3> QED
      BY <3>1, <3>2
  <2> QED
    BY <1>1, <1>2, <2>4, <2>5 DEF AloneRelease, c, vars
<1>6. /\ AloneJob(s)' /\ AloneSelects(s)' /\ AloneLines(s)' /\ AlonePlans(s)' /\ AloneMark(s)'
  BY <1>1, <1>2 DEF AloneJob, AloneSelects, AloneLines, AlonePlans, AloneMark, Automatic
<1> QED
  BY <1>4, <1>5, <1>6 DEF AloneFacts

-----------------------------------------------------------------------------
\* One more session begins: it is alone if all were idle.
LEMMA AloneBegins ==
  ASSUME SessionTypes, NEW s \in Sessions, NEW j, NEW label, NEW rows, Begin(s, j, label, rows),
         (\A t \in Sessions : step[t] = "idle") => AloneFacts(s)'
  PROVE  AloneInv'
BY DEF Begin, AloneInv

\* The only session there is goes on.
LEMMA AloneGoesOn ==
  ASSUME SessionTypes, AloneInv, NEW s \in Sessions, step[s] # "idle", alone' = alone,
         AloneFacts(s) => AloneFacts(s)'
  PROVE  AloneInv'
<1>1. SUFFICES ASSUME NEW t \in alone PROVE AloneFacts(t)'
  BY DEF AloneInv
<1>2. t \in Sessions /\ AloneFacts(t)
  BY DEF AloneInv, SessionTypes
<1>3. t = s
  BY <1>2 DEF AloneFacts, Sole
<1> QED
  BY <1>2, <1>3

\* It ends.
LEMMA AloneEnds ==
  ASSUME SessionTypes, AloneInv, NEW s \in Sessions, step[s] # "idle", End(s)
  PROVE  AloneInv'
<1>1. SUFFICES ASSUME NEW t \in alone \ {s} PROVE FALSE
  BY DEF AloneInv, End
<1>2. t \in Sessions /\ AloneFacts(t)
  BY DEF AloneInv, SessionTypes
<1> QED
  BY <1>2 DEF AloneFacts, Sole

\* Nothing happens.
LEMMA AloneStutters == AloneInv /\ UNCHANGED allVars => AloneInv'
<1>1. SUFFICES ASSUME AloneInv, UNCHANGED allVars, NEW s \in alone PROVE AloneFacts(s)'
  BY DEF AloneInv, allVars, sessionVars
<1>2. AloneFacts(s)
  BY <1>1 DEF AloneInv
<1>3. UNCHANGED vars /\ UNCHANGED <<step, job, holds, cache, alone>>
  BY <1>1 DEF allVars, sessionVars
<1>4. /\ Queue(s)' = Queue(s) /\ ApprovedIn(s)' = ApprovedIn(s)
      /\ PartialIn(s)' = PartialIn(s) /\ (Automatic(s)' <=> Automatic(s))
      /\ \A p \in Products : ServedBy(s, p)' = ServedBy(s, p)
      /\ \A p : /\ Stocked(s, p)' = Stocked(s, p) /\ FreeUnits(s, p)' = FreeUnits(s, p)
                /\ Wanted(p)' = Wanted(p)
      /\ \A o \in Orders, p \in Products : Given(s, o, p)' = Given(s, o, p)
      /\ \A o \in Orders : UnplannedBy(s, o)' = UnplannedBy(s, o)
  BY <1>3 DEF vars, Queue, StatusIn, ApprovedIn, PartialIn, Decides, Automatic, ServedBy,
     Stocked, FreeUnits, Wanted, Given, UnplannedBy, ReservedNow, Planned
<1>5. Sole(s)'
  BY <1>2, <1>3 DEF AloneFacts, Sole
<1>6. AloneJob(s)'
  BY <1>2, <1>3, <1>4 DEF AloneFacts, AloneJob, vars
<1>a. /\ step'[s] = step[s] /\ cache'[s] = cache[s] /\ reserved' = reserved
      /\ reservation' = reservation /\ line' = line
  BY <1>3 DEF vars
<1>b. AloneSelects(s) /\ AlonePlans(s) /\ AloneLines(s)
  BY <1>2 DEF AloneFacts
<1>7. AloneSelects(s)' /\ AlonePlans(s)'
  <2>1. AloneSelects(s)'
    BY <1>4, <1>a, <1>b DEF AloneSelects
  <2>2. AlonePlans(s)'
    BY <1>4, <1>a, <1>b DEF AlonePlans
  <2> QED
    BY <2>1, <2>2
<1>8. AloneLines(s)'
  BY <1>4, <1>a, <1>b DEF AloneLines
<1>9. AloneMark(s)'
  BY <1>2, <1>3 DEF AloneFacts, AloneMark, CompleteIn, TasksIn, vars
<1>10. AloneRelease(s)'
  BY <1>2, <1>3 DEF AloneFacts, AloneRelease, vars
<1> QED
  BY <1>5, <1>6, <1>7, <1>8, <1>9, <1>10 DEF AloneFacts

\* Every step keeps what a session alone knows.
LEMMA AloneStep == SessionsInv /\ AloneInv /\ [SessionNext]_allVars => AloneInv'
<1> SUFFICES ASSUME SessionsInv, AloneInv, [SessionNext]_allVars PROVE AloneInv'
  OBVIOUS
<1>1. SessionTypes
  BY DEF SessionsInv
<1>2. CASE UNCHANGED allVars
  BY <1>2, AloneStutters
<1>3. ASSUME NEW s \in Sessions, NEW o \in Orders, NEW allowPartial \in BOOLEAN,
             NEW now \in 0..MaxTime, BeginApproval(s, o, allowPartial, now)
      PROVE  AloneInv'
  <2>1. Begin(s, Approve(o, allowPartial, now), "orders", {OrderRow(o)})
    BY <1>3 DEF BeginApproval
  <2> QED
    BY <1>1, <1>3, <2>1, AloneApproval, AloneBegins
<1>4. ASSUME NEW s \in Sessions, NEW p \in Products, NEW quantity \in 1..MaxReceipt,
             BeginReceipt(s, p, quantity)
      PROVE  AloneInv'
  <2>1. Begin(s, Stock(p, quantity), "receive", {})
    BY <1>4 DEF BeginReceipt
  <2> QED
    BY <1>1, <1>4, <2>1, AloneReceipt, AloneBegins
<1>5. ASSUME NEW s \in Sessions, NEW o \in Orders, NEW i \in DOMAIN tasks[o],
             BeginLastAdvance(s, o, i)
      PROVE  AloneInv'
  <2>1. Begin(s, Advance(o, i), "siblings", {TaskRow(o, i)})
    BY <1>5 DEF BeginLastAdvance
  <2> QED
    BY <1>1, <1>5, <2>1, AloneAdvance, AloneBegins
<1>6. ASSUME NEW s \in Sessions, NEW o \in Orders, BeginCancellation(s, o)
      PROVE  AloneInv'
  <2>1. Begin(s, Cancel(o), "stop", {OrderRow(o)})
    BY <1>6 DEF BeginCancellation
  <2> QED
    BY <1>1, <1>6, <2>1, AloneCancellation, AloneBegins
<1>7. ASSUME NEW s \in Sessions,
             Receive(s) \/ SelectOrders(s) \/ SelectStock(s) \/ SelectReservations(s)
      PROVE  AloneInv'
  <2>1. step[s] # "idle" /\ alone' = alone
    BY <1>7 DEF Receive, SelectOrders, SelectStock, SelectReservations
  <2>2. AloneFacts(s) => AloneFacts(s)'
    BY <1>7, AloneReceives, AloneSelectsOrders, AloneSelectsStock, AloneSelectsReservations
  <2> QED
    BY <1>1, <2>1, <2>2, AloneGoesOn
<1>8. ASSUME NEW s \in Sessions, NEW o \in Orders, NEW p \in Products, AllocateLine(s, o, p)
      PROVE  AloneInv'
  <2>1. step[s] # "idle" /\ alone' = alone
    BY <1>8 DEF AllocateLine
  <2> QED
    BY <1>1, <1>8, <2>1, AloneAllocates, AloneGoesOn
<1>9. ASSUME NEW s \in Sessions, NEW o \in Orders, PlanTask(s, o)
      PROVE  AloneInv'
  <2>1. step[s] # "idle" /\ alone' = alone
    BY <1>9 DEF PlanTask
  <2> QED
    BY <1>1, <1>9, <2>1, AlonePlansTask, AloneGoesOn
<1>10. ASSUME NEW s \in Sessions, ReadSiblings(s) \/ StopTasks(s)
       PROVE  AloneInv'
  <2>1. step[s] # "idle" /\ alone' = alone
    BY <1>10 DEF ReadSiblings, StopTasks
  <2> QED
    BY <1>1, <1>10, <2>1, AloneReadsSiblings, AloneStopsTasks, AloneGoesOn
<1>11. ASSUME NEW s \in Sessions, NEW p \in Products, ReadCounter(s, p) \/ ReleaseLine(s, p)
       PROVE  AloneInv'
  <2>1. step[s] # "idle" /\ alone' = alone
    BY <1>11 DEF ReadCounter, ReleaseLine
  <2> QED
    BY <1>1, <1>11, <2>1, AloneReadsCounter, AloneReleases, AloneGoesOn
<1>12. ASSUME NEW s \in Sessions,
              CommitProcess(s) \/ CommitAdvance(s) \/ CommitCancellation(s) \/ RollBack(s)
       PROVE  AloneInv'
  <2>1. step[s] # "idle" /\ End(s)
    BY <1>12 DEF CommitProcess, CommitAdvance, CommitCancellation, RollBack
  <2> QED
    BY <1>1, <2>1, AloneEnds
<1>13. ASSUME NEW s \in Sessions, NEW o \in Orders, NEW i \in DOMAIN tasks[o],
              AdvanceOpenTask(s, o, i)
       PROVE  AloneInv'
  BY <1>13 DEF AdvanceOpenTask, AloneInv
<1> QED
  BY <1>2, <1>3, <1>4, <1>5, <1>6, <1>7, <1>8, <1>9, <1>10, <1>11, <1>12, <1>13
     DEF SessionNext

\* A session that no other overlaps works from the committed rows, and on
\* nothing else.
THEOREM AloneInvariant == SessionSpec => []AloneInv
<1>1. SessionInit => AloneInv
  BY DEF SessionInit, AloneInv
<1> QED
  BY <1>1, AloneStep, SessionsInvariant, PTL DEF SessionSpec

-----------------------------------------------------------------------------
\* After the last line every line has got what Grant says, and the counters
\* have moved by as much.
LEMMA AloneGrants ==
  ASSUME SessionsInv, NEW s \in Sessions, AloneFacts(s), step[s] = "allocate",
         LinesLeft(s) = {}, NEW p \in Products
  PROVE  /\ \A o \in Orders : cache[s].reservation[o][p] = reservation[o][p] + Given(s, o, p)
         /\ cache[s].reserved[p] = reserved[p] + Total([o \in Orders |-> Given(s, o, p)], Orders)
<1> DEFINE D == ServedBy(s, p)
           Q == Queue(s)
           at == ApprovedIn(s)
           want == Wanted(p)
           avail == FreeUnits(s, p)
           got == [o \in Orders |-> Given(s, o, p)]
<1>1. /\ Automatic(s) /\ AloneJob(s) /\ AloneSelects(s) /\ AloneLines(s)
  BY StepJobs DEF AloneFacts
<1>2. /\ Q \in SUBSET Nat /\ IsFiniteSet(Q) /\ Q \subseteq Orders
      /\ \A a \in Q : at[a] \in Nat
      /\ \A a \in Orders : /\ want[a] = line[a][p] - reservation[a][p] /\ want[a] \in Nat
                           /\ line[a][p] \in Nat /\ reservation[a][p] \in Nat
      /\ Stocked(s, p) \in Nat /\ reserved[p] \in Nat /\ avail \in Nat
  BY <1>1, AloneInputs
<1>3. cache[s].queue = Q /\ cache[s].onHand[p] = Stocked(s, p)
  BY <1>1 DEF AloneSelects
<1>4. \A a \in Orders : cache[s].reservation[a][p] =
          reservation[a][p] + IF <<a, p>> \in cache[s].served THEN Given(s, a, p) ELSE 0
  BY <1>1 DEF AloneLines
<1>5. ASSUME NEW o \in Q, <<o, p>> \notin cache[s].served
      PROVE  want[o] = 0 \/ avail = 0
  <2>1. cache[s].reservation[o][p] = reservation[o][p]
    BY <1>2, <1>4, <1>5
  <2>2. <<o, p>> \notin LinesLeft(s)
    OBVIOUS
  <2>3. ~(cache[s].reservation[o][p] < line[o][p] /\ Stocked(s, p) > 0)
    BY <1>3, <1>5, <2>2 DEF LinesLeft
  <2>4. avail = Stocked(s, p) - reserved[p]
    BY DEF FreeUnits
  <2> HIDE DEF avail
  <2>5. Stocked(s, p) = 0 => avail = 0
    BY <1>2, <2>4
  <2> QED
    BY <1>2, <2>1, <2>3, <2>5
<1>6. \A o \in Orders : Given(s, o, p) = Grant(want, avail, Q, at, o)
  BY DEF Given
<1> HIDE DEF want, avail, at, Q
<1>7. ASSUME NEW o \in Orders
      PROVE  /\ Given(s, o, p) \in Nat
             /\ o \notin Q => Given(s, o, p) = 0
             /\ o \in Q /\ (want[o] = 0 \/ avail = 0) => Given(s, o, p) = 0
  <2>1. CASE o \in Q
    <3> DEFINE g == Grant(want, avail, Q, at, o)
               t == Total(want, AheadOf(Q, at, o))
    <3>1. \A x \in Q : want[x] \in Nat
      BY <1>2
    <3>2. g \in Nat /\ g <= want[o] /\ t \in Nat /\ (g > 0 => t + g <= avail)
      BY <1>2, <2>1, <3>1, GrantType
    <3>3. Given(s, o, p) = g /\ want[o] \in Nat
      BY <1>2, <1>6
    <3> HIDE DEF g, t
    <3> QED
      BY <1>2, <2>1, <3>2, <3>3
  <2>2. CASE o \notin Q
    BY <1>6, <2>2 DEF Grant
  <2> QED
    BY <2>1, <2>2
<1>8. ASSUME NEW o \in Orders
      PROVE  cache[s].reservation[o][p] = reservation[o][p] + Given(s, o, p)
  <2>1. <<o, p>> \notin cache[s].served => Given(s, o, p) = 0
    BY <1>5, <1>7
  <2> QED
    BY <1>4, <2>1
<1>9. D \in SUBSET Q
  BY <1>1 DEF ServedBy, AloneLines, Q
<1>10. /\ IsFiniteSet(D) /\ IsFiniteSet(Q) /\ \A x \in Q : want[x] \in Nat
       /\ Total(want, D) \in Nat /\ Total(want, Q) \in Nat
  <2>1. IsFiniteSet(D) /\ \A x \in Q : want[x] \in Nat
    BY <1>2, <1>9, FS_Subset
  <2>2. \A x \in D : want[x] \in Nat
    BY <1>9, <2>1
  <2> HIDE DEF D
  <2> QED
    BY <1>2, <2>1, <2>2, TotalType
<1>11. AtMost(avail, Total(want, D)) = AtMost(avail, Total(want, Q))
  <2>1. CASE avail = 0
    <3> DEFINE d == Total(want, D)
               q == Total(want, Q)
    <3>1. d \in Nat /\ q \in Nat
      BY <1>10
    <3> HIDE DEF d, q
    <3>2. AtMost(avail, d) = 0 /\ AtMost(avail, q) = 0
      BY <2>1, <3>1 DEF AtMost
    <3> QED
      BY <3>2 DEF d, q
  <2>2. CASE avail # 0
    <3>1. \A x \in Q \ D : want[x] = 0
      BY <1>2, <1>5, <2>2 DEF ServedBy
    <3> HIDE DEF D
    <3>2. Total(want, Q) = Total(want, D)
      BY <1>9, <1>10, <3>1, TotalWanted
    <3> QED
      BY <3>2
  <2> QED
    BY <2>1, <2>2
<1>12. \A o \in Orders : got[o] = Given(s, o, p)
  OBVIOUS
<1> HIDE DEF got, D
<1>13. Total(got, Q) = AtMost(avail, Total(want, Q))
  <2>1. \A o \in Q : got[o] = Grant(want, avail, Q, at, o)
    BY <1>2, <1>6, <1>12
  <2> QED
    BY <1>2, <1>10, <2>1, GrantsTotal
<1>14. Total(got, Orders) = Total(got, Q)
  <2>1. \A o \in Orders : got[o] \in Nat
    BY <1>7, <1>12
  <2>2. \A o \in Orders \ Q : got[o] = 0
    BY <1>7, <1>12
  <2>3. IsFiniteSet(Orders) /\ Q \in SUBSET Orders
    BY <1>2, OrdersAssumption
  <2> QED
    BY <2>1, <2>2, <2>3, TotalWanted
<1>15. cache[s].reserved[p] = reserved[p] + AtMost(avail, Total(want, D))
  BY <1>1 DEF AloneLines, D, want, avail
<1>16. cache[s].reserved[p] = reserved[p] + Total(got, Orders)
  BY <1>11, <1>13, <1>14, <1>15
<1> QED
  BY <1>8, <1>16 DEF got

\* What the automation of a session commits is what AllocateApprovedOrders
\* says.
LEMMA GrantsCommitted ==
  ASSUME SessionsInv, NEW s \in Sessions, AloneFacts(s), CommitProcess(s)
  PROVE  /\ Approved' = Queue(s)
         /\ \A p \in Products : onHand'[p] = Stocked(s, p)
         /\ AllocateApprovedOrders
         /\ \A o \in Orders, p \in Products : reservation'[o][p] = cache[s].reservation[o][p]
<1> DEFINE c == cache[s]
<1>1. /\ step[s] = "allocate" /\ LinesLeft(s) = {} /\ CommitStock(s)
      /\ status' = StatusIn(s) /\ approvedAt' = ApprovedIn(s)
  BY DEF CommitProcess
<1>2. /\ AloneJob(s) /\ AloneSelects(s) /\ AloneLines(s) /\ Automatic(s) /\ TypeOK
      /\ job[s].op = "stock" => job[s].product \in Products
  BY <1>1, StepJobs, SessionFacts DEF AloneFacts
<1>3. Approved' = Queue(s)
  BY <1>1 DEF Approved, Queue
<1>4. ASSUME NEW p \in Products PROVE onHand'[p] = Stocked(s, p)
  <2>1. c.onHand[p] = Stocked(s, p)
    BY <1>1, <1>2 DEF AloneSelects
  <2>2. onHand \in [Products -> Nat]
    BY <1>2 DEF TypeOK
  <2>3. onHand'[p] = IF job[s].op = "stock" /\ job[s].product = p THEN c.onHand[p]
                                                                  ELSE onHand[p]
    BY <1>1, <1>2, <2>2 DEF CommitStock
  <2> QED
    BY <2>1, <2>3 DEF Stocked
<1>5. \A o \in Orders, p \in Products : Granted(o, p) = Given(s, o, p)
  BY <1>1, <1>3, <1>4 DEF Granted, Given, FreeUnits
<1>6. /\ reserved' = [p \in Products |->
                        IF \E o \in Orders : <<o, p>> \in c.rows
                          THEN c.reserved[p] ELSE reserved[p]]
      /\ reservation' = [o \in Orders |-> [p \in Products |->
                           IF <<o, p>> \in c.rows
                             THEN c.reservation[o][p] ELSE reservation[o][p]]]
  BY <1>1 DEF CommitStock
<1>7. \A p \in Products :
        /\ \A o \in Orders : c.reservation[o][p] = reservation[o][p] + Granted(o, p)
        /\ c.reserved[p] = reserved[p] + Total([o \in Orders |-> Granted(o, p)], Orders)
  <2>1. \A p \in Products : [o \in Orders |-> Granted(o, p)] = [o \in Orders |-> Given(s, o, p)]
    BY <1>5
  <2> QED
    BY <1>1, <1>5, <2>1, AloneGrants
<1>8. \A p \in Products :
        /\ \A o \in Orders : <<o, p>> \notin c.rows => c.reservation[o][p] = reservation[o][p]
        /\ (\A o \in Orders : <<o, p>> \notin c.rows) => c.reserved[p] = reserved[p]
  BY <1>1, <1>2 DEF AloneLines
<1> HIDE DEF c
<1>9. reservation' = [o \in Orders |-> [p \in Products |-> c.reservation[o][p]]]
  BY <1>6, <1>8
<1>10. reservation' = [o \in Orders |-> [p \in Products |-> reservation[o][p] + Granted(o, p)]]
  BY <1>7, <1>9
<1>11. reserved' = [p \in Products |-> c.reserved[p]]
  BY <1>6, <1>8
<1>12. reserved' = [p \in Products |->
                      reserved[p] + Total([o \in Orders |-> Granted(o, p)], Orders)]
  BY <1>7, <1>11
<1>13. \A o \in Orders, p \in Products : reservation'[o][p] = c.reservation[o][p]
  BY <1>9
<1>14. AllocateApprovedOrders
  BY <1>10, <1>12 DEF AllocateApprovedOrders
<1> QED
  BY <1>3, <1>4, <1>13, <1>14 DEF c

\* And the tasks that it commits are those of CreateTasks.
LEMMA PlansCommitted ==
  ASSUME SessionsInv, NEW s \in Sessions, AloneFacts(s), CommitProcess(s)
  PROVE  CreateTasks
<1> DEFINE c == cache[s]
<1>1. /\ step[s] = "allocate" /\ LinesLeft(s) = {} /\ OrdersLeft(s) = {}
      /\ partial' = PartialIn(s) /\ line' = line
      /\ tasks' = [o \in Orders |-> IF c.new[o] = Nothing THEN tasks[o]
                                     ELSE Append(tasks[o], NewTask(c.new[o]))]
  BY DEF CommitProcess
<1>2. /\ AloneSelects(s) /\ AloneLines(s) /\ AlonePlans(s) /\ Automatic(s) /\ QueueInv(s)
  BY <1>1, StepJobs, SessionFacts DEF AloneFacts
<1>3. /\ Approved' = Queue(s)
      /\ \A o \in Orders, p \in Products : reservation'[o][p] = c.reservation[o][p]
  <2>1. /\ Approved' = Queue(s)
        /\ \A o \in Orders, p \in Products :
             reservation'[o][p] = cache[s].reservation[o][p]
    BY GrantsCommitted
  <2> QED
    BY <2>1
<1>4. c.queue = Queue(s)
  BY <1>1, <1>2 DEF AloneSelects
<1>5. \A o \in Orders : Unplanned(o) = UnplannedBy(s, o)
  <2>1. \A o \in Orders, p \in Products :
          <<o, p>> \notin c.rows => c.reservation[o][p] = reservation[o][p]
    BY <1>1, <1>2 DEF AloneLines
  <2>2. \A o \in Orders, p \in Products : ReservedNow(s, o)[p] = c.reservation[o][p]
    BY <2>1 DEF ReservedNow
  <2>3. \A o \in Orders, p \in Products : ReservedNow(s, o)[p] = reservation'[o][p]
    BY <1>3, <2>2
  <2> QED
    BY <2>3 DEF Unplanned, UnplannedBy
<1>6. ASSUME NEW o \in Orders
      PROVE  o \in c.looked <=> o \in Approved' /\ (FullyReserved(o)' \/ partial'[o])
  <2> DEFINE ripe == PartialIn(s)[o] \/ \A p \in Products : c.reservation[o][p] = line[o][p]
  <2>1. ripe <=> FullyReserved(o)' \/ partial'[o]
    BY <1>1, <1>3 DEF FullyReserved
  <2>2. o \in c.looked => o \in c.queue /\ ripe
    BY <1>2 DEF AlonePlans, QueueInv
  <2>3. o \in c.queue /\ ripe => o \in c.looked
    BY <1>1 DEF OrdersLeft
  <2> HIDE DEF ripe
  <2> QED
    BY <1>3, <1>4, <2>1, <2>2, <2>3
<1>7. \A o \in Orders : c.new[o] = IF o \in c.looked THEN Unplanned(o) ELSE Nothing
  BY <1>2, <1>5 DEF AlonePlans
<1> HIDE DEF c
<1>8. ASSUME NEW o \in Orders
      PROVE  (IF c.new[o] = Nothing THEN tasks[o] ELSE Append(tasks[o], NewTask(c.new[o])))
               = IF /\ o \in Approved'
                    /\ FullyReserved(o)' \/ partial'[o]
                    /\ Unplanned(o) # Nothing
                   THEN Append(tasks[o], NewTask(Unplanned(o)))
                   ELSE tasks[o]
  BY <1>6, <1>7
<1> QED
  BY <1>1, <1>8 DEF CreateTasks

-----------------------------------------------------------------------------
\* What a session was asked to do, from its fields.
LEMMA JobForms ==
  ASSUME NEW j \in Jobs
  PROVE  /\ j.op = "approve" => j = Approve(j.order, j.partial, j.at)
         /\ j.op = "stock" => j = Stock(j.product, j.quantity)
         /\ j.op = "advance" => j = Advance(j.order, j.task)
         /\ j.op = "cancel" => j = Cancel(j.order)
BY DEF Jobs, NoJob, Approve, Stock, Advance, Cancel

\* An approval alone commits what ApproveOrder does.
LEMMA AloneApproves ==
  ASSUME SessionsInv, NEW s \in Sessions, AloneFacts(s), CommitProcess(s), job[s].op = "approve"
  PROVE  \E o \in Orders, allowPartial \in BOOLEAN, now \in 0..MaxTime :
           job[s] = Approve(o, allowPartial, now) /\ ApproveOrder(o, allowPartial, now)
<1>1. PICK o \in Orders, allowPartial \in BOOLEAN, now \in 0..MaxTime :
        o = job[s].order /\ allowPartial = job[s].partial /\ now = job[s].at
  BY StepJobs DEF AloneFacts, AloneJob
<1>2. job[s] = Approve(o, allowPartial, now)
  BY <1>1, SessionFacts, JobForms
<1>3. /\ TypeOK /\ status[o] = "pending_approval"
  BY <1>1, SessionFacts DEF JobInv
<1>4. /\ status' = StatusIn(s) /\ partial' = PartialIn(s) /\ approvedAt' = ApprovedIn(s)
      /\ line' = line /\ requests' = requests /\ onHand' = onHand
  BY DEF CommitProcess, CommitStock
<1>5. \A a : Decides(s, a) <=> a = o
  BY <1>1 DEF Decides
<1>6. /\ status' = [status EXCEPT ![o] = "approved"]
      /\ partial' = [partial EXCEPT ![o] = allowPartial]
      /\ approvedAt' = [approvedAt EXCEPT ![o] = now]
  BY <1>1, <1>3, <1>4, <1>5 DEF StatusIn, PartialIn, ApprovedIn, TypeOK
<1>7. Process
  BY GrantsCommitted, PlansCommitted DEF Process
<1>8. ApproveOrder(o, allowPartial, now)
  BY <1>3, <1>4, <1>6, <1>7 DEF ApproveOrder
<1> QED
  BY <1>2, <1>8

\* A receipt alone commits what StockProduct does.
LEMMA AloneStocks ==
  ASSUME SessionsInv, NEW s \in Sessions, AloneFacts(s), CommitProcess(s), job[s].op = "stock"
  PROVE  \E p \in Products, quantity \in 1..MaxReceipt :
           job[s] = Stock(p, quantity) /\ StockProduct(p, quantity)
<1>1. PICK p \in Products, quantity \in 1..MaxReceipt :
        p = job[s].product /\ quantity = job[s].quantity
  BY StepJobs DEF AloneFacts, AloneJob
<1>2. job[s] = Stock(p, quantity)
  BY <1>1, SessionFacts, JobForms
<1>3. /\ step[s] = "allocate" /\ CommitStock(s) /\ line' = line /\ requests' = requests
      /\ status' = StatusIn(s) /\ partial' = PartialIn(s) /\ approvedAt' = ApprovedIn(s)
  BY DEF CommitProcess
<1>4. TypeOK
  BY SessionFacts
<1>5. status' = status /\ partial' = partial /\ approvedAt' = approvedAt
  <2>1. \A a : ~Decides(s, a)
    BY DEF Decides
  <2> QED
    BY <1>3, <1>4, <2>1 DEF StatusIn, PartialIn, ApprovedIn, TypeOK
<1>6. /\ cache[s].onHand[p] = onHand[p] + quantity /\ onHand[p] + quantity <= MaxStock
  BY <1>1, <1>3 DEF AloneFacts, AloneJob, Stocked
<1>7. onHand' = [onHand EXCEPT ![p] = @ + quantity]
  BY <1>1, <1>3, <1>4, <1>6 DEF CommitStock, TypeOK
<1>8. Process
  BY GrantsCommitted, PlansCommitted DEF Process
<1>9. StockProduct(p, quantity)
  BY <1>3, <1>5, <1>6, <1>7, <1>8 DEF StockProduct, orderVars
<1> QED
  BY <1>2, <1>9

\* A worker's last advance alone commits what AdvanceStatus does.
LEMMA AloneAdvances ==
  ASSUME SessionsInv, NEW s \in Sessions, AloneFacts(s), CommitAdvance(s)
  PROVE  \E o \in Orders : \E i \in DOMAIN tasks[o] :
           job[s] = Advance(o, i) /\ AdvanceStatus(o, i)
<1>1. /\ step[s] \in {"commit", "mark"} /\ job[s].op = "advance"
      /\ TypeOK /\ JobInv(s) /\ MarkInv(s)
      /\ UNCHANGED <<line, partial, approvedAt, stockVars, requests>>
      /\ tasks' = TasksIn(s)
  BY SessionFacts, StepJobs DEF CommitAdvance
<1>2. PICK o \in Orders, i \in Nat : o = job[s].order /\ i = job[s].task
  BY <1>1, StepJobs
<1>3. job[s] = Advance(o, i)
  BY <1>1, <1>2, SessionFacts, JobForms
<1>4. i \in DOMAIN tasks[o] /\ tasks[o][i].status = "packing" /\ OrderInv(o)
  BY <1>1, <1>2 DEF JobInv, SessionsInv
<1>5. tasks' = [tasks EXCEPT ![o][i].status = "ready_to_ship"]
  BY <1>1, <1>2 DEF TasksIn
<1>6. /\ tasks[o][i].status \in OpenStatus /\ NextStatus[tasks[o][i].status] = "ready_to_ship"
      /\ status[o] = "approved"
  BY <1>4 DEF OpenStatus, NextStatus, OrderInv
<1>7. tasks' = [tasks EXCEPT ![o][i].status = NextStatus[@]]
  BY <1>5, <1>6
<1>8. tasks'[o][i].status = "ready_to_ship"
  <2>1. "ready_to_ship" \in TaskStatus
    BY DEF TaskStatus
  <2> QED
    BY <1>1, <1>4, <1>5, <2>1, TaskMoved
<1>9. Complete(o)' <=> CompleteIn(s, o)
  <2>1. Complete(o)' <=>
          \A p \in Products :
            Total(Ships(tasks'[o], p),
                  {k \in DOMAIN tasks'[o] : tasks'[o][k].status = "ready_to_ship"})
              = line'[o][p]
    BY DEF Complete, ReadyQuantity, ReadyTasks
  <2>2. tasks'[o] = TasksIn(s)[o] /\ line' = line
    BY <1>1
  <2> QED
    BY <2>1, <2>2 DEF CompleteIn
<1>10. status' = IF Complete(o)' THEN [status EXCEPT ![o] = "ready_to_ship"] ELSE status
  <2>1. CASE step[s] = "commit"
    <3>1. status' = status
      BY <2>1 DEF CommitAdvance
    <3>2. ~CompleteIn(s, o)
      BY <1>1, <1>2, <1>6, <2>1 DEF AloneFacts, AloneMark
    <3> QED
      BY <1>9, <3>1, <3>2
  <2>2. CASE step[s] = "mark"
    <3>1. status' = [status EXCEPT ![o] = "ready_to_ship"]
      BY <1>2, <2>2 DEF CommitAdvance
    <3>2. CompleteIn(s, o)
      BY <1>1, <1>2, <2>2 DEF MarkInv
    <3> QED
      BY <1>9, <3>1, <3>2
  <2> QED
    BY <1>1, <2>1, <2>2
<1>11. AdvanceStatus(o, i)
  BY <1>1, <1>6, <1>7, <1>8, <1>10 DEF AdvanceStatus
<1> QED
  BY <1>3, <1>4, <1>11

\* A cancellation alone commits what CancelOrder does.
LEMMA AloneCancels ==
  ASSUME SessionsInv, NEW s \in Sessions, AloneFacts(s), CommitCancellation(s)
  PROVE  \E o \in Orders : job[s] = Cancel(o) /\ CancelOrder(o)
<1> DEFINE c == cache[s]
<1>1. /\ step[s] = "counter" /\ job[s].op = "cancel" /\ TypeOK
      /\ LinesHeld(s) = {} /\ CommitStock(s)
      /\ CancelTasks(job[s].order) /\ CancelStatus(job[s].order)
  BY SessionFacts, StepJobs DEF CommitCancellation
<1>2. PICK o \in Orders : o = job[s].order
  BY <1>1, StepJobs
<1>3. job[s] = Cancel(o)
  BY <1>1, <1>2, SessionFacts, JobForms
<1>4. /\ c.rows \subseteq {o} \X Products
      /\ \A p \in Products :
           IF <<o, p>> \in c.rows
             THEN /\ c.reservation[o][p] = 0
                  /\ c.reserved[p] = reserved[p] - reservation[o][p]
             ELSE c.reservation[o][p] = reservation[o][p]
  BY <1>1, <1>2 DEF AloneFacts, AloneRelease
<1>5. \A p \in Products : c.reservation[o][p] = 0
  <2>1. \A p \in Products : c.reservation[o][p] \in Nat
    BY SessionFacts, CacheFields
  <2>2. \A p \in Products : ~(c.reservation[o][p] > 0)
    BY <1>1, <1>2 DEF LinesHeld
  <2> QED
    BY <2>1, <2>2
<1>6. /\ reserved' = [p \in Products |->
                        IF \E a \in Orders : <<a, p>> \in c.rows
                          THEN c.reserved[p] ELSE reserved[p]]
      /\ reservation' = [a \in Orders |-> [p \in Products |->
                           IF <<a, p>> \in c.rows
                             THEN c.reservation[a][p] ELSE reservation[a][p]]]
  BY <1>1 DEF CommitStock
<1> HIDE DEF c
<1>7. /\ \A p \in Products : reserved[p] \in Nat /\ reservation[o][p] \in Nat
      /\ reservation \in [Orders -> [Products -> Nat]]
  BY <1>1 DEF TypeOK
<1>8. \A p \in Products : (\E a \in Orders : <<a, p>> \in c.rows) <=> <<o, p>> \in c.rows
  BY <1>4
<1>9. reserved' = [p \in Products |-> reserved[p] - reservation[o][p]]
  <2>1. ASSUME NEW p \in Products
        PROVE  (IF \E a \in Orders : <<a, p>> \in c.rows THEN c.reserved[p] ELSE reserved[p])
                 = reserved[p] - reservation[o][p]
    <3>1. CASE <<o, p>> \in c.rows
      BY <1>4, <1>8, <3>1
    <3>2. CASE <<o, p>> \notin c.rows
      <4>1. reservation[o][p] = 0
        BY <1>4, <1>5, <3>2
      <4>2. reserved[p] - 0 = reserved[p]
        BY <1>7
      <4> QED
        BY <1>8, <3>2, <4>1, <4>2
    <3> QED
      BY <3>1, <3>2
  <2> QED
    BY <1>6, <2>1
<1>10. reservation' = [reservation EXCEPT ![o] = Nothing]
  <2>1. \A a \in Orders, p \in Products :
          (IF <<a, p>> \in c.rows THEN c.reservation[a][p] ELSE reservation[a][p])
            = IF a = o THEN 0 ELSE reservation[a][p]
    BY <1>4, <1>5
  <2>2. reservation' = [a \in Orders |-> [p \in Products |->
                           IF a = o THEN 0 ELSE reservation[a][p]]]
    BY <1>6, <2>1
  <2>3. \A a \in Orders : [p \in Products |-> IF a = o THEN 0 ELSE reservation[a][p]]
                            = IF a = o THEN Nothing ELSE reservation[a]
    BY <1>7 DEF Nothing
  <2>4. reservation' = [a \in Orders |-> IF a = o THEN Nothing ELSE reservation[a]]
    BY <2>2, <2>3
  <2> QED
    BY <1>7, <2>4
<1>11. CancelOrder(o)
  BY <1>1, <1>2, <1>9, <1>10 DEF CancelOrder, ReleaseReservations
<1> QED
  BY <1>3, <1>11

-----------------------------------------------------------------------------
\* A request that is done and has changed a row has committed.
LEMMA EndsCommit ==
  ASSUME SessionTypes, SessionNext, NEW s \in Sessions,
         step[s] # "idle", step'[s] = "idle", vars' # vars
  PROVE  CommitProcess(s) \/ CommitAdvance(s) \/ CommitCancellation(s)
<1>1. ASSUME NEW t \in Sessions, step'[t] # "idle", \A r \in Sessions \ {t} : step'[r] = step[r]
      PROVE  FALSE
  BY <1>1
<1>2. ASSUME NEW t \in Sessions, NEW label \in Steps \ {"idle"}, Goto(t, label)
      PROVE  FALSE
  BY <1>2 DEF Goto, SessionTypes
<1>3. ASSUME NEW t \in Sessions, End(t)
      PROVE  t = s
  BY <1>3 DEF End, Goto, SessionTypes
<1>4. ASSUME step' = step PROVE FALSE
  BY <1>4
<1>5. /\ "receive" \in Steps \ {"idle"} /\ "orders" \in Steps \ {"idle"}
      /\ "stock" \in Steps \ {"idle"} /\ "reservations" \in Steps \ {"idle"}
      /\ "allocate" \in Steps \ {"idle"} /\ "siblings" \in Steps \ {"idle"}
      /\ "mark" \in Steps \ {"idle"} /\ "commit" \in Steps \ {"idle"}
      /\ "stop" \in Steps \ {"idle"} /\ "counter" \in Steps \ {"idle"}
      /\ "release" \in Steps \ {"idle"}
  BY DEF Steps
<1>6. PICK t \in Sessions :
        \/ \E o \in Orders, allowPartial \in BOOLEAN, now \in 0..MaxTime :
             BeginApproval(t, o, allowPartial, now)
        \/ \E p \in Products, quantity \in 1..MaxReceipt : BeginReceipt(t, p, quantity)
        \/ Receive(t)
        \/ SelectOrders(t)
        \/ SelectStock(t)
        \/ SelectReservations(t)
        \/ \E o \in Orders, p \in Products : AllocateLine(t, o, p)
        \/ \E o \in Orders : PlanTask(t, o)
        \/ CommitProcess(t)
        \/ \E o \in Orders : \E i \in DOMAIN tasks[o] :
             AdvanceOpenTask(t, o, i) \/ BeginLastAdvance(t, o, i)
        \/ ReadSiblings(t)
        \/ CommitAdvance(t)
        \/ \E o \in Orders : BeginCancellation(t, o)
        \/ StopTasks(t)
        \/ \E p \in Products : ReadCounter(t, p) \/ ReleaseLine(t, p)
        \/ CommitCancellation(t)
        \/ RollBack(t)
  BY DEF SessionNext
<1>7. ~ \E o \in Orders, allowPartial \in BOOLEAN, now \in 0..MaxTime :
          BeginApproval(t, o, allowPartial, now)
  BY <1>2, <1>5 DEF BeginApproval, Begin
<1>8. ~ \E p \in Products, quantity \in 1..MaxReceipt : BeginReceipt(t, p, quantity)
  BY <1>2, <1>5 DEF BeginReceipt, Begin
<1>9. /\ ~Receive(t) /\ ~SelectOrders(t) /\ ~SelectStock(t) /\ ~SelectReservations(t)
      /\ ~ReadSiblings(t) /\ ~StopTasks(t)
  BY <1>2, <1>5 DEF Receive, SelectOrders, SelectStock, SelectReservations, ReadSiblings, StopTasks
<1>10. ~ \E o \in Orders : PlanTask(t, o) \/ BeginCancellation(t, o)
  <2>1. ~ \E o \in Orders : PlanTask(t, o)
    BY <1>4 DEF PlanTask
  <2>2. ~ \E o \in Orders : BeginCancellation(t, o)
    BY <1>2, <1>5 DEF BeginCancellation, Begin
  <2> QED
    BY <2>1, <2>2
<1>11. ~ \E o \in Orders, p \in Products : AllocateLine(t, o, p)
  <2>1. \A o, p : AllocateLine(t, o, p) => step' = step
    BY DEF AllocateLine
  <2> QED
    BY <1>4, <2>1
<1>12. ~ \E o \in Orders : \E i \in DOMAIN tasks[o] :
           AdvanceOpenTask(t, o, i) \/ BeginLastAdvance(t, o, i)
  <2>1. ~ \E o \in Orders : \E i \in DOMAIN tasks[o] : AdvanceOpenTask(t, o, i)
    BY <1>4 DEF AdvanceOpenTask
  <2>2. ~ \E o \in Orders : \E i \in DOMAIN tasks[o] : BeginLastAdvance(t, o, i)
    BY <1>2, <1>5 DEF BeginLastAdvance, Begin
  <2> QED
    BY <2>1, <2>2
<1>13. ~ \E p \in Products : ReadCounter(t, p) \/ ReleaseLine(t, p)
  BY <1>2, <1>5 DEF ReadCounter, ReleaseLine
<1>14. ~RollBack(t)
  BY DEF RollBack, vars
<1>15. CommitProcess(t) \/ CommitAdvance(t) \/ CommitCancellation(t)
  BY <1>6, <1>7, <1>8, <1>9, <1>10, <1>11, <1>12, <1>13, <1>14
<1>16. End(t)
  BY <1>15 DEF CommitProcess, CommitAdvance, CommitCancellation
<1> QED
  BY <1>3, <1>15, <1>16

\* One request that no other overlaps, on any number of orders, products and
\* rows that earlier overlaps have left as they may be, does to the committed
\* rows what its one-step action in Fulfillment does.
THEOREM AloneCorrect == SessionSpec => AloneIsAtomic
<1>1. SessionsInv /\ AloneInv /\ [SessionNext]_allVars =>
        [\A s \in alone :
           step[s] # "idle" /\ step'[s] = "idle" /\ vars' # vars =>
             \/ \E o \in Orders, allowPartial \in BOOLEAN, now \in 0..MaxTime :
                  /\ job[s] = Approve(o, allowPartial, now)
                  /\ ApproveOrder(o, allowPartial, now)
             \/ \E p \in Products, quantity \in 1..MaxReceipt :
                  job[s] = Stock(p, quantity) /\ StockProduct(p, quantity)
             \/ \E o \in Orders : \E i \in DOMAIN tasks[o] :
                  job[s] = Advance(o, i) /\ AdvanceStatus(o, i)
             \/ \E o \in Orders : job[s] = Cancel(o) /\ CancelOrder(o)]_allVars
  <2>1. SUFFICES ASSUME SessionsInv, AloneInv, SessionNext, NEW s \in alone,
                        step[s] # "idle", step'[s] = "idle", vars' # vars
        PROVE  \/ \E o \in Orders, allowPartial \in BOOLEAN, now \in 0..MaxTime :
                    /\ job[s] = Approve(o, allowPartial, now)
                    /\ ApproveOrder(o, allowPartial, now)
               \/ \E p \in Products, quantity \in 1..MaxReceipt :
                    job[s] = Stock(p, quantity) /\ StockProduct(p, quantity)
               \/ \E o \in Orders : \E i \in DOMAIN tasks[o] :
                    job[s] = Advance(o, i) /\ AdvanceStatus(o, i)
               \/ \E o \in Orders : job[s] = Cancel(o) /\ CancelOrder(o)
    OBVIOUS
  <2>2. SessionTypes /\ s \in Sessions /\ AloneFacts(s)
    BY <2>1 DEF SessionsInv, SessionTypes, AloneInv
  <2>3. CommitProcess(s) \/ CommitAdvance(s) \/ CommitCancellation(s)
    BY <2>1, <2>2, EndsCommit
  <2>4. CASE CommitProcess(s)
    <3>1. job[s].op = "approve" \/ job[s].op = "stock"
      BY <2>1, <2>2, <2>4, StepJobs DEF CommitProcess, Automatic
    <3> QED
      BY <2>1, <2>2, <2>4, <3>1, AloneApproves, AloneStocks
  <2>5. CASE CommitAdvance(s)
    BY <2>1, <2>2, <2>5, AloneAdvances
  <2>6. CASE CommitCancellation(s)
    BY <2>1, <2>2, <2>6, AloneCancels
  <2> QED
    BY <2>3, <2>4, <2>5, <2>6
<1> QED
  BY <1>1, SessionsInvariant, AloneInvariant, PTL DEF SessionSpec, AloneIsAtomic
=============================================================================
