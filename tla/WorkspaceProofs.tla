--------------------------- MODULE WorkspaceProofs ---------------------------
(***************************************************************************)
(* What the operations page shows and what its workers are told, for any   *)
(* number of orders and of handlers that wait at the same time.            *)
(***************************************************************************)
EXTENDS Workspace, TLAPS

Active(h) == call[h] # Idle

\* What the parts of a handler's call have to do with each other.
CallInv(h) ==
  LET r == call[h]
      a == call[h].answer
  IN  /\ r = Idle \/ (r.op # "none" /\ r.stage # "idle")
      /\ r.stage = "act" => /\ r.op # "tasks"
                            /\ r.op # "create" => r.about \in Orders
      /\ r.stage = "tasks" => r.op \in {"tasks", "approve", "advance"} /\ r.about \in Orders
      /\ r.stage = "order" => r.op = "advance" /\ r.about = r.order
      /\ r.op = "advance" => /\ r.order \in Orders /\ r.shown < LastStatus
                             /\ r.stage = "act" => r.about = r.order
      /\ a.kind = "none" => a = NoAnswer
      /\ a.kind = "order" =>
           /\ a.order \in Orders /\ a.value >= 1
           /\ r.stage = "order" \/ (r.stage = "act" /\ r.op # "advance")
           /\ r.stage = "order" => a.order = r.order
      /\ a.kind = "tasks" =>
           /\ a.order = r.about
           /\ r.stage = "tasks" \/ (r.stage = "act" /\ r.op = "advance")

\* The row of a task that an open transaction moves is locked by it, and a
\* request that waits to be served has no transaction yet.
LockInv ==
  \A h \in Handlers :
    /\ transaction[h].task # "none" =>
         /\ task[transaction[h].task] < LastStatus
         /\ \A g \in Handlers \ {h} : transaction[g].task # transaction[h].task
    /\ Waits(h, "act") => transaction[h].state # "open"

\* A worker who is told of a move has made it, or has the task locked.
MoveInv ==
  \A h \in Handlers : Moved(h) =>
    LET o == call[h].order
    IN  /\ call[h].stage = "act" => call[h].answer = TasksAnswer(o, call[h].shown + 1)
        /\ IF transaction[h].state = "open"
             THEN transaction[h].task = o /\ task[o] = call[h].shown
             ELSE task[o] > call[h].shown
        /\ \A g \in Handlers \ {h} :
             Moved(g) /\ call[g].order = o => call[g].shown # call[h].shown

\* The answer to a move has arrived, and the page has not acted on it yet.
Told(h) == /\ call[h].op = "advance" /\ call[h].stage = "act"
           /\ call[h].answer.kind = "tasks"

\* What is disabled belongs to a handler that will enable it again, and what
\* is shown exists.
PageInv ==
  /\ \A f \in disabled : \E h \in Handlers : call[h].op = f
  /\ \A i \in DOMAIN cards :
       /\ cards[i].status >= 1
       /\ cards[i].handler # "none" =>
            call[cards[i].handler].op = "advance" /\ call[cards[i].handler].stage = "act"
  /\ summary # NoAnswer => summary.order \in Orders /\ summary.value >= 1

\* The order whose state the page is about to show on behalf of h.
Due(h, o) ==
  \/ call[h].answer.kind = "order" /\ call[h].answer.order = o
  \/ /\ call[h].op = "advance" /\ call[h].order = o
     /\ call[h].stage # "act" \/ call[h].answer.kind = "tasks"

\* An order is not written by two transactions at once.
OneWriter ==
  \A g, h \in Handlers :
    transaction[g].order # "none" /\ transaction[h].order = transaction[g].order => g = h

\* While nothing disturbs it the page is right about what is committed or will
\* be, but for what the one handler that waits is about to show.
ScreenInv ==
  ~disturbed =>
    /\ OneWriter
    /\ \A g, h \in Handlers : Active(g) /\ Active(h) => g = h
    /\ summary # NoAnswer /\ (\A h \in Handlers : ~Due(h, summary.order)) =>
         summary.value = Coming(summary.order)
    /\ Len(cards) <= 1
    /\ \A i \in DOMAIN cards :
         (\A h \in Handlers : ~(Told(h) /\ call[h].order = cards[i].order)) =>
           cards[i].status = TaskComing(cards[i].order)
    /\ cards # <<>> => TaskOrder # "none"
    /\ \A h \in Handlers :
         /\ call[h].answer.kind = "order" =>
              call[h].answer.value = Coming(call[h].answer.order)
         /\ call[h].answer.kind = "tasks" =>
              call[h].answer.value = TaskComing(call[h].answer.order)
         /\ call[h].answer.kind = "error" => call[h].stage = "act"
         /\ call[h].stage = "tasks" => cards = <<>>
         /\ call[h].stage = "tasks" \/ call[h].op = "advance" => TaskOrder # "none"

WorkspaceInv ==
  /\ TypeOK
  /\ \A h \in Handlers : CallInv(h)
  /\ LockInv
  /\ MoveInv
  /\ PageInv
  /\ ScreenInv

-----------------------------------------------------------------------------
\* The answers of the server.
LEMMA AnswerTypes ==
  /\ NoAnswer \in Answer /\ NoAnswer.kind = "none"
  /\ Error \in Answer /\ Error.kind = "error"
  /\ \A o \in Orders, n \in Nat :
       /\ OrderAnswer(o, n) \in Answer /\ OrderAnswer(o, n).kind = "order"
       /\ OrderAnswer(o, n).order = o /\ OrderAnswer(o, n).value = n
       /\ TasksAnswer(o, n) \in Answer /\ TasksAnswer(o, n).kind = "tasks"
       /\ TasksAnswer(o, n).order = o /\ TasksAnswer(o, n).value = n
BY DEF Answer, NoAnswer, Error, OrderAnswer, TasksAnswer

\* A handler that waits for nothing.
LEMMA IdleFacts ==
  /\ Idle \in Call
  /\ Idle.op = "none" /\ Idle.stage = "idle" /\ Idle.answer = NoAnswer
  /\ Idle.answer.kind = "none"
BY AnswerTypes DEF Idle, Call

\* The transactions: one that is not open has written nothing.
LEMMA TransactionTypes ==
  /\ NoTransaction \in Transaction /\ Failed \in Transaction
  /\ NoTransaction.state = "none" /\ Failed.state = "failed"
  /\ \A o, p \in Orders \cup {"none"} :
       /\ Open(o, p) \in Transaction /\ Open(o, p).state = "open"
       /\ Open(o, p).order = o /\ Open(o, p).task = p
  /\ \A t \in Transaction :
       /\ t.state \in {"none", "open", "failed"}
       /\ t.order \in Orders \cup {"none"} /\ t.task \in Orders \cup {"none"}
       /\ t.state # "open" => t.order = "none" /\ t.task = "none"
       /\ t.state = "failed" <=> t = Failed
<1>1. /\ \A o, p : /\ Open(o, p).state = "open"
                   /\ Open(o, p).order = o /\ Open(o, p).task = p
      /\ NoTransaction.state = "none" /\ NoTransaction.order = "none"
      /\ NoTransaction.task = "none" /\ Failed.state = "failed"
      /\ Failed.order = "none" /\ Failed.task = "none"
  BY DEF Open, NoTransaction, Failed
<1>2. \A t \in Transaction :
        \/ t = NoTransaction \/ t = Failed
        \/ \E o, p \in Orders \cup {"none"} : t = Open(o, p)
  BY DEF Transaction
<1>3. /\ NoTransaction \in Transaction /\ Failed \in Transaction
      /\ \A o, p \in Orders \cup {"none"} : Open(o, p) \in Transaction
  BY DEF Transaction
<1> QED
  BY <1>1, <1>2, <1>3

\* The fields of a call.
LEMMA CallFields ==
  ASSUME TypeOK, NEW h \in Handlers
  PROVE  /\ call[h] \in Call /\ call[h].answer \in Answer
         /\ call[h].op \in Ops \cup {"none"}
         /\ call[h].stage \in {"idle", "act", "tasks", "order"}
         /\ call[h].order \in Orders \cup {"none"} /\ call[h].about \in Orders \cup {"none"}
         /\ call[h].shown \in Nat
         /\ call[h].answer.kind \in {"none", "error", "order", "tasks"}
         /\ call[h].answer.order \in Orders \cup {"none"} /\ call[h].answer.value \in Nat
         /\ call[h].answer.kind # "none" => call[h].answer # NoAnswer
BY AnswerTypes DEF TypeOK, Call, Answer

\* The server answers h, or its connection fails.
LEMMA Answered ==
  ASSUME TypeOK, NEW h \in Handlers, NEW a \in Answer, call' = [call EXCEPT ![h].answer = a]
  PROVE  /\ call' \in [Handlers -> Call]
         /\ \A g \in Handlers \ {h} : call'[g] = call[g]
         /\ call'[h].op = call[h].op /\ call'[h].stage = call[h].stage
         /\ call'[h].order = call[h].order /\ call'[h].about = call[h].about
         /\ call'[h].shown = call[h].shown /\ call'[h].answer = a
<1> DEFINE new == [call[h] EXCEPT !.answer = a]
<1>1. call[h] \in Call /\ call \in [Handlers -> Call]
  BY DEF TypeOK
<1>2. /\ new \in Call /\ new.op = call[h].op /\ new.stage = call[h].stage
      /\ new.order = call[h].order /\ new.about = call[h].about
      /\ new.shown = call[h].shown /\ new.answer = a
  BY <1>1 DEF Call
<1>3. call' = [call EXCEPT ![h] = new]
  BY <1>1
<1> HIDE DEF new
<1> QED
  BY <1>1, <1>2, <1>3

\* A transaction that is not open has locked nothing.
LEMMA TransactionFields ==
  ASSUME TypeOK, NEW h \in Handlers
  PROVE  /\ transaction[h] \in Transaction
         /\ transaction[h].state \in {"none", "open", "failed"}
         /\ transaction[h].order \in Orders \cup {"none"}
         /\ transaction[h].task \in Orders \cup {"none"}
         /\ transaction[h].state # "open" =>
              transaction[h].order = "none" /\ transaction[h].task = "none"
         /\ transaction[h].state = "failed" <=> transaction[h] = Failed
<1>1. transaction[h] \in Transaction
  BY DEF TypeOK
<1> QED
  BY <1>1, TransactionTypes

\* A handler starts.
LEMMA Started ==
  ASSUME TypeOK, NEW h \in Handlers, NEW op \in Ops, NEW stage \in {"act", "tasks"},
         NEW o \in Orders \cup {"none"}, NEW shown \in Nat, Starts(h, op, stage, o, shown)
  PROVE  /\ call' \in [Handlers -> Call] /\ call[h] = Idle
         /\ \A g \in Handlers \ {h} : call'[g] = call[g]
         /\ call'[h].op = op /\ call'[h].stage = stage
         /\ call'[h].order = o /\ call'[h].about = o
         /\ call'[h].shown = shown /\ call'[h].answer = NoAnswer
         /\ version' = version /\ task' = task
         /\ transaction' \in [Handlers -> Transaction]
         /\ transaction[h].state # "open" /\ transaction'[h].state # "open"
         /\ \A g \in Handlers : /\ transaction'[g].order = transaction[g].order
                                /\ transaction'[g].task = transaction[g].task
                                /\ g # h => transaction'[g] = transaction[g]
         /\ \A p \in Orders : (Free(p)' <=> Free(p)) /\ (TaskFree(p)' <=> TaskFree(p))
         /\ disturbed' = (disturbed \/ ~Quiet)
<1> DEFINE new == [op |-> op, stage |-> stage, order |-> o,
                   about |-> o, shown |-> shown, answer |-> NoAnswer]
<1>1. /\ call \in [Handlers -> Call] /\ call[h] = Idle
      /\ transaction \in [Handlers -> Transaction] /\ transaction[h].state # "open"
      /\ call' = [call EXCEPT ![h] = new]
      /\ transaction' = [transaction EXCEPT ![h] = NoTransaction]
      /\ disturbed' = (disturbed \/ ~Quiet)
      /\ version' = version /\ task' = task
  BY DEF TypeOK, Starts
<1>2. /\ new \in Call /\ new.op = op /\ new.stage = stage /\ new.order = o /\ new.about = o
      /\ new.shown = shown /\ new.answer = NoAnswer
  BY AnswerTypes DEF Call
<1> HIDE DEF new
<1>3. transaction[h].order = "none" /\ transaction[h].task = "none"
  BY <1>1, TransactionFields
<1>4. /\ NoTransaction \in Transaction /\ NoTransaction.state = "none"
      /\ NoTransaction.order = "none" /\ NoTransaction.task = "none"
  BY TransactionTypes
<1>5. /\ transaction' \in [Handlers -> Transaction] /\ transaction'[h].state # "open"
      /\ \A g \in Handlers : /\ transaction'[g].order = transaction[g].order
                             /\ transaction'[g].task = transaction[g].task
                             /\ g # h => transaction'[g] = transaction[g]
  BY <1>1, <1>3, <1>4
<1>6. \A p \in Orders : (Free(p)' <=> Free(p)) /\ (TaskFree(p)' <=> TaskFree(p))
  BY <1>5 DEF Free, TaskFree
<1> QED
  BY <1>1, <1>2, <1>5, <1>6

\* An endpoint has written, and its transaction is open.
LEMMA Written ==
  ASSUME TypeOK, NEW h \in Handlers, NEW o \in Orders \cup {"none"},
         NEW p \in Orders \cup {"none"}, transaction[h].state # "open", Writes(h, o, p)
  PROVE  /\ transaction' \in [Handlers -> Transaction] /\ version' = version /\ task' = task
         /\ transaction'[h].state = "open"
         /\ transaction'[h].order = o /\ transaction'[h].task = p
         /\ transaction[h].order = "none" /\ transaction[h].task = "none"
         /\ \A g \in Handlers \ {h} : transaction'[g] = transaction[g]
         /\ \A q \in Orders : /\ Free(q)' <=> Free(q) /\ q # o
                              /\ TaskFree(q)' <=> TaskFree(q) /\ q # p
<1>1. /\ transaction \in [Handlers -> Transaction] /\ version' = version /\ task' = task
      /\ transaction' = [transaction EXCEPT ![h] = Open(o, p)]
  BY DEF TypeOK, Writes
<1>2. /\ Open(o, p) \in Transaction /\ Open(o, p).state = "open"
      /\ Open(o, p).order = o /\ Open(o, p).task = p
  BY TransactionTypes
<1>3. transaction[h].order = "none" /\ transaction[h].task = "none"
  BY TransactionFields
<1>4. /\ transaction' \in [Handlers -> Transaction] /\ transaction'[h] = Open(o, p)
      /\ \A g \in Handlers \ {h} : transaction'[g] = transaction[g]
  BY <1>1, <1>2
<1>5. \A q \in Orders : /\ Free(q)' <=> Free(q) /\ q # o
                        /\ TaskFree(q)' <=> TaskFree(q) /\ q # p
  BY <1>2, <1>3, <1>4, NamesAssumption DEF Free, TaskFree
<1> QED
  BY <1>1, <1>2, <1>3, <1>4, <1>5

\* A handler goes on to its next request.
LEMMA Sent ==
  ASSUME TypeOK, NEW h \in Handlers, NEW stage \in {"tasks", "order"},
         NEW o \in Orders \cup {"none"}, Sends(h, stage, o)
  PROVE  /\ call' \in [Handlers -> Call]
         /\ \A g \in Handlers \ {h} : call'[g] = call[g]
         /\ call'[h].op = call[h].op /\ call'[h].stage = stage
         /\ call'[h].order = call[h].order /\ call'[h].about = o
         /\ call'[h].shown = call[h].shown /\ call'[h].answer = NoAnswer
<1> DEFINE new == [call[h] EXCEPT !.stage = stage, !.about = o, !.answer = NoAnswer]
<1>1. call[h] \in Call /\ call \in [Handlers -> Call]
  BY DEF TypeOK
<1>2. /\ new \in Call /\ new.op = call[h].op /\ new.stage = stage
      /\ new.order = call[h].order /\ new.about = o
      /\ new.shown = call[h].shown /\ new.answer = NoAnswer
  BY <1>1, AnswerTypes DEF Call
<1>3. call' = [call EXCEPT ![h] = new]
  BY <1>1 DEF Sends
<1> HIDE DEF new
<1> QED
  BY <1>1, <1>2, <1>3

\* A handler has nothing more to do.
LEMMA Finished ==
  ASSUME TypeOK, NEW h \in Handlers, Finish(h)
  PROVE  /\ call' \in [Handlers -> Call] /\ call'[h] = Idle
         /\ \A g \in Handlers \ {h} : call'[g] = call[g]
         /\ disabled' = disabled \ {call[h].op}
BY IdleFacts DEF TypeOK, Finish

\* A card of the task panel.
LEMMA CardFields ==
  ASSUME TypeOK, NEW i \in DOMAIN cards
  PROVE  /\ cards[i] \in Card /\ cards[i].order \in Orders
         /\ cards[i].status \in Nat /\ cards[i].handler \in Handlers \cup {"none"}
<1>1. cards \in Seq(Card)
  BY DEF TypeOK
<1>2. cards[i] \in Card
  BY <1>1
<1> QED
  BY <1>2 DEF Card

\* An idle handler is about to show nothing, before a step and after it.
LEMMA IdleShows ==
  ASSUME NEW g \in Handlers
  PROVE  /\ call[g] = Idle => /\ \A o \in Orders : ~Due(g, o)
                              /\ ~Told(g) /\ ~Moved(g) /\ ~Active(g) /\ CallInv(g)
         /\ call'[g] = Idle => /\ \A o \in Orders : ~Due(g, o)'
                               /\ ~Told(g)' /\ ~Moved(g)' /\ ~Active(g)' /\ CallInv(g)'
<1>1. ASSUME NEW r, r = Idle
      PROVE  /\ r.answer.kind = "none" /\ r.answer = NoAnswer
             /\ r.op = "none" /\ r.stage = "idle"
  BY <1>1, IdleFacts
<1>2. ASSUME call[g] = Idle
      PROVE  /\ \A o \in Orders : ~Due(g, o)
             /\ ~Told(g) /\ ~Moved(g) /\ ~Active(g) /\ CallInv(g)
  BY <1>1, <1>2 DEF Due, Told, Moved, Active, CallInv
<1>3. ASSUME call'[g] = Idle
      PROVE  /\ \A o \in Orders : ~Due(g, o)'
             /\ ~Told(g)' /\ ~Moved(g)' /\ ~Active(g)' /\ CallInv(g)'
  BY <1>1, <1>3 DEF Due, Told, Moved, Active, CallInv
<1> QED
  BY <1>2, <1>3

\* Undisturbed, the page is right but for what the one handler h is about to
\* show.
Shows(h) ==
  /\ OneWriter
  /\ summary # NoAnswer => Due(h, summary.order) \/ summary.value = Coming(summary.order)
  /\ Len(cards) <= 1
  /\ \A i \in DOMAIN cards : \/ Told(h) /\ call[h].order = cards[i].order
                             \/ cards[i].status = TaskComing(cards[i].order)
  /\ cards # <<>> => TaskOrder # "none"
  /\ call[h].answer.kind = "order" =>
       call[h].answer.value = Coming(call[h].answer.order)
  /\ call[h].answer.kind = "tasks" =>
       call[h].answer.value = TaskComing(call[h].answer.order)
  /\ call[h].answer.kind = "error" => call[h].stage = "act"
  /\ call[h].stage = "tasks" => cards = <<>>
  /\ call[h].stage = "tasks" \/ call[h].op = "advance" => TaskOrder # "none"

\* Undisturbed, only h is at work, and the page is right but for it.
LEMMA ScreenFacts ==
  ASSUME WorkspaceInv, ~disturbed, NEW h \in Handlers, Active(h) \/ Quiet
  PROVE  Shows(h) /\ \A g \in Handlers \ {h} : call[g] = Idle
<1>1. ScreenInv /\ PageInv /\ TypeOK
  BY DEF WorkspaceInv
<1>2. \A g \in Handlers \ {h} : call[g] = Idle
  BY <1>1 DEF ScreenInv, Active, Quiet
<1>3. \A g \in Handlers \ {h} : ~Told(g) /\ \A o \in Orders : ~Due(g, o)
  BY <1>2, IdleShows
<1>4. summary # NoAnswer => summary.order \in Orders
  BY <1>1 DEF PageInv
<1>5. summary # NoAnswer => Due(h, summary.order) \/ summary.value = Coming(summary.order)
  BY <1>1, <1>3, <1>4 DEF ScreenInv
<1>6. \A i \in DOMAIN cards : \/ Told(h) /\ call[h].order = cards[i].order
                              \/ cards[i].status = TaskComing(cards[i].order)
  BY <1>1, <1>3 DEF ScreenInv
<1> QED
  BY <1>1, <1>2, <1>5, <1>6 DEF ScreenInv, Shows

\* Conversely, a page that is right but for h is as ScreenInv says.
LEMMA ScreenAfter ==
  ASSUME NEW h \in Handlers, \A g \in Handlers \ {h} : call'[g] = Idle, Shows(h)'
  PROVE  ScreenInv'
<1>1. \A g \in Handlers \ {h} :
        /\ call'[g].answer.kind = "none" /\ call'[g].stage = "idle" /\ call'[g].op = "none"
  BY IdleFacts
<1> QED
  BY <1>1 DEF ScreenInv, Active, Shows

\* What an answer leaves of the page.
LEMMA PageAnswered ==
  ASSUME PageInv, TypeOK, UNCHANGED page,
         \A g \in Handlers : call'[g].op = call[g].op /\ call'[g].stage = call[g].stage
  PROVE  PageInv'
<1>1. disabled' = disabled /\ cards' = cards /\ summary' = summary
  BY DEF page
<1>2. \A i \in DOMAIN cards : cards[i].handler \in Handlers \cup {"none"}
  BY CardFields
<1> QED
  BY <1>1, <1>2 DEF PageInv

\* Nobody else is told of a move, and no move is undone.
LEMMA MovesKept ==
  ASSUME TypeOK, \A g \in Handlers : CallInv(g), MoveInv,
         \A g \in Handlers : Moved(g)' =>
           /\ Moved(g)
           /\ call'[g].order = call[g].order /\ call'[g].shown = call[g].shown
           /\ call'[g].stage = "act" => call[g].stage = "act" /\ call'[g].answer = call[g].answer
           /\ transaction'[g] = transaction[g]
           /\ \/ task' = task
              \/ /\ transaction[g].state = "open" => task'[call[g].order] = task[call[g].order]
                 /\ \A o \in Orders : task'[o] \in Nat /\ task[o] <= task'[o]
  PROVE  MoveInv'
<1> SUFFICES ASSUME NEW h \in Handlers, Moved(h)'
             PROVE  /\ call'[h].stage = "act" =>
                         call'[h].answer = TasksAnswer(call'[h].order, call'[h].shown + 1)
                    /\ IF transaction'[h].state = "open"
                         THEN /\ transaction'[h].task = call'[h].order
                              /\ task'[call'[h].order] = call'[h].shown
                         ELSE task'[call'[h].order] > call'[h].shown
                    /\ \A g \in Handlers \ {h} :
                         Moved(g)' /\ call'[g].order = call'[h].order =>
                           call'[g].shown # call'[h].shown
  BY DEF MoveInv
<1>1. /\ Moved(h) /\ call'[h].order = call[h].order /\ call'[h].shown = call[h].shown
      /\ call'[h].stage = "act" => call[h].stage = "act" /\ call'[h].answer = call[h].answer
      /\ transaction'[h] = transaction[h]
  OBVIOUS
<1>2. /\ call[h].order \in Orders /\ call[h].shown \in Nat
      /\ task[call[h].order] \in Nat
  BY <1>1, CallFields, NumbersAssumption DEF CallInv, Moved, TypeOK
<1>3. IF transaction'[h].state = "open"
        THEN /\ transaction'[h].task = call'[h].order
             /\ task'[call'[h].order] = call'[h].shown
        ELSE task'[call'[h].order] > call'[h].shown
  BY <1>1, <1>2 DEF MoveInv
<1> QED
  BY <1>1, <1>3 DEF MoveInv

\* The locks of the tasks stay as they are.
LEMMA LocksKept ==
  ASSUME LockInv, task' = task,
         \A g \in Handlers : /\ transaction'[g].task = transaction[g].task
                             /\ Waits(g, "act")' => transaction'[g].state # "open"
  PROVE  LockInv'
BY DEF LockInv

\* A step that changes nothing of what waits, is shown or is coming.
LEMMA ScreenKept ==
  ASSUME TypeOK, \A g \in Handlers : CallInv(g), PageInv, ScreenInv, ~disturbed,
         call' = call, UNCHANGED page, OneWriter',
         \A o \in Orders : Coming(o)' = Coming(o) /\ TaskComing(o)' = TaskComing(o)
  PROVE  ScreenInv'
<1>1. /\ context' = context /\ summary' = summary /\ taskField' = taskField /\ cards' = cards
      /\ TaskOrder' = TaskOrder
  BY DEF page, TaskOrder
<1>2. \A h \in Handlers : /\ Active(h)' <=> Active(h)
                          /\ Told(h)' <=> Told(h)
                          /\ \A o : Due(h, o)' <=> Due(h, o)
  BY DEF Active, Told, Due
<1>3. summary # NoAnswer => Coming(summary.order)' = Coming(summary.order)
  BY <1>1 DEF PageInv
<1>4. \A i \in DOMAIN cards : TaskComing(cards[i].order)' = TaskComing(cards[i].order)
  BY <1>1, CardFields
<1>5. \A h \in Handlers :
        /\ call[h].answer.kind = "order" =>
             Coming(call[h].answer.order)' = Coming(call[h].answer.order)
        /\ call[h].answer.kind = "tasks" =>
             TaskComing(call[h].answer.order)' = TaskComing(call[h].answer.order)
  BY DEF CallInv
<1> QED
  BY <1>1, <1>2, <1>3, <1>4, <1>5 DEF ScreenInv

\* What is known of a handler, and of the page.
LEMMA WorkspaceFacts ==
  ASSUME WorkspaceInv, NEW h \in Handlers
  PROVE  /\ TypeOK /\ CallInv(h) /\ LockInv /\ MoveInv /\ PageInv /\ ScreenInv
         /\ \A g \in Handlers : CallInv(g)
         /\ summary # NoAnswer => summary.order \in Orders /\ summary.value >= 1
         /\ \A i \in DOMAIN cards : cards[i].order \in Orders /\ cards[i].status >= 1
         /\ \A o \in Orders : version[o] \in Nat /\ task[o] \in Nat
<1>1. /\ TypeOK /\ LockInv /\ MoveInv /\ PageInv /\ ScreenInv
      /\ \A g \in Handlers : CallInv(g)
  BY DEF WorkspaceInv
<1>2. \A o \in Orders : version[o] \in Nat /\ task[o] \in Nat
  BY <1>1, NumbersAssumption DEF TypeOK
<1> QED
  BY <1>1, <1>2, CardFields DEF PageInv

-----------------------------------------------------------------------------
\* The server answers h, or its connection fails: it remains to be shown what
\* has become of h, of the locks, of the moves and of what is to be shown.
LEMMA ServeStep ==
  ASSUME WorkspaceInv, NEW h \in Handlers, NEW a \in Answer,
         call' = [call EXCEPT ![h].answer = a], UNCHANGED page, disturbed' \in BOOLEAN,
         version' = version, task' = task, transaction' \in [Handlers -> Transaction],
         CallInv(h)', LockInv', MoveInv',
         ~disturbed' => ~disturbed /\ (Shows(h) => Shows(h)'), Active(h)
  PROVE  WorkspaceInv'
<1>1. TypeOK /\ PageInv /\ \A g \in Handlers : CallInv(g)
  BY WorkspaceFacts
<1>2. /\ call' \in [Handlers -> Call]
      /\ \A g \in Handlers \ {h} : call'[g] = call[g]
      /\ call'[h].op = call[h].op /\ call'[h].stage = call[h].stage
  BY <1>1, Answered
<1>3. TypeOK'
  BY <1>1, <1>2 DEF TypeOK, page
<1>4. \A g \in Handlers \ {h} : CallInv(g)'
  BY <1>1, <1>2 DEF CallInv
<1>5. PageInv'
  BY <1>1, <1>2, PageAnswered
<1>6. ASSUME ~disturbed' PROVE ScreenInv'
  <2>1. Shows(h) /\ \A g \in Handlers \ {h} : call[g] = Idle
    BY <1>6, ScreenFacts
  <2>2. Shows(h)'
    BY <1>6, <2>1
  <2> QED
    BY <1>2, <2>1, <2>2, ScreenAfter
<1>7. ScreenInv'
  BY <1>6 DEF ScreenInv
<1> QED
  BY <1>3, <1>4, <1>5, <1>7 DEF WorkspaceInv

\* The endpoint of h has written; the locks it takes were free.
LEMMA WriteStep ==
  ASSUME WorkspaceInv, NEW h \in Handlers, NEW a \in Answer, Waits(h, "act"),
         NEW o \in Orders \cup {"none"}, NEW p \in Orders \cup {"none"}, Writes(h, o, p),
         p \in Orders => TaskFree(p) /\ task[p] < LastStatus,
         call' = [call EXCEPT ![h].answer = a], a.kind \in {"order", "tasks"},
         UNCHANGED page, disturbed' \in BOOLEAN, CallInv(h)', MoveInv',
         ~disturbed' => ~disturbed /\ (Shows(h) => Shows(h)')
  PROVE  WorkspaceInv'
<1>1. /\ TypeOK /\ LockInv /\ transaction[h].state # "open"
      /\ call[h].stage = "act"
  BY WorkspaceFacts DEF LockInv, Waits
<1>2. /\ transaction' \in [Handlers -> Transaction] /\ version' = version /\ task' = task
      /\ transaction'[h].task = p
      /\ \A g \in Handlers \ {h} : transaction'[g] = transaction[g]
  BY <1>1, Written
<1>3. /\ \A g \in Handlers \ {h} : call'[g] = call[g]
      /\ call'[h].answer = a /\ a # NoAnswer
  BY <1>1, Answered, AnswerTypes
<1>4. LockInv'
  <2>1. ~Waits(h, "act")' /\ \A g \in Handlers \ {h} : Waits(g, "act")' => Waits(g, "act")
    BY <1>3 DEF Waits
  <2>2. p # "none" => /\ p \in Orders /\ task'[p] < LastStatus
                      /\ \A g \in Handlers : transaction[g].task # p
    BY <1>2 DEF TaskFree
  <2> QED
    BY <1>1, <1>2, <2>1, <2>2 DEF LockInv
<1>5. Active(h)
  BY <1>1, IdleFacts DEF Active
<1> QED
  BY <1>2, <1>4, <1>5, ServeStep

\* What an order is about to be is what the answer of its change says.
LEMMA ChangeShows ==
  ASSUME WorkspaceInv, NEW h \in Handlers, Shows(h), NEW o \in Orders, Free(o),
         NEW p \in Orders \cup {"none"}, Writes(h, o, p), transaction[h].state # "open",
         call[h].stage = "act", call[h].answer = NoAnswer, call[h].op # "advance",
         call'[h].stage = "act", call'[h].op = call[h].op,
         call'[h].answer = OrderAnswer(o, version[o] + 1),
         \A i \in DOMAIN cards : cards[i].order # p, UNCHANGED page
  PROVE  Shows(h)'
<1>1. TypeOK /\ version[o] \in Nat
  BY WorkspaceFacts
<1>2. /\ version' = version /\ task' = task
      /\ transaction'[h].order = o
      /\ \A g \in Handlers \ {h} : transaction'[g] = transaction[g]
      /\ \A q \in Orders : /\ Free(q)' <=> Free(q) /\ q # o
                           /\ TaskFree(q)' <=> TaskFree(q) /\ q # p
  BY <1>1, Written
<1>3. /\ call'[h].answer.kind = "order" /\ call'[h].answer.order = o
      /\ call'[h].answer.value = version[o] + 1
  BY <1>1, AnswerTypes
<1>4. Coming(o)' = version[o] + 1 /\ \A q \in Orders \ {o} : Coming(q)' = Coming(q)
  BY <1>2 DEF Coming
<1>5. \A q \in Orders \ {p} : TaskComing(q)' = TaskComing(q)
  BY <1>2 DEF TaskComing
<1>6. ~Told(h) /\ Due(h, o)' /\ \A q \in Orders : ~Due(h, q)
  BY <1>3, AnswerTypes DEF Told, Due
<1>7. OneWriter'
  <2>1. OneWriter /\ \A g \in Handlers : transaction[g].order # o
    BY DEF Shows, Free
  <2> QED
    BY <1>2, <2>1 DEF OneWriter
<1>8. summary' # NoAnswer =>
        Due(h, summary.order)' \/ summary'.value = Coming(summary.order)'
  <2>1. summary # NoAnswer => /\ summary.order \in Orders
                              /\ summary.value = Coming(summary.order)
    BY <1>6, WorkspaceFacts DEF Shows
  <2> QED
    BY <1>4, <1>6, <2>1 DEF page
<1>9. \A i \in DOMAIN cards : cards[i].status = TaskComing(cards[i].order)'
  <2>1. \A i \in DOMAIN cards : cards[i].order \in Orders
    BY WorkspaceFacts
  <2> QED
    BY <1>5, <1>6, <2>1 DEF Shows, page
<1>10. /\ Len(cards') <= 1 /\ (cards' # <<>> => TaskOrder' # "none")
       /\ summary' = summary /\ cards' = cards
  BY DEF Shows, TaskOrder, page
<1> QED
  BY <1>3, <1>4, <1>7, <1>8, <1>9, <1>10 DEF Shows

\* An order is created.
LEMMA CreateServed ==
  ASSUME WorkspaceInv, NEW h \in Handlers, ServeCreate(h)
  PROVE  WorkspaceInv'
<1>1. /\ TypeOK /\ CallInv(h) /\ MoveInv /\ LockInv /\ Waits(h, "act")
      /\ call[h].stage = "act" /\ call[h].answer = NoAnswer /\ call[h].op = "create"
  BY WorkspaceFacts DEF ServeCreate, Waits
<1>2. PICK o \in Orders : /\ version[o] = 0 /\ Free(o) /\ Writes(h, o, "none")
                          /\ Answers(h, OrderAnswer(o, 1), FALSE)
  BY DEF ServeCreate
<1> DEFINE a == OrderAnswer(o, 1)
<1>3. a \in Answer /\ a.kind = "order" /\ a.order = o /\ a.value = 1
  BY AnswerTypes
<1>4. a = OrderAnswer(o, version[o] + 1)
  BY <1>2
<1>5. call' = [call EXCEPT ![h].answer = a] /\ UNCHANGED page /\ disturbed' = disturbed
  BY <1>1, <1>2 DEF Answers, TypeOK
<1> HIDE DEF a
<1>6. /\ \A g \in Handlers \ {h} : call'[g] = call[g]
      /\ call'[h].op = call[h].op /\ call'[h].stage = call[h].stage
      /\ call'[h].order = call[h].order /\ call'[h].about = call[h].about
      /\ call'[h].shown = call[h].shown /\ call'[h].answer = a
  BY <1>1, <1>3, <1>5, Answered
<1>7. CallInv(h)' /\ ~Moved(h)'
  BY <1>1, <1>3, <1>6, IdleFacts DEF CallInv, Moved
<1>8. transaction[h].state # "open"
  BY <1>1 DEF LockInv
<1>9. MoveInv'
  BY <1>1, <1>2, <1>6, <1>7, <1>8, Written, MovesKept, WorkspaceFacts DEF Moved
<1>10. ASSUME Shows(h) PROVE Shows(h)'
  <2>1. \A i \in DOMAIN cards : cards[i].order # "none"
    BY NamesAssumption, WorkspaceFacts
  <2> QED
    BY <1>1, <1>2, <1>4, <1>5, <1>6, <1>8, <1>10, <2>1, ChangeShows
<1>11. disturbed' \in BOOLEAN
  BY <1>1, <1>5 DEF TypeOK
<1> QED
  BY <1>1, <1>2, <1>3, <1>5, <1>7, <1>9, <1>10, <1>11, NamesAssumption, WriteStep

\* An order is changed; what changes with it is new to the page.
LEMMA ChangeServed ==
  ASSUME WorkspaceInv, NEW h \in Handlers, ServeChange(h)
  PROVE  WorkspaceInv'
<1>1. /\ TypeOK /\ CallInv(h) /\ MoveInv /\ LockInv /\ Waits(h, "act")
      /\ call[h].stage = "act" /\ call[h].answer = NoAnswer
      /\ call[h].op \in {"change", "approve", "reject"}
  BY WorkspaceFacts DEF ServeChange, Waits
<1>2. PICK o \in Orders : o = call[h].about
  BY <1>1 DEF CallInv
<1>3. PICK n \in Nat : n = version[o] + 1 /\ n >= 1
  BY <1>2, WorkspaceFacts
<1>4. PICK p \in Orders \cup {"none"} :
        /\ p # "none" => p \in Orders /\ task[p] = 0 /\ TaskFree(p)
        /\ Writes(h, o, p)
  BY <1>2 DEF ServeChange
<1> DEFINE a == OrderAnswer(o, n)
<1>5. a \in Answer /\ a.kind = "order" /\ a.order = o /\ a.value = n
  BY AnswerTypes
<1>6. /\ call' = [call EXCEPT ![h].answer = a] /\ UNCHANGED page
      /\ disturbed' = (disturbed \/ ~Free(o))
  BY <1>2, <1>3 DEF ServeChange, Answers
<1>7. a = OrderAnswer(o, version[o] + 1)
  BY <1>3
<1> HIDE DEF a
<1>8. /\ \A g \in Handlers \ {h} : call'[g] = call[g]
      /\ call'[h].op = call[h].op /\ call'[h].stage = call[h].stage
      /\ call'[h].order = call[h].order /\ call'[h].about = call[h].about
      /\ call'[h].shown = call[h].shown /\ call'[h].answer = a
  BY <1>1, <1>5, <1>6, Answered
<1>9. CallInv(h)' /\ ~Moved(h)'
  BY <1>1, <1>2, <1>3, <1>5, <1>8, IdleFacts DEF CallInv, Moved
<1>10. transaction[h].state # "open"
  BY <1>1 DEF LockInv
<1>11. MoveInv'
  BY <1>1, <1>4, <1>8, <1>9, <1>10, Written, MovesKept, WorkspaceFacts DEF Moved
<1>12. ASSUME ~disturbed', Shows(h) PROVE Shows(h)'
  <2>1. Free(o) /\ ~Told(h)
    BY <1>1, <1>6, <1>12 DEF Told
  <2>2. ASSUME NEW i \in DOMAIN cards PROVE cards[i].order # p
    <3>1. cards[i].order \in Orders /\ cards[i].status >= 1
      BY WorkspaceFacts
    <3>2. cards[i].status = TaskComing(cards[i].order)
      BY <1>12, <2>1 DEF Shows
    <3> QED
      BY <1>4, <3>1, <3>2, NamesAssumption DEF TaskComing
  <2> QED
    BY <1>1, <1>4, <1>6, <1>7, <1>8, <1>10, <1>12, <2>1, <2>2, ChangeShows
<1>13. p \in Orders => TaskFree(p) /\ task[p] < LastStatus
  BY <1>4, NamesAssumption, NumbersAssumption
<1>14. disturbed' \in BOOLEAN /\ (~disturbed' => ~disturbed)
  BY <1>1, <1>6 DEF TypeOK
<1> QED
  BY <1>1, <1>4, <1>5, <1>6, <1>9, <1>11, <1>12, <1>13, <1>14, WriteStep

\* A task is about to move to the status after the one that the worker's button
\* showed: who was told so before has moved it, or would still have it locked.
LEMMA AdvanceServed ==
  ASSUME WorkspaceInv, NEW h \in Handlers, ServeAdvance(h)
  PROVE  WorkspaceInv'
<1>1. /\ TypeOK /\ CallInv(h) /\ MoveInv /\ LockInv /\ Waits(h, "act")
      /\ call[h].stage = "act" /\ call[h].answer = NoAnswer /\ call[h].op = "advance"
      /\ \A g \in Handlers : CallInv(g)
  BY WorkspaceFacts DEF ServeAdvance, Waits
<1>2. PICK o \in Orders : o = call[h].about /\ o = call[h].order
  BY <1>1 DEF CallInv
<1>3. /\ task[o] = call[h].shown /\ TaskFree(o)
      /\ task[o] < LastStatus /\ task[o] \in Nat
  BY <1>1, <1>2, WorkspaceFacts DEF ServeAdvance, CallInv
<1>4. PICK n \in Nat : n = task[o] + 1
  BY <1>3
<1>5. PICK r \in Orders \cup {"none"} :
        /\ Writes(h, r, o)
        /\ r # "none" => r = o /\ Free(o)
  BY <1>2 DEF ServeAdvance, AdvanceWrites
<1> DEFINE a == TasksAnswer(o, n)
<1>6. a \in Answer /\ a.kind = "tasks" /\ a.order = o /\ a.value = n
  BY AnswerTypes
<1>7. /\ call' = [call EXCEPT ![h].answer = a] /\ UNCHANGED page
      /\ disturbed' = disturbed
  BY <1>1, <1>2, <1>4 DEF ServeAdvance, AdvanceWrites, Answers, TypeOK
<1>8. a = TasksAnswer(o, call[h].shown + 1)
  BY <1>3, <1>4
<1> HIDE DEF a
<1>9. /\ \A g \in Handlers \ {h} : call'[g] = call[g]
      /\ call'[h].op = call[h].op /\ call'[h].stage = call[h].stage
      /\ call'[h].order = call[h].order /\ call'[h].about = call[h].about
      /\ call'[h].shown = call[h].shown /\ call'[h].answer = a
  BY <1>1, <1>6, <1>7, Answered
<1>10. /\ transaction' \in [Handlers -> Transaction] /\ version' = version /\ task' = task
       /\ transaction'[h].state = "open"
       /\ transaction'[h].order = r /\ transaction'[h].task = o
       /\ \A g \in Handlers \ {h} : transaction'[g] = transaction[g]
       /\ \A q \in Orders : /\ Free(q)' <=> Free(q) /\ q # r
                            /\ TaskFree(q)' <=> TaskFree(q) /\ q # o
  <2>1. transaction[h].state # "open"
    BY <1>1 DEF LockInv
  <2> QED
    BY <1>1, <1>5, <2>1, Written
<1>11. CallInv(h)'
  BY <1>1, <1>2, <1>6, <1>9, IdleFacts DEF CallInv
<1>12. MoveInv'
  <2>1. \A g \in Handlers \ {h} : /\ Moved(g)' <=> Moved(g)
                                  /\ call'[g] = call[g] /\ transaction'[g] = transaction[g]
    BY <1>9, <1>10 DEF Moved
  <2>2. ASSUME NEW g \in Handlers \ {h}, Moved(g), call[g].order = o
        PROVE  call[g].shown # call[h].shown
    <3>1. transaction[g].task # o
      BY <1>3 DEF TaskFree
    <3>2. task[o] > call[g].shown /\ call[g].shown \in Nat
      BY <1>1, <2>2, <3>1, CallFields DEF MoveInv
    <3> QED
      BY <1>3, <3>2
  <2>3. ASSUME NEW g \in Handlers \ {h}, Moved(g)
        PROVE  /\ call[g].stage = "act" =>
                    call[g].answer = TasksAnswer(call[g].order, call[g].shown + 1)
               /\ IF transaction[g].state = "open"
                    THEN transaction[g].task = call[g].order /\ task[call[g].order] = call[g].shown
                    ELSE task[call[g].order] > call[g].shown
               /\ \A f \in Handlers \ {g} :
                    Moved(f) /\ call[f].order = call[g].order => call[f].shown # call[g].shown
    BY <1>1, <2>3 DEF MoveInv
  <2>4. /\ call'[h].answer = TasksAnswer(call'[h].order, call'[h].shown + 1)
        /\ transaction'[h].state = "open" /\ transaction'[h].task = call'[h].order
        /\ task'[call'[h].order] = call'[h].shown
        /\ call'[h].order = o /\ call'[h].shown = call[h].shown
    BY <1>2, <1>3, <1>8, <1>9, <1>10
  <2> SUFFICES ASSUME NEW g \in Handlers, Moved(g)'
               PROVE  /\ call'[g].stage = "act" =>
                           call'[g].answer = TasksAnswer(call'[g].order, call'[g].shown + 1)
                      /\ IF transaction'[g].state = "open"
                           THEN /\ transaction'[g].task = call'[g].order
                                /\ task'[call'[g].order] = call'[g].shown
                           ELSE task'[call'[g].order] > call'[g].shown
                      /\ \A f \in Handlers \ {g} :
                           Moved(f)' /\ call'[f].order = call'[g].order =>
                             call'[f].shown # call'[g].shown
    BY DEF MoveInv
  <2>5. CASE g = h
    BY <2>1, <2>2, <2>4, <2>5
  <2>6. CASE g # h
    <3>1. /\ Moved(g) /\ call'[g] = call[g] /\ transaction'[g] = transaction[g]
          /\ call[g].order = o => call'[h].shown # call'[g].shown
      BY <2>1, <2>2, <2>4, <2>6
    <3>2. \A f \in Handlers \ {g} :
            Moved(f)' /\ call'[f].order = call'[g].order => call'[f].shown # call'[g].shown
      BY <2>1, <2>3, <2>4, <2>6, <3>1
    <3> QED
      BY <1>10, <2>3, <2>6, <3>1, <3>2
  <2> QED
    BY <2>5, <2>6
<1>13. ASSUME Shows(h) PROVE Shows(h)'
  <2>1. ~Told(h) /\ Told(h)' /\ Due(h, o)' /\ \A q \in Orders : ~Due(h, q)
    BY <1>1, <1>2, <1>6, <1>9, AnswerTypes DEF Told, Due
  <2>2. /\ \A q \in Orders \ {o} : Coming(q)' = Coming(q) /\ TaskComing(q)' = TaskComing(q)
        /\ TaskComing(o)' = n
    BY <1>4, <1>5, <1>10, NamesAssumption DEF Coming, TaskComing
  <2>3. summary' # NoAnswer =>
          Due(h, summary.order)' \/ summary'.value = Coming(summary.order)'
    <3>1. summary # NoAnswer => /\ summary.order \in Orders
                                /\ summary.value = Coming(summary.order)
      BY <1>13, <2>1, WorkspaceFacts DEF Shows
    <3> QED
      BY <1>7, <2>1, <2>2, <3>1 DEF page
  <2>4. \A i \in DOMAIN cards : \/ call'[h].order = cards[i].order
                                \/ cards[i].status = TaskComing(cards[i].order)'
    <3>1. \A i \in DOMAIN cards : cards[i].order \in Orders
      BY WorkspaceFacts
    <3> QED
      BY <1>2, <1>7, <1>9, <1>13, <2>1, <2>2, <3>1 DEF Shows, page
  <2>5. OneWriter'
    <3>1. OneWriter /\ (r # "none" => \A g \in Handlers : transaction[g].order # r)
      BY <1>5, <1>13 DEF Shows, Free
    <3> QED
      BY <1>10, <3>1 DEF OneWriter
  <2>6. TaskOrder # "none" /\ Len(cards) <= 1 /\ TaskOrder' = TaskOrder /\ cards' = cards
    BY <1>1, <1>7, <1>13 DEF Shows, TaskOrder, page
  <2> QED
    BY <1>1, <1>6, <1>9, <2>1, <2>2, <2>3, <2>4, <2>5, <2>6 DEF Shows
<1>14. disturbed' \in BOOLEAN /\ o # "none"
  BY <1>1, <1>7, NamesAssumption DEF TypeOK
<1> QED
  BY <1>1, <1>3, <1>5, <1>6, <1>7, <1>11, <1>12, <1>13, <1>14, WriteStep

\* A transaction commits: what was coming is there.
LEMMA Committed ==
  ASSUME WorkspaceInv, NEW h \in Handlers, Commit(h)
  PROVE  WorkspaceInv'
<1>1. /\ TypeOK /\ LockInv /\ MoveInv /\ PageInv /\ ScreenInv
      /\ \A g \in Handlers : CallInv(g)
  BY WorkspaceFacts
<1>2. PICK t \in Transaction : t = transaction[h]
  BY <1>1, TransactionFields
<1>3. /\ t.state = "open" /\ t.order \in Orders \cup {"none"} /\ t.task \in Orders \cup {"none"}
      /\ t.order # "none" => version[t.order] < MaxVersion
      /\ t.task # "none" => /\ task[t.task] < LastStatus
                            /\ \A g \in Handlers \ {h} : transaction[g].task # t.task
  BY <1>1, <1>2, TransactionTypes DEF Commit, LockInv
<1>4. /\ version' = [o \in Orders |-> version[o] + IF o = t.order THEN 1 ELSE 0]
      /\ task' = [o \in Orders |-> task[o] + IF o = t.task THEN 1 ELSE 0]
      /\ transaction' = [transaction EXCEPT ![h] = NoTransaction]
      /\ UNCHANGED page /\ call' = call /\ disturbed' = disturbed
  BY <1>2 DEF Commit
<1>5. /\ \A o \in Orders : /\ version'[o] = version[o] + IF o = t.order THEN 1 ELSE 0
                           /\ task'[o] = task[o] + IF o = t.task THEN 1 ELSE 0
                           /\ version[o] \in 0..MaxVersion /\ task[o] \in 0..LastStatus
      /\ MaxVersion \in Nat /\ LastStatus \in Nat
  BY <1>1, <1>4, NumbersAssumption DEF TypeOK
<1>6. /\ version' \in [Orders -> 0..MaxVersion] /\ task' \in [Orders -> 0..LastStatus]
      /\ \A o \in Orders : task'[o] \in Nat /\ task[o] <= task'[o]
  <2>1. \A o \in Orders : version'[o] \in 0..MaxVersion /\ task'[o] \in 0..LastStatus
    BY <1>3, <1>5, NamesAssumption
  <2> QED
    BY <1>4, <1>5, <2>1
<1>7. /\ transaction' \in [Handlers -> Transaction]
      /\ transaction'[h].state = "none" /\ transaction'[h].order = "none"
      /\ transaction'[h].task = "none"
      /\ \A g \in Handlers \ {h} : transaction'[g] = transaction[g]
  BY <1>1, <1>4, TransactionTypes DEF TypeOK
<1>8. TypeOK'
  BY <1>1, <1>4, <1>6, <1>7 DEF TypeOK, page
<1>9. /\ \A g \in Handlers : CallInv(g)'
      /\ PageInv'
  BY <1>1, <1>4 DEF CallInv, PageInv, page
<1>10. LockInv'
  <2>1. \A g \in Handlers \ {h} : transaction[g].task # "none" =>
          task'[transaction[g].task] = task[transaction[g].task]
    BY <1>1, <1>3, <1>5, TransactionFields
  <2>2. \A g \in Handlers : Waits(g, "act")' => Waits(g, "act")
    BY <1>4 DEF Waits
  <2> QED
    BY <1>1, <1>7, <2>1, <2>2 DEF LockInv
<1>11. MoveInv'
  <2> SUFFICES ASSUME NEW g \in Handlers, Moved(g)'
               PROVE  /\ call[g].stage = "act" =>
                           call[g].answer = TasksAnswer(call[g].order, call[g].shown + 1)
                      /\ IF transaction'[g].state = "open"
                           THEN /\ transaction'[g].task = call[g].order
                                /\ task'[call[g].order] = call[g].shown
                           ELSE task'[call[g].order] > call[g].shown
                      /\ \A f \in Handlers \ {g} :
                           Moved(f)' /\ call[f].order = call[g].order =>
                             call[f].shown # call[g].shown
    BY <1>4 DEF MoveInv
  <2>1. \A f \in Handlers : Moved(f)' => Moved(f)
    BY <1>2, <1>3, <1>4, <1>7, TransactionTypes DEF Moved
  <2>2. Moved(g) /\ call[g].order \in Orders /\ call[g].shown \in Nat
    BY <1>1, <2>1, CallFields DEF Moved, CallInv
  <2>3. CASE g = h
    <3>1. t.task = call[g].order /\ task[call[g].order] = call[g].shown
      BY <1>1, <1>2, <1>3, <2>2, <2>3 DEF MoveInv
    <3>2. task'[call[g].order] > call[g].shown
      BY <1>5, <2>2, <3>1
    <3> QED
      BY <1>1, <1>7, <2>1, <2>2, <2>3, <3>2 DEF MoveInv
  <2>4. CASE g # h
    <3>1. transaction'[g] = transaction[g]
      BY <1>7, <2>4
    <3>2. transaction[g].state = "open" => task'[call[g].order] = task[call[g].order]
      <4>1. ASSUME transaction[g].state = "open" PROVE call[g].order # t.task
        <5>1. transaction[g].task = call[g].order
          BY <1>1, <2>2, <4>1 DEF MoveInv
        <5> QED
          BY <1>3, <2>2, <2>4, <5>1, NamesAssumption
      <4> QED
        BY <1>5, <2>2, <4>1
    <3>3. task'[call[g].order] \in Nat /\ task[call[g].order] <= task'[call[g].order]
          /\ task[call[g].order] \in Nat
      BY <1>5, <1>6, <2>2
    <3> QED
      BY <1>1, <2>1, <2>2, <3>1, <3>2, <3>3 DEF MoveInv
  <2> QED
    BY <2>3, <2>4
<1>12. ASSUME ~disturbed' PROVE ScreenInv'
  <2>1. ~disturbed /\ OneWriter
    BY <1>1, <1>4, <1>12 DEF ScreenInv
  <2>2. \A o \in Orders : Coming(o)' = Coming(o)
    <3>1. ASSUME NEW o \in Orders, o = t.order PROVE Free(o)' /\ ~Free(o)
      BY <1>2, <1>7, <2>1, <3>1, NamesAssumption DEF Free, OneWriter
    <3>2. ASSUME NEW o \in Orders, o # t.order PROVE Free(o)' <=> Free(o)
      BY <1>2, <1>7, <3>2, NamesAssumption DEF Free
    <3> QED
      BY <1>5, <3>1, <3>2 DEF Coming
  <2>3. \A o \in Orders : TaskComing(o)' = TaskComing(o)
    <3>1. ASSUME NEW o \in Orders, o = t.task PROVE TaskFree(o)' /\ ~TaskFree(o)
      BY <1>2, <1>3, <1>7, <3>1, NamesAssumption DEF TaskFree
    <3>2. ASSUME NEW o \in Orders, o # t.task PROVE TaskFree(o)' <=> TaskFree(o)
      BY <1>2, <1>7, <3>2, NamesAssumption DEF TaskFree
    <3> QED
      BY <1>5, <3>1, <3>2 DEF TaskComing
  <2>4. OneWriter'
    BY <1>7, <2>1 DEF OneWriter
  <2> QED
    BY <1>4, <2>1, <2>2, <2>3, <2>4, ScreenKept, WorkspaceFacts DEF page
<1>13. ScreenInv'
  BY <1>12 DEF ScreenInv
<1> QED
  BY <1>8, <1>9, <1>10, <1>11, <1>13 DEF WorkspaceInv

\* A commit fails; the page is wrong from now on, but nobody has made the move
\* that was told.
LEMMA CommitFailed ==
  ASSUME WorkspaceInv, NEW h \in Handlers, CommitFails(h)
  PROVE  WorkspaceInv'
<1>1. /\ TypeOK /\ LockInv /\ MoveInv /\ PageInv /\ \A g \in Handlers : CallInv(g)
  BY WorkspaceFacts
<1>2. /\ transaction' = [transaction EXCEPT ![h] = Failed] /\ disturbed' = TRUE
      /\ version' = version /\ task' = task /\ UNCHANGED page /\ call' = call
  BY DEF CommitFails
<1>3. /\ transaction' \in [Handlers -> Transaction]
      /\ transaction'[h] = Failed /\ Failed.state = "failed" /\ Failed.task = "none"
      /\ \A g \in Handlers \ {h} : transaction'[g] = transaction[g]
  BY <1>1, <1>2, TransactionTypes DEF TypeOK
<1>4. TypeOK'
  BY <1>1, <1>2, <1>3 DEF TypeOK, page
<1>5. (\A g \in Handlers : CallInv(g)') /\ PageInv'
  BY <1>1, <1>2 DEF CallInv, PageInv, page
<1>6. LockInv'
  BY <1>1, <1>2, <1>3 DEF LockInv, Waits
<1>7. MoveInv'
  BY <1>1, <1>2, <1>3, MovesKept DEF Moved
<1> QED
  BY <1>2, <1>4, <1>5, <1>6, <1>7 DEF WorkspaceInv, ScreenInv

\* An order is read, for the page or after an advance.
LEMMA OrderServed ==
  ASSUME WorkspaceInv, NEW h \in Handlers, ServeOrder(h)
  PROVE  WorkspaceInv'
<1>1. /\ TypeOK /\ CallInv(h) /\ MoveInv /\ LockInv /\ call[h].answer = NoAnswer
      /\ \/ call[h].stage = "order"
         \/ call[h].stage = "act" /\ call[h].op \in {"lookup", "startup"}
  BY WorkspaceFacts DEF ServeOrder, Waits
<1>2. PICK o \in Orders : o = call[h].about
  BY <1>1, CallFields DEF CallInv
<1>3. version[o] > 0 /\ Answers(h, OrderAnswer(o, version[o]), ~Free(o)) /\ UNCHANGED server
  BY <1>2 DEF ServeOrder
<1>4. PICK n \in Nat : n = version[o] /\ n >= 1
  BY <1>3, WorkspaceFacts
<1> DEFINE a == OrderAnswer(o, n)
<1>5. a \in Answer /\ a.kind = "order" /\ a.order = o /\ a.value = n
  BY AnswerTypes
<1> HIDE DEF a
<1>6. /\ call' = [call EXCEPT ![h].answer = a] /\ UNCHANGED page
      /\ disturbed' = (disturbed \/ ~Free(o)) /\ version' = version /\ task' = task
      /\ transaction' = transaction
  BY <1>3, <1>4 DEF Answers, server, a
<1>7. /\ \A g \in Handlers \ {h} : call'[g] = call[g]
      /\ call'[h].op = call[h].op /\ call'[h].stage = call[h].stage
      /\ call'[h].order = call[h].order /\ call'[h].about = call[h].about
      /\ call'[h].shown = call[h].shown /\ call'[h].answer = a
  BY <1>1, <1>5, <1>6, Answered
<1>8. CallInv(h)' /\ Active(h)
  BY <1>1, <1>2, <1>4, <1>5, <1>6, <1>7, IdleFacts DEF CallInv, Active
<1>9. MoveInv' /\ LockInv'
  <2>1. \A g \in Handlers : Waits(g, "act")' => Waits(g, "act")
    BY <1>5, <1>7, AnswerTypes DEF Waits
  <2>2. LockInv'
    BY <1>1, <1>6, <2>1 DEF LockInv
  <2>3. \A g \in Handlers : Moved(g)' =>
          /\ Moved(g)
          /\ call'[g].order = call[g].order /\ call'[g].shown = call[g].shown
          /\ call'[g].stage = "act" => call[g].stage = "act" /\ call'[g].answer = call[g].answer
    BY <1>1, <1>5, <1>6, <1>7 DEF Moved
  <2> QED
    BY <1>6, <2>2, <2>3, MovesKept, WorkspaceFacts
<1>10. ASSUME ~disturbed', Shows(h) PROVE Shows(h)'
  <2>1. ~Told(h) /\ ~Told(h)' /\ \A p \in Orders : Due(h, p) => Due(h, p)'
    BY <1>1, <1>5, <1>7, AnswerTypes DEF Told, Due
  <2>2. summary' # NoAnswer =>
          Due(h, summary.order)' \/ summary'.value = Coming(summary.order)'
    BY <1>6, <1>10, <2>1, WorkspaceFacts DEF Shows, page, Coming, Free
  <2>3. n = Coming(o)'
    <3>1. Free(o)
      BY <1>6, <1>10
    <3>2. Coming(o) = n
      BY <1>4, <3>1 DEF Coming
    <3> QED
      BY <1>6, <3>2 DEF Coming, Free
  <2>4. \A i \in DOMAIN cards : cards[i].status = TaskComing(cards[i].order)'
    BY <1>6, <1>10, <2>1 DEF Shows, TaskComing, TaskFree, page
  <2>5. OneWriter' /\ cards' = cards /\ TaskOrder' = TaskOrder
    BY <1>6, <1>10 DEF Shows, OneWriter, TaskOrder, page
  <2> QED
    BY <1>1, <1>5, <1>7, <1>10, <2>2, <2>3, <2>4, <2>5 DEF Shows
<1>11. disturbed' \in BOOLEAN /\ transaction' \in [Handlers -> Transaction]
  BY <1>1, <1>6 DEF TypeOK
<1>12. ~disturbed' => ~disturbed /\ (Shows(h) => Shows(h)')
  BY <1>1, <1>6, <1>10 DEF TypeOK
<1> QED
  BY <1>5, <1>6, <1>8, <1>9, <1>11, <1>12, ServeStep

\* The tasks of an order are read.
LEMMA TasksServed ==
  ASSUME WorkspaceInv, NEW h \in Handlers, ServeTasks(h)
  PROVE  WorkspaceInv'
<1>1. /\ TypeOK /\ CallInv(h) /\ MoveInv /\ LockInv /\ call[h].answer = NoAnswer
      /\ call[h].stage = "tasks"
  BY WorkspaceFacts DEF ServeTasks, Waits
<1>2. PICK o \in Orders : o = call[h].about
  BY <1>1 DEF CallInv
<1>3. Answers(h, TasksAnswer(o, task[o]), ~TaskFree(o)) /\ UNCHANGED server
  BY <1>2 DEF ServeTasks
<1>4. PICK n \in Nat : n = task[o]
  BY WorkspaceFacts
<1> DEFINE a == TasksAnswer(o, n)
<1>5. a \in Answer /\ a.kind = "tasks" /\ a.order = o /\ a.value = n
  BY AnswerTypes
<1> HIDE DEF a
<1>6. /\ call' = [call EXCEPT ![h].answer = a] /\ UNCHANGED page
      /\ disturbed' = (disturbed \/ ~TaskFree(o)) /\ version' = version /\ task' = task
      /\ transaction' = transaction
  BY <1>3, <1>4 DEF Answers, server, a
<1>7. /\ \A g \in Handlers \ {h} : call'[g] = call[g]
      /\ call'[h].op = call[h].op /\ call'[h].stage = call[h].stage
      /\ call'[h].order = call[h].order /\ call'[h].about = call[h].about
      /\ call'[h].shown = call[h].shown /\ call'[h].answer = a
  BY <1>1, <1>5, <1>6, Answered
<1>8. CallInv(h)' /\ Active(h)
  BY <1>1, <1>2, <1>4, <1>5, <1>6, <1>7, IdleFacts DEF CallInv, Active
<1>9. MoveInv' /\ LockInv'
  <2>1. \A g \in Handlers : Waits(g, "act")' => Waits(g, "act")
    BY <1>5, <1>7, AnswerTypes DEF Waits
  <2>2. LockInv'
    BY <1>1, <1>6, <2>1 DEF LockInv
  <2>3. \A g \in Handlers : Moved(g)' =>
          /\ Moved(g)
          /\ call'[g].order = call[g].order /\ call'[g].shown = call[g].shown
          /\ call'[g].stage = "act" => call[g].stage = "act" /\ call'[g].answer = call[g].answer
    BY <1>1, <1>6, <1>7 DEF Moved
  <2> QED
    BY <1>6, <2>2, <2>3, MovesKept, WorkspaceFacts
<1>10. ASSUME ~disturbed', Shows(h) PROVE Shows(h)'
  <2>1. /\ ~Told(h) /\ ~Told(h)' /\ \A p \in Orders : Due(h, p) => Due(h, p)'
    BY <1>1, <1>7, AnswerTypes DEF Told, Due
  <2>2. summary' # NoAnswer =>
          Due(h, summary.order)' \/ summary'.value = Coming(summary.order)'
    BY <1>6, <1>10, <2>1, WorkspaceFacts DEF Shows, page, Coming, Free
  <2>3. n = TaskComing(o)'
    <3>1. TaskFree(o)
      BY <1>6, <1>10
    <3>2. TaskComing(o) = n
      BY <1>4, <3>1 DEF TaskComing
    <3> QED
      BY <1>6, <3>2 DEF TaskComing, TaskFree
  <2>4. OneWriter' /\ cards' = cards /\ cards = <<>> /\ TaskOrder' = TaskOrder
        /\ DOMAIN <<>> = {} /\ Len(<<>>) = 0
    BY <1>1, <1>6, <1>10 DEF Shows, OneWriter, TaskOrder, page
  <2> QED
    BY <1>1, <1>5, <1>7, <1>10, <2>2, <2>3, <2>4 DEF Shows
<1>11. disturbed' \in BOOLEAN /\ transaction' \in [Handlers -> Transaction]
  BY <1>1, <1>6 DEF TypeOK
<1>12. ~disturbed' => ~disturbed /\ (Shows(h) => Shows(h)')
  BY <1>1, <1>6, <1>10 DEF TypeOK
<1> QED
  BY <1>5, <1>6, <1>8, <1>9, <1>11, <1>12, ServeStep

\* The server refuses, has no such order, or the connection fails.
LEMMA AnswerFailed ==
  ASSUME WorkspaceInv, NEW h \in Handlers, Refuse(h) \/ NotFound(h) \/ Lose(h)
  PROVE  WorkspaceInv'
<1>1. /\ TypeOK /\ CallInv(h) /\ MoveInv /\ LockInv
      /\ Error \in Answer /\ Error.kind = "error" /\ Error # NoAnswer
  BY AnswerTypes, WorkspaceFacts
<1>2. /\ call' = [call EXCEPT ![h].answer = Error] /\ UNCHANGED page
      /\ version' = version /\ task' = task /\ transaction' = transaction
  BY DEF Refuse, NotFound, Lose, Answers, server
<1>3. \/ disturbed' = TRUE
      \/ disturbed' = disturbed /\ call[h].stage = "act" /\ call[h].answer = NoAnswer
  BY <1>1 DEF Refuse, NotFound, Lose, Answers, Waits, TypeOK
<1>4. Active(h)
  BY IdleFacts DEF Refuse, NotFound, Lose, Waits, Active
<1>5. /\ \A g \in Handlers \ {h} : call'[g] = call[g]
      /\ call'[h].op = call[h].op /\ call'[h].stage = call[h].stage
      /\ call'[h].order = call[h].order /\ call'[h].about = call[h].about
      /\ call'[h].shown = call[h].shown /\ call'[h].answer = Error
  BY <1>1, <1>2, Answered
<1>6. CallInv(h)'
  <2>1. call[h].op # "none" /\ call[h].stage # "idle"
    BY <1>1, <1>4 DEF CallInv, Active
  <2> QED
    BY <1>1, <1>2, <1>5, <2>1 DEF CallInv
<1>7. MoveInv' /\ LockInv'
  <2>1. \A g \in Handlers : Waits(g, "act")' => Waits(g, "act")
    BY <1>1, <1>5 DEF Waits
  <2>2. LockInv'
    BY <1>1, <1>2, <2>1 DEF LockInv
  <2>3. \A g \in Handlers : Moved(g)' =>
          /\ Moved(g)
          /\ call'[g].order = call[g].order /\ call'[g].shown = call[g].shown
          /\ call'[g].stage = "act" => call[g].stage = "act" /\ call'[g].answer = call[g].answer
    BY <1>1, <1>2, <1>5 DEF Moved
  <2> QED
    BY <1>2, <2>2, <2>3, MovesKept, WorkspaceFacts
<1>8. ASSUME ~disturbed', Shows(h) PROVE Shows(h)'
  <2>1. call[h].stage = "act" /\ call[h].answer = NoAnswer
    BY <1>3, <1>8
  <2>2. ~Told(h) /\ \A p \in Orders : ~Due(h, p)
    BY <2>1, AnswerTypes DEF Told, Due
  <2>3. summary' # NoAnswer => summary'.value = Coming(summary.order)'
    BY <1>2, <1>8, <2>2, WorkspaceFacts DEF Shows, page, Coming, Free
  <2>4. \A i \in DOMAIN cards : cards[i].status = TaskComing(cards[i].order)'
    BY <1>2, <1>8, <2>2 DEF Shows, TaskComing, TaskFree, page
  <2>5. OneWriter' /\ cards' = cards /\ TaskOrder' = TaskOrder /\ summary' = summary
    BY <1>2, <1>8 DEF Shows, OneWriter, TaskOrder, page
  <2> QED
    BY <1>1, <1>5, <1>8, <2>1, <2>3, <2>4, <2>5 DEF Shows
<1>9. disturbed' \in BOOLEAN /\ transaction' \in [Handlers -> Transaction]
  BY <1>1, <1>2, <1>3 DEF TypeOK
<1>10. ~disturbed' => ~disturbed /\ (Shows(h) => Shows(h)')
  BY <1>1, <1>3, <1>8 DEF TypeOK
<1> QED
  BY <1>1, <1>2, <1>4, <1>6, <1>7, <1>9, <1>10, ServeStep

\* Another window is at work; it waits for the tasks that are locked.
LEMMA ElsewhereActs ==
  ASSUME WorkspaceInv, NEW o \in Orders, Elsewhere(o)
  PROVE  WorkspaceInv'
<1>1. TypeOK /\ LockInv /\ MoveInv /\ PageInv /\ \A h \in Handlers : CallInv(h)
  BY DEF WorkspaceInv
<1>2. call' = call /\ UNCHANGED page /\ disturbed' = TRUE /\ transaction' = transaction
  BY DEF Elsewhere
<1>3. version[o] \in 0..MaxVersion /\ task[o] \in 0..LastStatus
  BY <1>1 DEF TypeOK
<1>4. version' \in [Orders -> 0..MaxVersion]
  <2>1. CASE version' = version
    BY <1>1, <2>1 DEF TypeOK
  <2>2. CASE version' = [version EXCEPT ![o] = 1]
    BY <1>1, <2>2, NumbersAssumption DEF TypeOK
  <2>3. CASE version[o] \in 1..(MaxVersion - 1) /\ version' = [version EXCEPT ![o] = @ + 1]
    BY <1>1, <1>3, <2>3, NumbersAssumption DEF TypeOK
  <2> QED
    BY <2>1, <2>2, <2>3 DEF Elsewhere
<1>5. /\ task' \in [Orders -> 0..LastStatus]
      /\ \A p \in Orders : /\ task[p] \in Nat /\ task'[p] \in Nat /\ task[p] <= task'[p]
                           /\ ~TaskFree(p) => task'[p] = task[p]
  <2>1. task \in [Orders -> 0..LastStatus] /\ \A p \in Orders : task[p] \in Nat
    BY <1>1, NumbersAssumption DEF TypeOK
  <2>2. CASE task' = task
    BY <2>1, <2>2
  <2>3. CASE task[o] < LastStatus /\ TaskFree(o) /\ task' = [task EXCEPT ![o] = @ + 1]
    <3>1. PICK n \in 0..LastStatus : n = task[o] + 1
      BY <1>3, <2>3, NumbersAssumption
    <3>2. task' = [task EXCEPT ![o] = n] /\ task[o] <= n /\ n \in Nat
      BY <1>3, <2>1, <2>3, <3>1
    <3>3. task' \in [Orders -> 0..LastStatus] /\ task'[o] = n
      BY <2>1, <3>1, <3>2
    <3>4. \A p \in Orders \ {o} : task'[p] = task[p]
      BY <2>1, <3>2
    <3> QED
      BY <2>1, <2>3, <3>2, <3>3, <3>4
  <2> QED
    BY <2>2, <2>3 DEF Elsewhere
<1>6. TypeOK'
  BY <1>1, <1>2, <1>4, <1>5 DEF TypeOK, page
<1>7. (\A h \in Handlers : CallInv(h)') /\ PageInv'
  BY <1>1, <1>2 DEF CallInv, PageInv, page
<1>8. \A h \in Handlers : transaction[h].task # "none" =>
        task'[transaction[h].task] = task[transaction[h].task]
  <2>1. \A h \in Handlers : transaction[h].task \in Orders => ~TaskFree(transaction[h].task)
    BY DEF TaskFree
  <2> QED
    BY <1>1, <1>5, <2>1, TransactionFields
<1>9. LockInv'
  <2>1. \A h \in Handlers : Waits(h, "act")' <=> Waits(h, "act")
    BY <1>2 DEF Waits
  <2> QED
    BY <1>1, <1>2, <1>8, <2>1 DEF LockInv
<1>10. MoveInv'
  <2>1. \A h \in Handlers : Moved(h)' <=> Moved(h)
    BY <1>2 DEF Moved
  <2>2. \A h \in Handlers : Moved(h) /\ transaction[h].state = "open" =>
          task'[call[h].order] = task[call[h].order]
    <3>1. \A h \in Handlers : Moved(h) => call[h].order # "none"
      BY <1>1, NamesAssumption DEF Moved, CallInv
    <3> QED
      BY <1>1, <1>8, <3>1 DEF MoveInv
  <2> QED
    BY <1>1, <1>2, <1>5, <2>1, <2>2, MovesKept
<1> QED
  BY <1>2, <1>6, <1>7, <1>9, <1>10 DEF WorkspaceInv, ScreenInv

-----------------------------------------------------------------------------
\* A handler starts: it may disable a form, or the button of a card, or empty
\* the task panel.
LEMMA StartStep ==
  ASSUME WorkspaceInv, NEW h \in Handlers, NEW op \in Ops, NEW stage \in {"act", "tasks"},
         NEW o \in Orders \cup {"none"}, NEW shown \in Nat, Starts(h, op, stage, o, shown),
         stage = "act" => op # "tasks" /\ (op # "create" => o \in Orders),
         stage = "tasks" => op = "tasks" /\ o \in Orders /\ TaskOrder # "none" /\ cards' = <<>>,
         op = "advance" => o \in Orders /\ shown < LastStatus /\ cards # <<>>,
         UNCHANGED <<context, summary, taskField>>, restored' \in BOOLEAN,
         disabled' \in SUBSET Forms, disabled' \subseteq disabled \cup {op},
         cards' \in Seq(Card),
         \/ cards' = <<>>
         \/ /\ Len(cards') = Len(cards)
            /\ \A i \in DOMAIN cards :
                 /\ cards'[i].order = cards[i].order /\ cards'[i].status = cards[i].status
                 /\ \/ cards'[i].handler = cards[i].handler
                    \/ op = "advance" /\ cards'[i].handler = h
  PROVE  WorkspaceInv'
<1>1. /\ TypeOK /\ CallInv(h) /\ LockInv /\ MoveInv /\ PageInv
      /\ \A g \in Handlers : CallInv(g)
  BY DEF WorkspaceInv
<1>2. /\ call' \in [Handlers -> Call] /\ call[h] = Idle
      /\ \A g \in Handlers \ {h} : call'[g] = call[g]
      /\ call'[h].op = op /\ call'[h].stage = stage
      /\ call'[h].order = o /\ call'[h].about = o
      /\ call'[h].shown = shown /\ call'[h].answer = NoAnswer
      /\ version' = version /\ task' = task
      /\ transaction' \in [Handlers -> Transaction] /\ transaction'[h].state # "open"
      /\ \A g \in Handlers : /\ transaction'[g].order = transaction[g].order
                             /\ transaction'[g].task = transaction[g].task
                             /\ g # h => transaction'[g] = transaction[g]
      /\ \A p \in Orders : (Free(p)' <=> Free(p)) /\ (TaskFree(p)' <=> TaskFree(p))
      /\ disturbed' = (disturbed \/ ~Quiet)
  BY <1>1, Started
<1>3. /\ call[h].op = "none" /\ ~Told(h) /\ ~Told(h)' /\ ~Moved(h)
      /\ ~Moved(h)'
  BY <1>2, IdleFacts, AnswerTypes DEF Told, Moved
<1>4. disturbed' \in BOOLEAN
  BY <1>2
<1>5. TypeOK'
  BY <1>1, <1>2, <1>4 DEF TypeOK
<1>6. \A g \in Handlers \ {h} : CallInv(g)'
  BY <1>1, <1>2 DEF CallInv
<1>7. CallInv(h)'
  <2>1. op # "none"
    BY DEF Ops, Forms
  <2> QED
    BY <1>2, <2>1, AnswerTypes DEF CallInv
<1>8. MoveInv' /\ LockInv'
  <2>1. \A g \in Handlers : Waits(g, "act")' => transaction'[g].state # "open"
    BY <1>1, <1>2 DEF LockInv, Waits
  <2>2. LockInv'
    BY <1>1, <1>2, <2>1, LocksKept
  <2>3. \A g \in Handlers : Moved(g)' =>
          /\ g # h /\ Moved(g) /\ call'[g] = call[g] /\ transaction'[g] = transaction[g]
    BY <1>2, <1>3 DEF Moved
  <2> QED
    BY <1>1, <1>2, <2>2, <2>3, MovesKept
<1>9. cards' = <<>> \/ DOMAIN cards' = DOMAIN cards
  BY <1>1 DEF TypeOK
<1>10. PageInv'
  <2>1. ASSUME NEW f \in disabled' PROVE \E g \in Handlers : call'[g].op = f
    <3>1. CASE f = op
      BY <1>2, <3>1
    <3>2. CASE f \in disabled
      <4>1. PICK g \in Handlers : call[g].op = f
        BY <1>1, <3>2 DEF PageInv
      <4>2. g # h
        BY <1>3, <4>1, <2>1 DEF Forms
      <4> QED
        BY <1>2, <4>1, <4>2
    <3> QED
      BY <3>1, <3>2
  <2>2. ASSUME NEW i \in DOMAIN cards'
        PROVE  /\ cards'[i].status >= 1
               /\ cards'[i].handler # "none" =>
                    /\ call'[cards'[i].handler].op = "advance"
                    /\ call'[cards'[i].handler].stage = "act"
    <3>1. cards' # <<>>
      BY <2>2
    <3>2. /\ i \in DOMAIN cards /\ cards'[i].status = cards[i].status
          /\ \/ cards'[i].handler = cards[i].handler
             \/ op = "advance" /\ cards'[i].handler = h
      BY <1>9, <3>1
    <3>3. /\ cards[i].status >= 1 /\ cards[i].handler \in Handlers \cup {"none"}
          /\ cards[i].handler # "none" => /\ call[cards[i].handler].op = "advance"
                                          /\ call[cards[i].handler].stage = "act"
      BY <1>1, <3>2, CardFields DEF PageInv
    <3>4. CASE cards'[i].handler = cards[i].handler
      BY <1>2, <1>3, <3>2, <3>3, <3>4
    <3>5. CASE op = "advance" /\ cards'[i].handler = h
      BY <1>2, <3>2, <3>3, <3>5
    <3> QED
      BY <3>2, <3>4, <3>5
  <2> QED
    BY <1>1, <2>1, <2>2 DEF PageInv
<1>11. ASSUME ~disturbed' PROVE ScreenInv'
  <2>1. ~disturbed /\ Quiet
    BY <1>2, <1>11
  <2>2. Shows(h) /\ \A g \in Handlers \ {h} : call[g] = Idle
    BY <2>1, ScreenFacts
  <2>3. \A p \in Orders : ~Due(h, p)
    BY <1>2, IdleShows
  <2>4. summary # NoAnswer => summary.value = Coming(summary.order)'
    BY <1>2, <2>2, <2>3, WorkspaceFacts DEF Shows, Coming
  <2>5. Len(cards') <= 1 /\ (cards' # <<>> => TaskOrder # "none")
    <3>1. CASE cards' = <<>>
      BY <3>1
    <3>2. CASE cards' # <<>>
      <4>1. Len(cards') = Len(cards) /\ cards \in Seq(Card)
        BY <1>1, <3>2 DEF TypeOK
      <4>2. cards # <<>>
        BY <3>2, <4>1
      <4> QED
        BY <2>2, <4>1, <4>2 DEF Shows
    <3> QED
      BY <3>1, <3>2
  <2>6. \A i \in DOMAIN cards' : cards'[i].status = TaskComing(cards[i].order)'
    <3>1. CASE cards' = <<>>
      BY <3>1
    <3>2. CASE cards' # <<>>
      <4>1. \A i \in DOMAIN cards : /\ cards[i].order \in Orders
                                     /\ cards[i].status = TaskComing(cards[i].order)
        BY <1>3, <2>2, WorkspaceFacts DEF Shows
      <4>2. \A p \in Orders : TaskComing(p)' = TaskComing(p)
        BY <1>2 DEF TaskComing
      <4> QED
        BY <1>9, <3>2, <4>1, <4>2
    <3> QED
      BY <3>1, <3>2
  <2>7. TaskOrder' = TaskOrder /\ (op = "advance" => TaskOrder # "none")
    BY <2>2 DEF TaskOrder, Shows
  <2>8. NoAnswer.kind = "none"
    BY AnswerTypes
  <2>9. OneWriter'
    BY <1>2, <2>2 DEF Shows, OneWriter
  <2>10. Shows(h)'
    BY <1>2, <2>4, <2>5, <2>6, <2>7, <2>8, <2>9 DEF Shows
  <2> QED
    BY <1>2, <2>2, <2>10, ScreenAfter
<1>12. ScreenInv'
  BY <1>11 DEF ScreenInv
<1> QED
  BY <1>5, <1>6, <1>7, <1>8, <1>10, <1>12 DEF WorkspaceInv

\* A form is submitted, or its order rejected.
LEMMA Submitted ==
  ASSUME WorkspaceInv, NEW h \in Handlers, NEW o \in Orders \cup {"none"}
  PROVE  /\ \A form \in Forms : Submit(h, form, o) => WorkspaceInv'
         /\ o \in Orders /\ Reject(h, o) => WorkspaceInv'
<1>1. /\ cards \in Seq(Card) /\ disabled \in SUBSET Forms /\ restored \in BOOLEAN
  BY WorkspaceFacts DEF TypeOK
<1>2. ASSUME NEW form \in Forms, Submit(h, form, o) PROVE WorkspaceInv'
  <2>1. /\ form \in Ops /\ form # "tasks" /\ form # "advance"
        /\ form # "create" => o \in Orders
    BY <1>2 DEF Submit, Ops, Forms
  <2>2. /\ Starts(h, form, "act", o, 0) /\ disabled' = disabled \cup {form}
        /\ UNCHANGED <<context, summary, taskField, cards, restored>>
    BY <1>2 DEF Submit
  <2> QED
    BY <1>1, <1>2, <2>1, <2>2, StartStep
<1>3. ASSUME o \in Orders, Reject(h, o) PROVE WorkspaceInv'
  <2>1. "reject" \in Ops /\ Starts(h, "reject", "act", o, 0) /\ UNCHANGED page
    BY <1>3 DEF Reject, Ops
  <2> QED
    BY <1>1, <1>3, <2>1, StartStep DEF page
<1> QED
  BY <1>2, <1>3

\* The tasks are asked for, or the order of the last visit.
LEMMA Loads ==
  ASSUME WorkspaceInv, NEW h \in Handlers, LoadTasks(h) \/ Restore(h)
  PROVE  WorkspaceInv'
<1>1. /\ cards \in Seq(Card) /\ disabled \in SUBSET Forms /\ restored \in BOOLEAN
      /\ context \in Orders \cup {"none"} /\ taskField \in Orders \cup {"none"}
  BY WorkspaceFacts DEF TypeOK
<1>2. TaskOrder \in Orders \cup {"none"} /\ "tasks" \in Ops /\ "startup" \in Ops
  BY <1>1 DEF TaskOrder, Ops
<1>3. CASE LoadTasks(h)
  <2>1. PICK o \in Orders : o = TaskOrder
    BY <1>2, <1>3 DEF LoadTasks
  <2>2. /\ Starts(h, "tasks", "tasks", o, 0) /\ TaskOrder # "none"
        /\ cards' = <<>> /\ UNCHANGED <<context, summary, taskField, disabled, restored>>
    BY <1>3, <2>1 DEF LoadTasks
  <2>3. cards' \in Seq(Card)
    BY <2>2
  <2> QED
    BY <1>1, <1>2, <2>1, <2>2, <2>3, StartStep
<1>4. CASE Restore(h)
  <2>1. PICK o \in Orders : o = context
    BY <1>1, <1>4 DEF Restore
  <2>2. /\ Starts(h, "startup", "act", o, 0) /\ restored' = TRUE
        /\ UNCHANGED <<context, summary, taskField, cards, disabled>>
    BY <1>4, <2>1 DEF Restore
  <2> QED
    BY <1>1, <1>2, <2>1, <2>2, StartStep
<1> QED
  BY <1>3, <1>4

\* The button of a card is clicked.
LEMMA Clicked ==
  ASSUME WorkspaceInv, NEW h \in Handlers, NEW i \in DOMAIN cards, Click(h, i)
  PROVE  WorkspaceInv'
<1>1. /\ TypeOK /\ cards \in Seq(Card) /\ disabled \in SUBSET Forms /\ restored \in BOOLEAN
  BY WorkspaceFacts DEF TypeOK
<1>2. PICK o \in Orders, n \in Nat : o = cards[i].order /\ n = cards[i].status
  BY <1>1, CardFields
<1>3. /\ Starts(h, "advance", "act", o, n) /\ n < LastStatus
      /\ cards' = [cards EXCEPT ![i].handler = h]
      /\ UNCHANGED <<context, summary, taskField, disabled, restored>>
  BY <1>2 DEF Click
<1> DEFINE card == [cards[i] EXCEPT !.handler = h]
<1>4. card \in Card /\ card.order = cards[i].order /\ card.status = cards[i].status
      /\ card.handler = h
  BY <1>1, CardFields DEF Card
<1>5. cards' = [cards EXCEPT ![i] = card]
  BY <1>3
<1> HIDE DEF card
<1>6. cards' \in Seq(Card) /\ Len(cards') = Len(cards) /\ cards # <<>>
  BY <1>1, <1>4, <1>5
<1>7. \A j \in DOMAIN cards :
        /\ cards'[j].order = cards[j].order /\ cards'[j].status = cards[j].status
        /\ cards'[j].handler = cards[j].handler \/ cards'[j].handler = h
  BY <1>1, <1>4, <1>5
<1>8. "advance" \in Ops
  BY DEF Ops
<1> QED
  BY <1>1, <1>2, <1>3, <1>6, <1>7, <1>8, StartStep

-----------------------------------------------------------------------------
\* Only the order of the workspace and the id in the task panel change: the
\* tasks are not left without an id.
LEMMA ContextStep ==
  ASSUME WorkspaceInv, UNCHANGED <<server, summary, cards, disabled, restored, call>>,
         context' \in Orders \cup {"none"}, taskField' \in Orders \cup {"none"},
         disturbed' \in BOOLEAN,
         ~disturbed' => /\ ~disturbed
                        /\ TaskOrder' # "none" \/ (Quiet /\ cards = <<>>)
  PROVE  WorkspaceInv'
<1>1. /\ TypeOK /\ LockInv /\ MoveInv /\ PageInv /\ ScreenInv
      /\ \A g \in Handlers : CallInv(g)
  BY DEF WorkspaceInv
<1>2. TypeOK'
  BY <1>1 DEF TypeOK, server
<1>3. \A g \in Handlers : CallInv(g)'
  BY <1>1 DEF CallInv
<1>4. LockInv' /\ MoveInv' /\ PageInv'
  BY <1>1 DEF LockInv, Waits, MoveInv, Moved, PageInv, server
<1>5. ASSUME ~disturbed' PROVE ScreenInv'
  <2>1. Quiet => \A h \in Handlers : call[h].stage = "idle" /\ call[h].op = "none"
    BY IdleFacts DEF Quiet
  <2>2. \A h \in Handlers : call[h].stage = "tasks" \/ call[h].op = "advance" =>
                              TaskOrder' # "none"
    BY <1>5, <2>1
  <2> QED
    BY <1>1, <1>5, <2>2
    DEF ScreenInv, Active, Due, Told, OneWriter, Coming, TaskComing, Free, TaskFree, server
<1>6. ScreenInv'
  BY <1>5 DEF ScreenInv
<1> QED
  BY <1>2, <1>3, <1>4, <1>6 DEF WorkspaceInv

\* An order id is typed, something is saved, or the workspace is cleared.
LEMMA ContextKept ==
  ASSUME WorkspaceInv, Save \/ Clear \/ \E o \in Orders : Type(o)
  PROVE  WorkspaceInv'
<1>1. context \in Orders \cup {"none"} /\ disturbed \in BOOLEAN
  BY DEF WorkspaceInv, TypeOK
<1>2. CASE Save \/ Clear
  <2>1. /\ UNCHANGED <<server, summary, cards, disabled, restored, call>>
        /\ context' \in Orders \cup {"none"} /\ taskField' = context'
        /\ disturbed' = (disturbed \/ (context' = "none" /\ ~(Quiet /\ cards = <<>>)))
    BY <1>1, <1>2 DEF Save, Clear, SyncContext
  <2>2. ~disturbed' => /\ ~disturbed
                       /\ TaskOrder' # "none" \/ (Quiet /\ cards = <<>>)
    BY <2>1 DEF TaskOrder
  <2>3. disturbed' \in BOOLEAN
    BY <2>1
  <2> QED
    BY <2>1, <2>2, <2>3, ContextStep
<1>3. CASE \E o \in Orders : Type(o)
  <2>1. PICK o \in Orders : Type(o)
    BY <1>3
  <2>2. TaskOrder' # "none"
    BY <2>1, NamesAssumption DEF Type, TaskOrder
  <2> QED
    BY <1>1, <2>1, <2>2, ContextStep DEF Type
<1> QED
  BY <1>2, <1>3

\* The page is opened.
LEMMA Opened ==
  /\ Init => WorkspaceInv
  /\ WorkspaceInv /\ Reload => WorkspaceInv'
<1>1. <<>> \in Seq(Card) /\ {} \in SUBSET Forms /\ NoAnswer \in Answer /\ Idle \in Call
  BY IdleFacts, AnswerTypes
<1>2. ASSUME Init PROVE WorkspaceInv
  <2>1. TypeOK
    <3>1. version \in [Orders -> 0..MaxVersion] /\ task \in [Orders -> 0..LastStatus]
      BY <1>2, NumbersAssumption DEF Init
    <3>2. context \in Orders \cup {"none"} /\ taskField \in Orders \cup {"none"}
      BY <1>2 DEF Init
    <3>3. call \in [Handlers -> Call] /\ transaction \in [Handlers -> Transaction]
      BY <1>1, <1>2, TransactionTypes DEF Init
    <3> QED
      BY <1>1, <1>2, <3>1, <3>2, <3>3 DEF Init, TypeOK
  <2>2. /\ summary = NoAnswer /\ cards = <<>> /\ disabled = {}
        /\ \A h \in Handlers : call[h] = Idle /\ transaction[h] = NoTransaction
    BY <1>2 DEF Init
  <2>3. \A h \in Handlers : CallInv(h) /\ ~Moved(h) /\ ~Active(h)
    BY <2>2, IdleShows
  <2>4. \A h \in Handlers : /\ call[h].answer.kind = "none" /\ call[h].stage = "idle"
                            /\ call[h].op = "none"
                            /\ transaction[h].state = "none" /\ transaction[h].order = "none"
                            /\ transaction[h].task = "none"
    BY <2>2, IdleFacts DEF NoTransaction
  <2>5. LockInv /\ MoveInv /\ PageInv
    BY <2>2, <2>3, <2>4 DEF LockInv, MoveInv, PageInv
  <2>6. ScreenInv
    BY <2>2, <2>3, <2>4 DEF ScreenInv, OneWriter
  <2> QED
    BY <2>1, <2>3, <2>5, <2>6 DEF WorkspaceInv
<1>3. ASSUME WorkspaceInv, Reload PROVE WorkspaceInv'
  <2>1. TypeOK /\ LockInv
    BY <1>3 DEF WorkspaceInv
  <2>2. disturbed' \in BOOLEAN
    BY <1>3 DEF Reload
  <2>3. TypeOK'
    BY <1>1, <1>3, <2>1, <2>2 DEF TypeOK, Reload, server
  <2>4. /\ summary' = NoAnswer /\ cards' = <<>> /\ disabled' = {}
        /\ \A h \in Handlers : call'[h] = Idle
    BY <1>3 DEF Reload
  <2>5. \A h \in Handlers : CallInv(h)' /\ ~Moved(h)' /\ ~Active(h)'
    BY <2>4, IdleShows
  <2>6. \A h \in Handlers : /\ call'[h].answer.kind = "none" /\ call'[h].stage = "idle"
                            /\ call'[h].op = "none"
    BY <2>4, IdleFacts
  <2>7. MoveInv' /\ PageInv'
    BY <2>4, <2>5 DEF MoveInv, PageInv
  <2>8. task' = task /\ transaction' = transaction
    BY <1>3 DEF Reload, server
  <2>9. LockInv'
    BY <2>1, <2>6, <2>8, LocksKept DEF Waits
  <2>10. ~disturbed' => OneWriter'
    <3>1. ~disturbed' => Settled
      BY <1>3 DEF Reload
    <3>2. Settled => \A h \in Handlers : transaction[h].order = "none"
      BY <2>1, TransactionFields DEF Settled
    <3> QED
      BY <2>8, <3>1, <3>2 DEF OneWriter
  <2>11. ScreenInv'
    BY <2>4, <2>5, <2>6, <2>10 DEF ScreenInv
  <2> QED
    BY <2>3, <2>5, <2>7, <2>9, <2>11 DEF WorkspaceInv
<1> QED
  BY <1>2, <1>3

-----------------------------------------------------------------------------
\* What the step of a handler may leave of the page.
LEMMA PageAfter ==
  ASSUME PageInv, NEW h \in Handlers, \A g \in Handlers \ {h} : call'[g] = call[g],
         disabled' \subseteq disabled, call'[h].op = call[h].op \/ call[h].op \notin disabled',
         \A i \in DOMAIN cards' :
           /\ cards'[i].status >= 1
           /\ cards'[i].handler # "none" =>
                /\ cards'[i].handler \in Handlers \ {h}
                /\ call[cards'[i].handler].op = "advance"
                /\ call[cards'[i].handler].stage = "act",
         summary' # NoAnswer => summary'.order \in Orders /\ summary'.value >= 1
  PROVE  PageInv'
<1>1. ASSUME NEW f \in disabled' PROVE \E g \in Handlers : call'[g].op = f
  <2>1. PICK g \in Handlers : call[g].op = f
    BY DEF PageInv
  <2> QED
    BY <2>1
<1> QED
  BY <1>1 DEF PageInv

\* The answer of h has arrived: it remains to be shown what has become of h
\* and of the page.
LEMMA ContinueStep ==
  ASSUME WorkspaceInv, NEW h \in Handlers, Active(h), UNCHANGED server,
         disturbed' = disturbed, TypeOK', \A g \in Handlers \ {h} : call'[g] = call[g],
         CallInv(h)', PageInv', call'[h].stage # "act",
         Moved(h)' => /\ Moved(h) /\ call'[h].order = call[h].order
                      /\ call'[h].shown = call[h].shown,
         ~disturbed /\ Shows(h) => Shows(h)'
  PROVE  WorkspaceInv'
<1>1. /\ TypeOK /\ LockInv /\ MoveInv /\ \A g \in Handlers : CallInv(g)
      /\ task' = task /\ transaction' = transaction
  BY DEF WorkspaceInv, server
<1>2. \A g \in Handlers \ {h} : CallInv(g)'
  BY <1>1 DEF CallInv
<1>3. MoveInv' /\ LockInv'
  <2>1. \A g \in Handlers : Waits(g, "act")' => Waits(g, "act")
    BY DEF Waits
  <2>2. LockInv'
    BY <1>1, <2>1, LocksKept DEF LockInv
  <2>3. \A g \in Handlers : Moved(g)' =>
          /\ Moved(g)
          /\ call'[g].order = call[g].order /\ call'[g].shown = call[g].shown
          /\ call'[g].stage = "act" => call[g].stage = "act" /\ call'[g].answer = call[g].answer
    BY <1>1 DEF Moved
  <2> QED
    BY <1>1, <2>2, <2>3, MovesKept
<1>4. ASSUME ~disturbed PROVE ScreenInv'
  <2>1. Shows(h) /\ \A g \in Handlers \ {h} : call'[g] = Idle
    BY <1>4, ScreenFacts
  <2> QED
    BY <1>4, <2>1, ScreenAfter
<1>5. ScreenInv'
  BY <1>4 DEF ScreenInv
<1> QED
  BY <1>2, <1>3, <1>5 DEF WorkspaceInv

\* An order is shown.
LEMMA OrderShown ==
  ASSUME WorkspaceInv, NEW h \in Handlers, ShowOrder(h)
  PROVE  WorkspaceInv'
<1>1. TypeOK /\ CallInv(h) /\ PageInv /\ call[h].answer.kind = "order"
  BY WorkspaceFacts DEF ShowOrder
<1>2. PICK a \in Answer : a = call[h].answer
  BY <1>1, CallFields
<1>3. /\ a.order \in Orders /\ a.value \in Nat /\ a.value >= 1 /\ a.order # "none"
      /\ a.kind = "order"
      /\ call[h].stage = "order" \/ (call[h].stage = "act" /\ call[h].op # "advance")
  BY <1>1, <1>2, CallFields, NamesAssumption DEF CallInv
<1>4. /\ context' = a.order /\ summary' = a /\ taskField' = a.order
      /\ UNCHANGED <<server, restored, disturbed>>
  BY <1>2 DEF ShowOrder, SetOrderSummary
<1>5. Active(h)
  BY <1>1, IdleFacts DEF Active
<1>6. CASE call[h].op = "approve"
  <2>1. cards' = <<>> /\ disabled' = disabled /\ Sends(h, "tasks", a.order)
    BY <1>2, <1>6 DEF ShowOrder
  <2>2. /\ call' \in [Handlers -> Call]
        /\ \A g \in Handlers \ {h} : call'[g] = call[g]
        /\ call'[h].op = "approve" /\ call'[h].stage = "tasks"
        /\ call'[h].order = call[h].order /\ call'[h].about = a.order
        /\ call'[h].answer = NoAnswer
    BY <1>1, <1>3, <1>6, <2>1, Sent
  <2>3. <<>> \in Seq(Card) /\ DOMAIN <<>> = {} /\ Len(<<>>) = 0
    OBVIOUS
  <2>4. TypeOK'
    BY <1>1, <1>3, <1>4, <2>1, <2>2, <2>3 DEF TypeOK, server
  <2>5. CallInv(h)' /\ ~Moved(h)' /\ call'[h].stage # "act"
    BY <1>3, <2>2, AnswerTypes, IdleFacts DEF CallInv, Moved
  <2>6. PageInv'
    BY <1>1, <1>3, <1>4, <1>6, <2>1, <2>2, <2>3, PageAfter
  <2>7. ASSUME ~disturbed, Shows(h) PROVE Shows(h)'
    <3>1. a.value = Coming(a.order)' /\ OneWriter'
      BY <1>1, <1>2, <1>4, <2>7 DEF Shows, OneWriter, Coming, Free, server
    <3>2. TaskOrder' # "none"
      BY <1>3, <1>4 DEF TaskOrder
    <3> QED
      BY <1>4, <2>1, <2>2, <2>3, <3>1, <3>2, AnswerTypes DEF Shows
  <2> QED
    BY <1>4, <1>5, <2>2, <2>4, <2>5, <2>6, <2>7, ContinueStep
<1>7. CASE call[h].op # "approve"
  <2>1. cards' = cards /\ Finish(h)
    BY <1>7 DEF ShowOrder
  <2>2. /\ call' \in [Handlers -> Call] /\ call'[h] = Idle
        /\ \A g \in Handlers \ {h} : call'[g] = call[g]
        /\ disabled' = disabled \ {call[h].op}
    BY <1>1, <2>1, Finished
  <2>3. TypeOK'
    BY <1>1, <1>3, <1>4, <2>1, <2>2 DEF TypeOK, server
  <2>4. CallInv(h)' /\ ~Moved(h)' /\ call'[h].stage # "act"
    BY <2>2, IdleShows, IdleFacts
  <2>5. \A i \in DOMAIN cards :
          /\ cards[i].status >= 1
          /\ cards[i].handler # "none" => /\ cards[i].handler \in Handlers \ {h}
                                          /\ call[cards[i].handler].op = "advance"
                                          /\ call[cards[i].handler].stage = "act"
    BY <1>1, <1>3, CardFields DEF PageInv
  <2>6. PageInv'
    BY <1>1, <1>3, <1>4, <2>1, <2>2, <2>5, PageAfter
  <2>7. ASSUME ~disturbed, Shows(h) PROVE Shows(h)'
    <3>1. a.value = Coming(a.order)' /\ OneWriter' /\ ~Told(h)
      BY <1>1, <1>2, <1>4, <2>7 DEF Shows, Told, OneWriter, Coming, Free, server
    <3>2. TaskOrder' # "none"
      BY <1>3, <1>4 DEF TaskOrder
    <3>3. \A i \in DOMAIN cards : cards[i].status = TaskComing(cards[i].order)'
      BY <1>4, <2>1, <2>7, <3>1 DEF Shows, TaskComing, TaskFree, server
    <3>4. /\ call'[h].answer.kind = "none" /\ call'[h].stage = "idle"
          /\ call'[h].op = "none"
      BY <2>2, IdleFacts
    <3> QED
      BY <1>4, <2>1, <2>7, <3>1, <3>2, <3>3, <3>4 DEF Shows
  <2> QED
    BY <1>4, <1>5, <2>2, <2>3, <2>4, <2>6, <2>7, ContinueStep
<1> QED
  BY <1>6, <1>7

\* The tasks are loaded again, for the task has moved.
LEMMA AdvanceShown ==
  ASSUME WorkspaceInv, NEW h \in Handlers, ShowAdvanced(h)
  PROVE  WorkspaceInv'
<1>1. /\ TypeOK /\ CallInv(h) /\ PageInv
      /\ call[h].op = "advance" /\ call[h].stage = "act" /\ call[h].answer.kind = "tasks"
      /\ TaskOrder # "none" /\ cards' = <<>> /\ Sends(h, "tasks", TaskOrder)
      /\ UNCHANGED <<server, context, summary, taskField, disabled, restored, disturbed>>
  BY WorkspaceFacts DEF ShowAdvanced
<1>2. PICK o \in Orders : o = TaskOrder
  BY <1>1 DEF TypeOK, TaskOrder
<1>3. /\ call' \in [Handlers -> Call]
      /\ \A g \in Handlers \ {h} : call'[g] = call[g]
      /\ call'[h].op = "advance" /\ call'[h].stage = "tasks"
      /\ call'[h].order = call[h].order /\ call'[h].about = o
      /\ call'[h].shown = call[h].shown /\ call'[h].answer = NoAnswer
  BY <1>1, <1>2, Sent
<1>4. Active(h)
  BY <1>1, IdleFacts DEF Active
<1>5. <<>> \in Seq(Card) /\ DOMAIN <<>> = {} /\ Len(<<>>) = 0
  OBVIOUS
<1>6. TypeOK'
  BY <1>1, <1>3, <1>5 DEF TypeOK, server
<1>7. CallInv(h)' /\ call'[h].stage # "act" /\ (Moved(h)' => Moved(h))
  BY <1>1, <1>3, AnswerTypes, IdleFacts DEF CallInv, Moved, server
<1>8. PageInv'
  <2>1. summary' # NoAnswer => summary'.order \in Orders /\ summary'.value >= 1
    BY <1>1 DEF PageInv
  <2> QED
    BY <1>1, <1>3, <1>5, <2>1, PageAfter
<1>9. ASSUME ~disturbed, Shows(h) PROVE Shows(h)'
  <2>1. \A p \in Orders : Due(h, p) => Due(h, p)'
    BY <1>1, <1>3 DEF Due
  <2>2. summary' # NoAnswer =>
          Due(h, summary.order)' \/ summary'.value = Coming(summary.order)'
    BY <1>1, <1>9, <2>1, WorkspaceFacts DEF Shows, Coming, Free, server
  <2>3. TaskOrder' # "none" /\ OneWriter'
    BY <1>1, <1>9 DEF TaskOrder, Shows, OneWriter, server
  <2> QED
    BY <1>1, <1>3, <1>5, <2>2, <2>3, AnswerTypes DEF Shows
<1> QED
  BY <1>1, <1>3, <1>4, <1>6, <1>7, <1>8, <1>9, ContinueStep

\* The card of the task is shown.
LEMMA TasksShown ==
  ASSUME WorkspaceInv, NEW h \in Handlers, ShowTasks(h)
  PROVE  WorkspaceInv'
<1>1. /\ TypeOK /\ CallInv(h) /\ PageInv
      /\ call[h].stage = "tasks" /\ call[h].answer.kind = "tasks"
      /\ UNCHANGED <<server, context, summary, taskField, restored, disturbed>>
  BY WorkspaceFacts DEF ShowTasks
<1>2. PICK o \in Orders, n \in Nat : o = call[h].answer.order /\ n = call[h].answer.value
  BY <1>1, CallFields DEF CallInv
<1> DEFINE card == [order |-> o, status |-> n, handler |-> "none"]
<1>3. card \in Card /\ card.order = o /\ card.status = n /\ card.handler = "none"
  BY DEF Card
<1>4. cards' = IF n = 0 THEN <<>> ELSE Append(cards, card)
  BY <1>2 DEF ShowTasks
<1> HIDE DEF card
<1>5. cards \in Seq(Card) /\ cards' \in Seq(Card)
  BY <1>1, <1>3, <1>4 DEF TypeOK
<1>6. \A i \in DOMAIN cards' : \/ i \in DOMAIN cards /\ cards'[i] = cards[i]
                               \/ n # 0 /\ cards'[i] = card
  BY <1>3, <1>4, <1>5
<1>7. Active(h)
  BY <1>1, IdleFacts DEF Active
<1>8. /\ call' \in [Handlers -> Call] /\ disabled' \subseteq disabled
      /\ \A g \in Handlers \ {h} : call'[g] = call[g]
      /\ call'[h].op = call[h].op \/ call[h].op \notin disabled'
      /\ CallInv(h)' /\ call'[h].stage # "act"
      /\ Moved(h)' => /\ Moved(h) /\ call'[h].order = call[h].order
                      /\ call'[h].shown = call[h].shown
      /\ \/ call'[h] = Idle /\ call[h].op # "advance"
         \/ /\ call'[h].op = "advance" /\ call[h].op = "advance"
            /\ call'[h].stage = "order" /\ call'[h].answer = NoAnswer
            /\ call'[h].order = call[h].order
  <2>1. CASE call[h].op = "advance"
    <3>1. Sends(h, "order", call[h].order) /\ disabled' = disabled
      BY <2>1 DEF ShowTasks
    <3>2. PICK p \in Orders : p = call[h].order
      BY <1>1, <2>1 DEF CallInv
    <3>3. /\ call' \in [Handlers -> Call]
          /\ \A g \in Handlers \ {h} : call'[g] = call[g]
          /\ call'[h].op = "advance" /\ call'[h].stage = "order"
          /\ call'[h].order = call[h].order /\ call'[h].about = p
          /\ call'[h].shown = call[h].shown /\ call'[h].answer = NoAnswer
      BY <1>1, <2>1, <3>1, <3>2, Sent
    <3>4. CallInv(h)' /\ call'[h].stage # "act" /\ (Moved(h)' => Moved(h))
      BY <1>1, <2>1, <3>2, <3>3, AnswerTypes, IdleFacts DEF CallInv, Moved, server
    <3> QED
      BY <2>1, <3>1, <3>3, <3>4
  <2>2. CASE call[h].op # "advance"
    <3>1. /\ call' \in [Handlers -> Call] /\ call'[h] = Idle
          /\ \A g \in Handlers \ {h} : call'[g] = call[g]
          /\ disabled' = disabled \ {call[h].op}
      BY <1>1, <2>2, Finished DEF ShowTasks
    <3> QED
      BY <2>2, <3>1, IdleShows, IdleFacts
  <2> QED
    BY <2>1, <2>2
<1>9. TypeOK'
  BY <1>1, <1>5, <1>8 DEF TypeOK, server
<1>10. PageInv'
  <2>1. summary' # NoAnswer => summary'.order \in Orders /\ summary'.value >= 1
    BY <1>1 DEF PageInv
  <2>2. \A i \in DOMAIN cards :
          /\ cards[i].status >= 1
          /\ cards[i].handler # "none" => /\ cards[i].handler \in Handlers \ {h}
                                          /\ call[cards[i].handler].op = "advance"
                                          /\ call[cards[i].handler].stage = "act"
    BY <1>1, CardFields DEF PageInv
  <2>3. \A i \in DOMAIN cards' :
          /\ cards'[i].status >= 1
          /\ cards'[i].handler # "none" => /\ cards'[i].handler \in Handlers \ {h}
                                           /\ call[cards'[i].handler].op = "advance"
                                           /\ call[cards'[i].handler].stage = "act"
    BY <1>2, <1>3, <1>6, <2>2
  <2> QED
    BY <1>1, <1>8, <2>1, <2>3, PageAfter
<1>11. ASSUME ~disturbed, Shows(h) PROVE Shows(h)'
  <2>1. /\ cards = <<>> /\ TaskOrder # "none" /\ n = TaskComing(o)
        /\ \A p \in Orders : Due(h, p) => call[h].op = "advance" /\ call[h].order = p
    BY <1>1, <1>2, <1>11 DEF Shows, Due
  <2>2. \A p \in Orders : Due(h, p) => Due(h, p)'
    BY <1>8, <2>1 DEF Due
  <2>3. summary' # NoAnswer =>
          Due(h, summary.order)' \/ summary'.value = Coming(summary.order)'
    BY <1>1, <1>11, <2>2, WorkspaceFacts DEF Shows, Coming, Free, server
  <2>4. TaskOrder' # "none" /\ OneWriter'
    BY <1>1, <1>11, <2>1 DEF TaskOrder, Shows, OneWriter, server
  <2>5. Len(cards') <= 1
    BY <1>3, <1>4, <2>1
  <2>6. \A i \in DOMAIN cards' : cards'[i].status = TaskComing(cards[i].order)'
    <3>1. TaskComing(o)' = n
      BY <1>1, <2>1 DEF TaskComing, TaskFree, server
    <3> QED
      BY <1>3, <1>6, <2>1, <3>1
  <2>7. /\ call'[h].answer.kind = "none" /\ call'[h].stage \in {"idle", "order"}
    BY <1>8, IdleFacts, AnswerTypes
  <2> QED
    BY <2>3, <2>4, <2>5, <2>6, <2>7 DEF Shows
<1> QED
  BY <1>1, <1>7, <1>8, <1>9, <1>10, <1>11, ContinueStep

\* An error is shown, and what h had disabled works again.
LEMMA ErrorShown ==
  ASSUME WorkspaceInv, NEW h \in Handlers, ShowError(h)
  PROVE  WorkspaceInv'
<1>1. /\ TypeOK /\ CallInv(h) /\ PageInv
      /\ \/ call[h].answer.kind = "error"
         \/ call[h].op = "advance" /\ call[h].stage = "act" /\ TaskOrder = "none"
      /\ UNCHANGED <<server, context, summary, taskField, restored, disturbed>>
  BY WorkspaceFacts DEF ShowError
<1>2. /\ call' \in [Handlers -> Call] /\ call'[h] = Idle
      /\ \A g \in Handlers \ {h} : call'[g] = call[g]
      /\ disabled' = disabled \ {call[h].op}
  BY <1>1, Finished DEF ShowError
<1>3. cards \in Seq(Card) /\ cards \in [1..Len(cards) -> Card] /\ Len(cards) \in Nat
      /\ DOMAIN cards = 1..Len(cards)
  BY <1>1 DEF TypeOK
<1>4. \A i \in DOMAIN cards : [cards[i] EXCEPT !.handler = "none"] \in Card
  BY <1>1, CardFields DEF Card
<1>5. cards' \in [1..Len(cards) -> Card]
  BY <1>3, <1>4 DEF ShowError
<1>6. cards' \in Seq(Card) /\ Len(cards') = Len(cards) /\ DOMAIN cards' = DOMAIN cards
  BY <1>3, <1>5
<1>7. \A i \in DOMAIN cards :
        /\ cards'[i].order = cards[i].order /\ cards'[i].status = cards[i].status
        /\ \/ cards'[i].handler = "none"
           \/ cards'[i].handler = cards[i].handler /\ cards[i].handler # h
  <2>1. ASSUME NEW i \in DOMAIN cards
        PROVE  LET c == [cards[i] EXCEPT !.handler = "none"]
               IN  c.order = cards[i].order /\ c.status = cards[i].status
                   /\ c.handler = "none"
    BY <1>1, CardFields DEF Card
  <2> QED
    BY <2>1 DEF ShowError
<1>8. Active(h)
  BY <1>1, IdleFacts DEF Active
<1>9. TypeOK'
  BY <1>1, <1>2, <1>6 DEF TypeOK, server
<1>10. CallInv(h)' /\ ~Moved(h)' /\ call'[h].stage # "act"
  BY <1>2, IdleShows, IdleFacts
<1>11. PageInv'
  <2>1. summary' # NoAnswer => summary'.order \in Orders /\ summary'.value >= 1
    BY <1>1 DEF PageInv
  <2>2. \A i \in DOMAIN cards' :
          /\ cards'[i].status >= 1
          /\ cards'[i].handler # "none" => /\ cards'[i].handler \in Handlers \ {h}
                                           /\ call[cards'[i].handler].op = "advance"
                                           /\ call[cards'[i].handler].stage = "act"
    BY <1>1, <1>6, <1>7, CardFields DEF PageInv
  <2> QED
    BY <1>1, <1>2, <2>1, <2>2, PageAfter
<1>12. ASSUME ~disturbed, Shows(h) PROVE Shows(h)'
  <2>1. call[h].answer.kind = "error" /\ call[h].stage = "act"
    BY <1>1, <1>12 DEF Shows
  <2>2. ~Told(h) /\ \A p \in Orders : ~Due(h, p)
    BY <2>1 DEF Told, Due
  <2>3. summary # NoAnswer => summary.value = Coming(summary.order)'
    BY <1>1, <1>12, <2>2, WorkspaceFacts DEF Shows, Coming, Free, server
  <2>4. \A i \in DOMAIN cards' : cards'[i].status = TaskComing(cards[i].order)'
    <3>1. \A i \in DOMAIN cards : cards[i].status = TaskComing(cards[i].order)
      BY <1>12, <2>2 DEF Shows
    <3>2. \A o : TaskComing(o)' = TaskComing(o)
      BY <1>1 DEF TaskComing, TaskFree, server
    <3> QED
      BY <1>6, <1>7, <3>1, <3>2
  <2>5. cards # <<>> \/ cards' = <<>>
    BY <1>3, <1>6
  <2>6. TaskOrder' = TaskOrder /\ OneWriter'
    BY <1>1, <1>12 DEF TaskOrder, Shows, OneWriter, server
  <2>7. /\ call'[h].answer.kind = "none" /\ call'[h].stage = "idle" /\ call'[h].op = "none"
    BY <1>2, IdleFacts
  <2> QED
    BY <1>1, <1>6, <1>12, <2>3, <2>4, <2>5, <2>6, <2>7 DEF Shows
<1> QED
  BY <1>1, <1>2, <1>8, <1>9, <1>10, <1>11, <1>12, ContinueStep

-----------------------------------------------------------------------------
\* In every state of the page, what waits, what is disabled and what is shown
\* belong together.
THEOREM WorkspaceInvariant == Spec => []WorkspaceInv
<1>1. Init => WorkspaceInv
  BY Opened
<1>2. WorkspaceInv /\ [Next]_vars => WorkspaceInv'
  <2> SUFFICES ASSUME WorkspaceInv, [Next]_vars PROVE WorkspaceInv'
    OBVIOUS
  <2>1. ASSUME NEW h \in Handlers, Serve(h) PROVE WorkspaceInv'
    BY <2>1, CreateServed, ChangeServed, AdvanceServed, OrderServed, TasksServed, AnswerFailed,
       Committed, CommitFailed
    DEF Serve
  <2>2. ASSUME NEW h \in Handlers, Continue(h) PROVE WorkspaceInv'
    BY <2>2, OrderShown, AdvanceShown, TasksShown, ErrorShown DEF Continue
  <2>3. CASE UNCHANGED vars
    <3>1. /\ UNCHANGED page /\ UNCHANGED server /\ call' = call /\ disturbed' = disturbed
          /\ task' = task /\ transaction' = transaction
      BY <2>3 DEF vars, server
    <3>2. TypeOK' /\ PageInv' /\ \A h \in Handlers : CallInv(h)'
      BY <3>1, WorkspaceFacts DEF WorkspaceInv, server, page, TypeOK, CallInv, PageInv
    <3>3. LockInv' /\ MoveInv'
      BY <3>1 DEF WorkspaceInv, LockInv, Waits, MoveInv, Moved
    <3>4. ScreenInv'
      BY <3>1 DEF WorkspaceInv, ScreenInv, Active, Told, Due, TaskOrder, OneWriter,
                  Coming, TaskComing, Free, TaskFree, page, server
    <3> QED
      BY <3>2, <3>3, <3>4 DEF WorkspaceInv
  <2> QED
    BY <2>1, <2>2, <2>3, Submitted, Loads, Clicked, ElsewhereActs, ContextKept, Opened
    DEF Next
<1> QED
  BY <1>1, <1>2, PTL DEF Spec

\* The variables have their types: a handler waits for one request, and a card
\* shows a status that there is.
THEOREM WorkspaceTypesCorrect == Spec => []TypeOK
<1>1. WorkspaceInv => TypeOK
  BY DEF WorkspaceInv
<1> QED
  BY <1>1, WorkspaceInvariant, PTL

\* Of any number of workers who are told that they moved a task, each moves it to
\* the status after the one on the button, now or when the request commits, and
\* no two of them make the same move.
THEOREM MovesCorrect == Spec => []MovedAsShown
<1>1. WorkspaceInv => MovedAsShown
  BY DEF WorkspaceInv, MoveInv, MovedAsShown
<1> QED
  BY <1>1, WorkspaceInvariant, PTL

\* Once the page waits for nothing, nothing is disabled, and undisturbed it
\* shows what the database has, or has as soon as what is open is committed.
THEOREM ScreenCorrect == Spec => []ScreenIsTrue
<1>1. WorkspaceInv => ScreenIsTrue
  <2> SUFFICES ASSUME WorkspaceInv, Quiet PROVE ScreenIsTrue
    BY DEF ScreenIsTrue
  <2>1. TypeOK /\ PageInv /\ ScreenInv
    BY DEF WorkspaceInv
  <2>2. \A h \in Handlers : /\ call[h].op = "none" /\ ~Told(h)
                            /\ \A o \in Orders : ~Due(h, o)
    BY IdleFacts, IdleShows DEF Quiet
  <2>3. disabled = {}
    BY <2>1, <2>2 DEF PageInv, TypeOK, Forms
  <2>4. \A i \in DOMAIN cards : cards[i].handler = "none"
    BY <2>1, <2>2, CardFields DEF PageInv
  <2>5. ~disturbed =>
          /\ summary # NoAnswer => summary.value = Coming(summary.order)
          /\ Len(cards) <= 1
          /\ \A i \in DOMAIN cards : cards[i].status = TaskComing(cards[i].order)
    BY <2>1, <2>2 DEF ScreenInv, PageInv
  <2> QED
    BY <2>3, <2>4, <2>5 DEF ScreenIsTrue
<1> QED
  BY <1>1, WorkspaceInvariant, PTL
=============================================================================
