------------------------------ MODULE Workspace ------------------------------
(***************************************************************************)
(* The operations page (static/app.js) in one browser window, over the     *)
(* API.  Its handlers are asynchronous functions: they run without a break *)
(* between two awaits, and several may be waiting at once.  A handler      *)
(* sends a request, the server serves it at some later time, and the       *)
(* answer arrives later still, so answers may overtake each other.         *)
(*                                                                         *)
(* The transaction of a request commits in get_session, after its endpoint *)
(* has returned.  FastAPI runs that before the response is sent, or, from  *)
(* 0.118 on, after it: requirements.txt admits both.  So Commit is a step  *)
(* of its own here, which may come before the answer arrives, or after.    *)
(*                                                                         *)
(* Of an order the page shows one state after another, numbered here; of   *)
(* the tasks of an order one is modelled, with its status as a number of   *)
(* steps: 0 before it exists, 1 pending, LastStatus ready_to_ship.         *)
(* context is what localStorage keeps.  The catalog table is left out.     *)
(***************************************************************************)
EXTENDS Naturals, Sequences

CONSTANTS
  Orders,
  Handlers,     \* bound: handlers that wait at the same time
  MaxVersion,   \* bound: states of an order
  LastStatus

ASSUME NamesAssumption == "none" \notin Orders \cup Handlers
ASSUME NumbersAssumption == MaxVersion \in Nat \ {0} /\ LastStatus \in Nat \ {0}

VARIABLES
  version,    \* the state of each order in the database, 0: no such order
  task,       \* the status of its task
  transaction,  \* the transaction of each handler's last request
  context,    \* context.order
  summary,    \* the order panel: an order and its state
  taskField,  \* the input task-order-id
  cards,      \* the task panel: order, status, and the handler of its button
  disabled,   \* the forms that are disabled
  restored,   \* the page has asked for the order of the last visit
  call,       \* what each handler waits for
  disturbed   \* requests have overlapped or were lost, or were served before a
              \* commit that they depend on, a commit has failed, the tasks have
              \* been left without the id of their order, or another window has
              \* acted

server == <<version, task, transaction>>
page == <<context, summary, taskField, cards, disabled, restored>>
vars == <<server, page, call, disturbed>>

-----------------------------------------------------------------------------
\* "change" is an item added to the draft, or its confirmation.
Forms == {"create", "change", "approve", "lookup"}
Ops == Forms \cup {"reject", "tasks", "advance", "startup"}

\* An answer: an order with its state, a task list, or an error.
Answer == [kind : {"none", "error", "order", "tasks"},
           order : Orders \cup {"none"}, value : Nat]
NoAnswer == [kind |-> "none", order |-> "none", value |-> 0]
Error    == [kind |-> "error", order |-> "none", value |-> 0]
OrderAnswer(o, n) == [kind |-> "order", order |-> o, value |-> n]
TasksAnswer(o, n) == [kind |-> "tasks", order |-> o, value |-> n]

\* A handler works for order; it has sent the request of its stage, which is
\* about an order, and was started by a button that showed a status.
Call == [op : Ops \cup {"none"}, stage : {"idle", "act", "tasks", "order"},
         order : Orders \cup {"none"}, about : Orders \cup {"none"},
         shown : Nat, answer : Answer]
Idle == [op |-> "none", stage |-> "idle", order |-> "none", about |-> "none",
         shown |-> 0, answer |-> NoAnswer]

\* An open transaction brings an order to its next state, moves a task, or
\* both; "none" has committed, or there was none; "failed" was rolled back
\* after its answer.
NoTransaction == [state |-> "none", order |-> "none", task |-> "none"]
Failed        == [state |-> "failed", order |-> "none", task |-> "none"]
Open(o, p)    == [state |-> "open", order |-> o, task |-> p]
Transaction ==
  {NoTransaction, Failed}
    \cup {Open(o, p) : o \in Orders \cup {"none"}, p \in Orders \cup {"none"}}

Card == [order : Orders, status : Nat, handler : Handlers \cup {"none"}]

TypeOK ==
  /\ version \in [Orders -> 0..MaxVersion]
  /\ task \in [Orders -> 0..LastStatus]
  /\ transaction \in [Handlers -> Transaction]
  /\ context \in Orders \cup {"none"}
  /\ summary \in Answer
  /\ taskField \in Orders \cup {"none"}
  /\ cards \in Seq(Card)
  /\ disabled \in SUBSET Forms
  /\ restored \in BOOLEAN
  /\ call \in [Handlers -> Call]
  /\ disturbed \in BOOLEAN

\* The page is opened, with the order of the last visit if there was one.
Init ==
  /\ version \in [Orders -> {0, 1}]
  /\ task = [o \in Orders |-> 0]
  /\ transaction = [h \in Handlers |-> NoTransaction]
  /\ context \in {o \in Orders : version[o] > 0} \cup {"none"}
  /\ summary = NoAnswer
  /\ taskField = context
  /\ cards = <<>>
  /\ disabled = {}
  /\ restored = FALSE
  /\ call = [h \in Handlers |-> Idle]
  /\ disturbed = FALSE

-----------------------------------------------------------------------------
(***************************************************************************)
(* What starts a handler.                                                  *)
(***************************************************************************)
Quiet == \A h \in Handlers : call[h] = Idle
Settled == \A h \in Handlers : transaction[h].state # "open"

\* Bound: a handler is one whose last request has been committed or rolled back.
Starts(h, op, stage, o, shown) ==
  /\ call[h] = Idle
  /\ transaction[h].state # "open"
  /\ call' = [call EXCEPT ![h] = [op |-> op, stage |-> stage, order |-> o,
                                  about |-> o, shown |-> shown, answer |-> NoAnswer]]
  /\ transaction' = [transaction EXCEPT ![h] = NoTransaction]
  /\ disturbed' = (disturbed \/ ~Quiet)
  /\ UNCHANGED <<version, task>>

\* handleForm: the form is read, disabled and sent.  The order id in it is
\* whatever was typed or filled in.
Submit(h, form, o) ==
  /\ form \notin disabled
  /\ (form = "create") = (o = "none")
  /\ Starts(h, form, "act", o, 0)
  /\ disabled' = disabled \cup {form}
  /\ UNCHANGED <<context, summary, taskField, cards, restored>>

\* The reject button is in the form that approves, and disables nothing.
Reject(h, o) ==
  /\ "approve" \notin disabled
  /\ Starts(h, "reject", "act", o, 0)
  /\ UNCHANGED page

\* Whose tasks loadTasks asks for.
TaskOrder == IF taskField # "none" THEN taskField ELSE context

LoadTasks(h) ==
  /\ TaskOrder # "none"
  /\ Starts(h, "tasks", "tasks", TaskOrder, 0)
  /\ cards' = <<>>
  /\ UNCHANGED <<context, summary, taskField, disabled, restored>>

\* The button of a card, which it disables, asks for the next status.
Click(h, i) ==
  /\ cards[i].handler = "none"
  /\ cards[i].status < LastStatus
  /\ Starts(h, "advance", "act", cards[i].order, cards[i].status)
  /\ cards' = [cards EXCEPT ![i].handler = h]
  /\ UNCHANGED <<context, summary, taskField, disabled, restored>>

\* The last thing that opening the page does.
Restore(h) ==
  /\ ~restored
  /\ context # "none"
  /\ Starts(h, "startup", "act", context, 0)
  /\ restored' = TRUE
  /\ UNCHANGED <<context, summary, taskField, cards, disabled>>

\* An order id is typed over the one in the task panel.
Type(o) ==
  /\ taskField' = o
  /\ UNCHANGED <<server, context, summary, cards, disabled, restored, call, disturbed>>

\* syncContext.  It may empty the field that the buttons of the cards go by.
SyncContext ==
  /\ taskField' = context'
  /\ disturbed' = (disturbed \/ (context' = "none" /\ ~(Quiet /\ cards = <<>>)))

\* A facility, a user or a resident was saved.
Save ==
  /\ UNCHANGED context
  /\ SyncContext
  /\ UNCHANGED <<server, summary, cards, disabled, restored, call>>

\* clear-workspace
Clear ==
  /\ context' = "none"
  /\ SyncContext
  /\ UNCHANGED <<server, summary, cards, disabled, restored, call>>

\* The page is opened again; requests that were not served may still be, and
\* transactions that are open may commit.
Reload ==
  /\ summary' = NoAnswer
  /\ taskField' = context
  /\ cards' = <<>>
  /\ disabled' = {}
  /\ restored' = FALSE
  /\ call' = [h \in Handlers |-> Idle]
  /\ disturbed' = ~(Quiet /\ Settled)
  /\ UNCHANGED <<server, context>>

-----------------------------------------------------------------------------
(***************************************************************************)
(* The server, which may also refuse any request.                          *)
(***************************************************************************)
Waits(h, stage) == call[h].stage = stage /\ call[h].answer = NoAnswer

\* overtakes: served before the commit of a transaction that matters to it.
Answers(h, a, overtakes) ==
  /\ call' = [call EXCEPT ![h].answer = a]
  /\ disturbed' = (disturbed \/ overtakes)
  /\ UNCHANGED page

\* No open transaction has written the order, or the task of the order.
Free(o) == \A h \in Handlers : transaction[h].order # o
TaskFree(o) == \A h \in Handlers : transaction[h].task # o

\* The endpoint returns; what it has written is not committed yet.
Writes(h, o, p) ==
  /\ transaction' = [transaction EXCEPT ![h] = Open(o, p)]
  /\ UNCHANGED <<version, task>>

ServeCreate(h) ==
  /\ Waits(h, "act")
  /\ call[h].op = "create"
  /\ \E o \in Orders :
       /\ version[o] = 0 /\ Free(o)
       /\ Writes(h, o, "none")
       /\ Answers(h, OrderAnswer(o, 1), FALSE)

\* An item is added, or the order confirmed, approved or rejected; the last two
\* lock its row.  The automation that an approval runs may make tasks.
ServeChange(h) ==
  LET o == call[h].about
  IN  /\ Waits(h, "act")
      /\ call[h].op \in {"change", "approve", "reject"}
      /\ call[h].op # "change" => Free(o)
      /\ version[o] \in 1..(MaxVersion - 1)
      /\ \/ Writes(h, o, "none")
         \/ /\ call[h].op = "approve"
            /\ \E p \in Orders : /\ task[p] = 0 /\ version[p] > 0 /\ TaskFree(p)
                                 /\ Writes(h, o, p)
      /\ Answers(h, OrderAnswer(o, version[o] + 1), ~Free(o))

\* An order may become ready with its task.
AdvanceWrites(h, o) ==
  /\ \/ Writes(h, "none", o)
     \/ /\ task[o] + 1 = LastStatus
        /\ version[o] \in 1..(MaxVersion - 1) /\ Free(o)
        /\ Writes(h, o, o)
  /\ Answers(h, TasksAnswer(o, task[o] + 1), FALSE)

\* Mutants of ServeAdvance: any advance is a step ahead; the row of the task is
\* not locked.
ServeAdvanceAny(h) ==
  LET o == call[h].about
  IN  /\ Waits(h, "act")
      /\ call[h].op = "advance"
      /\ TaskFree(o)
      /\ AdvanceWrites(h, o)

ServeAdvanceUnlocked(h) ==
  LET o == call[h].about
  IN  /\ Waits(h, "act")
      /\ call[h].op = "advance"
      /\ task[o] = call[h].shown
      /\ AdvanceWrites(h, o)

\* The row of the task is locked, and has to be where the button showed it.
ServeAdvance(h) ==
  LET o == call[h].about
  IN  /\ Waits(h, "act")
      /\ call[h].op = "advance"
      /\ TaskFree(o)
      /\ task[o] = call[h].shown
      /\ AdvanceWrites(h, o)

\* get_session commits.  Bound: an order that others have taken to its last
\* state has no next one.
Commit(h) ==
  LET t == transaction[h]
  IN  /\ t.state = "open"
      /\ t.order # "none" => version[t.order] < MaxVersion
      /\ version' = [o \in Orders |-> version[o] + IF o = t.order THEN 1 ELSE 0]
      /\ task' = [o \in Orders |-> task[o] + IF o = t.task THEN 1 ELSE 0]
      /\ transaction' = [transaction EXCEPT ![h] = NoTransaction]
      /\ UNCHANGED <<page, call, disturbed>>

\* The commit fails, or the process dies first, whatever was answered.
CommitFails(h) ==
  /\ transaction[h].state = "open"
  /\ transaction' = [transaction EXCEPT ![h] = Failed]
  /\ disturbed' = TRUE
  /\ UNCHANGED <<version, task, page, call>>

ServeOrder(h) ==
  LET o == call[h].about
  IN  /\ \/ Waits(h, "order")
         \/ Waits(h, "act") /\ call[h].op \in {"lookup", "startup"}
      /\ version[o] > 0
      /\ Answers(h, OrderAnswer(o, version[o]), ~Free(o))
      /\ UNCHANGED server

ServeTasks(h) ==
  LET o == call[h].about
  IN  /\ Waits(h, "tasks")
      /\ version[o] > 0
      /\ Answers(h, TasksAnswer(o, task[o]), ~TaskFree(o))
      /\ UNCHANGED server

Refuse(h) ==
  /\ Waits(h, "act")
  /\ Answers(h, Error, FALSE)
  /\ UNCHANGED server

\* There is no such order: the rest of the handler is skipped.
NotFound(h) ==
  /\ Waits(h, "tasks") \/ Waits(h, "order")
  /\ version[call[h].about] = 0
  /\ call' = [call EXCEPT ![h].answer = Error]
  /\ disturbed' = TRUE
  /\ UNCHANGED <<server, page>>

\* The connection fails, before the request is served or after.
Lose(h) ==
  /\ call[h] # Idle
  /\ call[h].answer # Error
  /\ call' = [call EXCEPT ![h].answer = Error]
  /\ disturbed' = TRUE
  /\ UNCHANGED <<server, page>>

\* Another window, or a request that this one no longer waits for.
Elsewhere(o) ==
  /\ \/ version[o] = 0 /\ Free(o) /\ version' = [version EXCEPT ![o] = 1] /\ UNCHANGED task
     \/ /\ version[o] \in 1..(MaxVersion - 1)
        /\ version' = [version EXCEPT ![o] = @ + 1] /\ UNCHANGED task
     \/ /\ version[o] > 0 /\ task[o] < LastStatus /\ TaskFree(o)
        /\ task' = [task EXCEPT ![o] = @ + 1] /\ UNCHANGED version
  /\ disturbed' = TRUE
  /\ UNCHANGED <<page, call, transaction>>

-----------------------------------------------------------------------------
(***************************************************************************)
(* What a handler does when its answer arrives.                            *)
(***************************************************************************)
Sends(h, stage, o) ==
  call' = [call EXCEPT ![h].stage = stage, ![h].about = o, ![h].answer = NoAnswer]

Finish(h) ==
  /\ call' = [call EXCEPT ![h] = Idle]
  /\ disabled' = disabled \ {call[h].op}

\* setOrderSummary, with the setContext and the syncContext in it
SetOrderSummary(a) ==
  /\ context' = a.order
  /\ summary' = a
  /\ taskField' = a.order

\* An order is shown; an approval goes on to load its tasks.
ShowOrder(h) ==
  /\ call[h].answer.kind = "order"
  /\ SetOrderSummary(call[h].answer)
  /\ IF call[h].op = "approve"
       THEN /\ cards' = <<>>
            /\ Sends(h, "tasks", call[h].answer.order)
            /\ UNCHANGED disabled
       ELSE Finish(h) /\ UNCHANGED cards
  /\ UNCHANGED <<server, restored, disturbed>>

\* The task has moved: the tasks are loaded, of the order in the field.
ShowAdvanced(h) ==
  /\ call[h].op = "advance" /\ call[h].stage = "act"
  /\ call[h].answer.kind = "tasks"
  /\ TaskOrder # "none"
  /\ cards' = <<>>
  /\ Sends(h, "tasks", TaskOrder)
  /\ UNCHANGED <<server, context, summary, taskField, disabled, restored, disturbed>>

\* Mutant of ShowTasks: after an advance only the tasks are loaded again.
ShowTasksOnly(h) ==
  LET a == call[h].answer
  IN  /\ call[h].stage = "tasks"
      /\ a.kind = "tasks"
      /\ cards' = IF a.value = 0 THEN <<>>
                  ELSE Append(cards, [order |-> a.order, status |-> a.value,
                                      handler |-> "none"])
      /\ Finish(h)
      /\ UNCHANGED <<server, context, summary, taskField, restored, disturbed>>

\* A card is appended for the task; after an advance its order is loaded.
ShowTasks(h) ==
  LET a == call[h].answer
  IN  /\ call[h].stage = "tasks"
      /\ a.kind = "tasks"
      /\ cards' = IF a.value = 0 THEN <<>>
                  ELSE Append(cards, [order |-> a.order, status |-> a.value,
                                      handler |-> "none"])
      /\ IF call[h].op = "advance" THEN Sends(h, "order", call[h].order) /\ UNCHANGED disabled
                                   ELSE Finish(h)
      /\ UNCHANGED <<server, context, summary, taskField, restored, disturbed>>

\* A toast shows the error; the form, or the card's button, works again.
ShowError(h) ==
  /\ \/ call[h].answer.kind = "error"
     \/ /\ call[h].op = "advance" /\ call[h].stage = "act"
        /\ call[h].answer.kind = "tasks" /\ TaskOrder = "none"
  /\ cards' = [i \in DOMAIN cards |->
                 IF cards[i].handler = h THEN [cards[i] EXCEPT !.handler = "none"]
                                         ELSE cards[i]]
  /\ Finish(h)
  /\ UNCHANGED <<server, context, summary, taskField, restored, disturbed>>

-----------------------------------------------------------------------------
Serve(h) ==
  \/ ServeCreate(h)
  \/ ServeChange(h)
  \/ ServeAdvance(h)
  \/ ServeOrder(h)
  \/ ServeTasks(h)
  \/ Commit(h)
  \/ CommitFails(h)
  \/ Refuse(h)
  \/ NotFound(h)
  \/ Lose(h)

Continue(h) ==
  \/ ShowOrder(h)
  \/ ShowAdvanced(h)
  \/ ShowTasks(h)
  \/ ShowError(h)

Next ==
  \/ \E h \in Handlers :
       \/ \E form \in Forms, o \in Orders \cup {"none"} : Submit(h, form, o)
       \/ \E o \in Orders : Reject(h, o)
       \/ LoadTasks(h)
       \/ \E i \in DOMAIN cards : Click(h, i)
       \/ Restore(h)
       \/ Serve(h)
       \/ Continue(h)
  \/ \E o \in Orders : Type(o) \/ Elsewhere(o)
  \/ Save
  \/ Clear
  \/ Reload

Spec == Init /\ [][Next]_vars

-----------------------------------------------------------------------------
\* The state of an order, and the status of its task, once all that is open
\* has been committed.
Coming(o) == version[o] + IF Free(o) THEN 0 ELSE 1
TaskComing(o) == task[o] + IF TaskFree(o) THEN 0 ELSE 1

\* Once the page waits for nothing all of it can be used, and what it shows is
\* what the database has, or has as soon as what it has answered for is
\* committed: the state of the order, and one card with the status of the task.
\* The latter needs requests that do not overlap, fail half way or overtake the
\* commit of an earlier one, and nobody else at work.
ScreenIsTrue ==
  Quiet =>
    /\ disabled = {}
    /\ \A i \in DOMAIN cards : cards[i].handler = "none"
    /\ ~disturbed =>
         /\ summary # NoAnswer => summary.value = Coming(summary.order)
         /\ Len(cards) <= 1
         /\ \A i \in DOMAIN cards : cards[i].status = TaskComing(cards[i].order)

\* h has been told that it moved its task, and the move has not been undone by
\* a commit that failed after the answer.
Moved(h) ==
  /\ call[h].op = "advance"
  /\ call[h].stage # "act" \/ call[h].answer.kind = "tasks"
  /\ transaction[h] # Failed

\* Of the workers who are told that they moved a task each moves it to the
\* status after the one on the button, now or when the request commits, and no
\* two of them make the same move, however old their cards were, however late
\* their commits are and whoever else moves the task meanwhile.
MovedAsShown ==
  \A h \in Handlers : Moved(h) =>
    LET o == call[h].order
    IN  /\ call[h].stage = "act" => call[h].answer = TasksAnswer(o, call[h].shown + 1)
        /\ IF transaction[h].state = "open" THEN task[o] = call[h].shown
                                            ELSE task[o] > call[h].shown
        /\ \A g \in Handlers \ {h} :
             Moved(g) /\ call[g].order = o => call[g].shown # call[h].shown
=============================================================================
