----------------------------- MODULE Idempotency ----------------------------
(***************************************************************************)
(* POST requests that carry an Idempotency-Key: reliability_middleware of  *)
(* api.py around the endpoint, and the rows of idempotency_records.        *)
(*                                                                         *)
(* A call is one POST.  A client that retries, or sends the same request   *)
(* twice at once, makes several calls with the same key; one that reuses   *)
(* a key by mistake makes calls with different requests (a request stands  *)
(* for the method, the path and the hash of the body).  Each call is       *)
(* served by a process of its own as far as the database can tell, and a   *)
(* process may die between any two of its transactions.                    *)
(*                                                                         *)
(* The commit of the endpoint's own transaction is in get_session, after   *)
(* the endpoint returned.  The FastAPI releases that requirements.txt      *)
(* admits differ in when that code runs: before the response is handed to  *)
(* the middleware (commitFirst) or after it.  Either may be installed.     *)
(***************************************************************************)
EXTENDS Naturals, FiniteSets

CONSTANTS
  Calls, Keys, Requests,
  MaxAttempts,  \* max_attempts of retry_transient_database_operation
  Faults        \* what may go wrong: see Fault

Fault == {"crash",            \* a process dies
          "lost_ack",         \* a commit succeeds but its answer is lost
          "lost_completion"}  \* the outcome of a call cannot be recorded

ASSUME AttemptsAssumption == MaxAttempts \in Nat \ {0}
ASSUME CallsAssumption == "nobody" \notin Calls
ASSUME RequestsAssumption == "none" \notin Requests
ASSUME FaultsAssumption == Faults \subseteq Fault

VARIABLES
  commitFirst,  \* the endpoint commits before its response is recorded
  pc,           \* where each call is
  key,          \* the Idempotency-Key of each call
  request,      \* what each call asks for
  attempt,      \* attempts of begin that each call has made
  response,     \* what the endpoint answered, for the calls that executed it
  answer,       \* what was sent to the client
  pending,      \* calls whose endpoint has answered and not yet committed
  applied,      \* calls whose business transaction is committed
  record        \* the idempotency record of each key

vars == <<commitFirst, pc, key, request, attempt, response, answer, pending,
          applied, record>>
callVars == <<commitFirst, key, request>>

-----------------------------------------------------------------------------
Response == [by : Calls, ok : BOOLEAN]
NoResponse == [by |-> "nobody", ok |-> FALSE]

\* What a client is told: nothing yet, a refusal of the middleware, or the
\* endpoint's response, first hand or replayed.
Told == [kind : {"nothing", "conflict", "in_progress", "error", "response"},
         response : Response \cup {NoResponse}]
Refusal(kind) == [kind |-> kind, response |-> NoResponse]
Final(resp) == [kind |-> "response", response |-> resp]

\* A record is processing until it has a response, then succeeded or failed.
Record == [request : Requests, response : Response \cup {NoResponse}]
NoRecord == [request |-> "none", response |-> NoResponse]

Starting == {"select", "insert", "reread"}
Active == Starting \cup {"execute", "complete"}

TypeOK ==
  /\ commitFirst \in BOOLEAN
  /\ pc \in [Calls -> Active \cup {"idle", "done", "dead"}]
  /\ key \in [Calls -> Keys]
  /\ request \in [Calls -> Requests]
  /\ attempt \in [Calls -> 1..MaxAttempts]
  /\ response \in [Calls -> Response \cup {NoResponse}]
  /\ answer \in [Calls -> Told]
  /\ pending \in SUBSET Calls
  /\ applied \in SUBSET Calls
  /\ record \in [Keys -> Record \cup {NoRecord}]

\* The key and the request of a call mean nothing before it is sent.
Init ==
  /\ commitFirst \in BOOLEAN
  /\ pc = [c \in Calls |-> "idle"]
  /\ \E k \in Keys : key = [c \in Calls |-> k]
  /\ \E r \in Requests : request = [c \in Calls |-> r]
  /\ attempt = [c \in Calls |-> 1]
  /\ response = [c \in Calls |-> NoResponse]
  /\ answer = [c \in Calls |-> Refusal("nothing")]
  /\ pending = {}
  /\ applied = {}
  /\ record = [k \in Keys |-> NoRecord]

-----------------------------------------------------------------------------
Goto(c, label) == pc' = [pc EXCEPT ![c] = label]

Reply(c, a) == Goto(c, "done") /\ answer' = [answer EXCEPT ![c] = a]

Send(c, k, r) ==
  /\ pc[c] = "idle"
  /\ Goto(c, "select")
  /\ key' = [key EXCEPT ![c] = k]
  /\ request' = [request EXCEPT ![c] = r]
  /\ UNCHANGED <<commitFirst, attempt, response, answer, pending, applied, record>>

\* Mutant of Decide: the request is not compared with the recorded one.
DecideByKey(c) ==
  LET rec == record[key[c]]
  IN  IF rec.response = NoResponse THEN Reply(c, Refusal("in_progress"))
                                   ELSE Reply(c, Final(rec.response))

\* _decision_for_existing, and what the middleware answers to each decision
Decide(c) ==
  LET rec == record[key[c]]
  IN  IF rec.request # request[c] THEN Reply(c, Refusal("conflict"))
      ELSE IF rec.response = NoResponse THEN Reply(c, Refusal("in_progress"))
      ELSE Reply(c, Final(rec.response))

\* begin looks the key up.
Select(c) ==
  /\ pc[c] = "select"
  /\ IF record[key[c]] = NoRecord
       THEN Goto(c, "insert") /\ UNCHANGED answer
       ELSE Decide(c)
  /\ UNCHANGED <<callVars, attempt, response, pending, applied, record>>

\* Mutant of InsertRecord: the key is not unique, the last row counts.
InsertRecordAgain(c) ==
  record' = [record EXCEPT ![key[c]] = [request  |-> request[c],
                                       response |-> NoResponse]]

InsertRecord(c) ==
  /\ record[key[c]] = NoRecord
  /\ record' = [record EXCEPT ![key[c]] = [request  |-> request[c],
                                           response |-> NoResponse]]

\* begin commits a new record, and the endpoint may run.
Insert(c) ==
  /\ pc[c] = "insert"
  /\ InsertRecord(c)
  /\ Goto(c, "execute")
  /\ UNCHANGED <<callVars, attempt, response, answer, pending, applied>>

\* The unique key was inserted by another call since the select.
InsertRefused(c) ==
  /\ pc[c] = "insert"
  /\ record[key[c]] # NoRecord
  /\ Goto(c, "reread")
  /\ UNCHANGED <<callVars, attempt, response, answer, pending, applied, record>>

Reread(c) ==
  /\ pc[c] = "reread"
  /\ Decide(c)
  /\ UNCHANGED <<callVars, attempt, response, pending, applied, record>>

\* Mutant of RetryOrGiveUp: one attempt too many.
RetryOnceMore(c) ==
  \/ /\ attempt[c] <= MaxAttempts
     /\ Goto(c, "select")
     /\ attempt' = [attempt EXCEPT ![c] = @ + 1]
     /\ UNCHANGED answer
  \/ Reply(c, Refusal("error")) /\ UNCHANGED attempt

\* After a database error begin starts again, or gives up and the call ends
\* in an internal error without running the endpoint.
RetryOrGiveUp(c) ==
  \/ /\ attempt[c] < MaxAttempts
     /\ Goto(c, "select")
     /\ attempt' = [attempt EXCEPT ![c] = @ + 1]
     /\ UNCHANGED answer
  \/ Reply(c, Refusal("error")) /\ UNCHANGED attempt

BeginFails(c) ==
  /\ pc[c] \in Starting
  /\ RetryOrGiveUp(c)
  /\ UNCHANGED <<callVars, response, pending, applied, record>>

\* The connection is lost after the record was committed.
InsertAckLost(c) ==
  /\ "lost_ack" \in Faults
  /\ pc[c] = "insert"
  /\ InsertRecord(c)
  /\ RetryOrGiveUp(c)
  /\ UNCHANGED <<callVars, response, pending, applied>>

-----------------------------------------------------------------------------
Responds(c, ok) ==
  /\ pc[c] = "execute"
  /\ Goto(c, "complete")
  /\ response' = [response EXCEPT ![c] = [by |-> c, ok |-> ok]]
  /\ UNCHANGED <<callVars, attempt, answer, record>>

\* The endpoint succeeds; its transaction commits now or later.
Execute(c) ==
  /\ Responds(c, TRUE)
  /\ IF commitFirst
       THEN applied' = applied \cup {c} /\ UNCHANGED pending
       ELSE pending' = pending \cup {c} /\ UNCHANGED applied

\* Mutants of ExecuteFails: the failure is answered as a success; the outcome
\* of a failure is not recorded.
ExecuteFailsSilently(c) == Responds(c, TRUE) /\ UNCHANGED <<pending, applied>>

ExecuteFailsUnrecorded(c) ==
  /\ pc[c] = "execute"
  /\ Reply(c, Refusal("error"))
  /\ UNCHANGED <<callVars, attempt, response, pending, applied, record>>

\* The endpoint refuses (a 4xx answer) or raises, and rolls back.
ExecuteFails(c) == Responds(c, FALSE) /\ UNCHANGED <<pending, applied>>

\* It raises because the answer to its commit was lost.
ExecuteAckLost(c) ==
  /\ "lost_ack" \in Faults
  /\ commitFirst
  /\ Responds(c, FALSE)
  /\ applied' = applied \cup {c}
  /\ UNCHANGED pending

\* The commit after the response: it succeeds or fails, whoever was told what.
CommitLate(c) ==
  /\ c \in pending
  /\ pending' = pending \ {c}
  /\ applied' \in {applied, applied \cup {c}}
  /\ UNCHANGED <<callVars, pc, attempt, response, answer, record>>

\* Mutant of Complete: the client is answered and nothing is recorded.
CompleteNothing(c) ==
  /\ pc[c] = "complete"
  /\ Reply(c, Final(response[c]))
  /\ UNCHANGED <<callVars, attempt, response, pending, applied, record>>

\* complete records the response, and the client gets it.
Complete(c) ==
  /\ pc[c] = "complete"
  /\ record' = [record EXCEPT ![key[c]].response = response[c]]
  /\ Reply(c, Final(response[c]))
  /\ UNCHANGED <<callVars, attempt, response, pending, applied>>

\* Mutant of CompleteFails: the record is given up, for the client to retry.
CompleteFailsForgets(c) ==
  /\ "lost_completion" \in Faults
  /\ pc[c] = "complete"
  /\ record' = [record EXCEPT ![key[c]] = NoRecord]
  /\ Reply(c, Final(response[c]))
  /\ UNCHANGED <<callVars, attempt, response, pending, applied>>

\* complete fails: the middleware logs it and answers all the same.
CompleteFails(c) ==
  /\ "lost_completion" \in Faults
  /\ pc[c] = "complete"
  /\ Reply(c, Final(response[c]))
  /\ UNCHANGED <<callVars, attempt, response, pending, applied, record>>

\* The process serving c dies; an open transaction is rolled back.
Die(c) ==
  /\ "crash" \in Faults
  /\ pc[c] \in Active
  /\ Goto(c, "dead")
  /\ pending' = pending \ {c}
  /\ UNCHANGED <<callVars, attempt, response, answer, applied, record>>

Serve(c) ==
  \/ Select(c)
  \/ Insert(c)
  \/ InsertRefused(c)
  \/ Reread(c)
  \/ BeginFails(c)
  \/ InsertAckLost(c)
  \/ Execute(c)
  \/ ExecuteFails(c)
  \/ ExecuteAckLost(c)
  \/ CommitLate(c)
  \/ Complete(c)
  \/ CompleteFails(c)

Next == \E c \in Calls : \/ \E k \in Keys, r \in Requests : Send(c, k, r)
                         \/ Serve(c)
                         \/ Die(c)

Spec == Init /\ [][Next]_vars

\* A process that does not die goes on serving its call.
FairSpec == Spec /\ \A c \in Calls : WF_vars(Serve(c))

-----------------------------------------------------------------------------
\* A key never has its business operation performed twice, whatever calls
\* race, die, lose answers or are sent again.
AppliedOnce == \A c, d \in applied : key[c] = key[d] => c = d

\* The calls that were given a final answer.
Answered == {c \in Calls : answer[c].kind = "response"}

\* A replay is the original response: a final answer comes from the one call
\* that executed the same request under the same key, so all final answers
\* for a key are equal.
ReplayIsOriginal ==
  /\ \A c \in Answered :
       LET e == answer[c].response.by
       IN  /\ key[e] = key[c] /\ request[e] = request[c]
           /\ response[e] = answer[c].response
  /\ \A c, d \in Answered : key[c] = key[d] => answer[c] = answer[d]

\* The one call that executed the operation of k, when there is one.
Executed(k) == {c \in Calls : key[c] = k /\ response[c] # NoResponse}

Once == INSTANCE OnceOnly WITH
          outcome   <- [k \in Keys |-> IF Executed(k) = {} THEN NoResponse
                                      ELSE response[CHOOSE c \in Executed(k) : TRUE]],
          performed <- {<<c, key[c]>> : c \in applied},
          told      <- {<<c, key[c], answer[c].response>> : c \in Answered}

\* The middleware and its records implement OnceOnly: a key has one outcome,
\* performed at most once by the call that executed it, and it is the only
\* one that any call is told, through every fault.
KeysAreOnceOnly == Once!Spec

\* A success that a client is told, first or replayed, has been committed,
\* when the endpoint commits before it answers.
SuccessIsCommitted ==
  \A c \in Answered :
    commitFirst /\ answer[c].response.ok => answer[c].response.by \in applied

\* A recorded outcome is never replaced by another.
OutcomeIsFinal ==
  [][\A k \in Keys :
       record[k].response # NoResponse => record'[k] = record[k]]_vars

\* A client is told that its request is in progress only while another call
\* with the key is being served.
InProgressIsTrue ==
  [][\A c \in Calls :
       answer[c].kind # "in_progress" /\ answer'[c].kind = "in_progress" =>
         \E d \in Calls \ {c} : key[d] = key[c] /\ pc[d] \in {"execute", "complete"}]_vars

\* A key that was taken gets an outcome to replay.
KeyIsSettled ==
  \A k \in Keys : record[k] # NoRecord ~> record[k].response # NoResponse
=============================================================================
