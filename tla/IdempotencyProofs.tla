------------------------- MODULE IdempotencyProofs --------------------------
(***************************************************************************)
(* Theorems about Idempotency, for any calls, keys, requests, number of    *)
(* attempts and faults.                                                    *)
(***************************************************************************)
EXTENDS Idempotency, TLAPS

\* The calls that execute their request, or have.
Owner(c) == pc[c] \in {"execute", "complete"} \/ response[c] # NoResponse

\* Of the calls with one key at most one gets past begin.
OneOwner ==
  \A c, d \in Calls : Owner(c) /\ Owner(d) /\ key[c] = key[d] => c = d

\* It is the one that the record of the key was made for.
OwnerHasRecord ==
  \A c \in Calls : Owner(c) => record[key[c]].request = request[c]

\* A recorded outcome is the response of that call.
OutcomeHasOwner ==
  \A k \in Keys :
    LET rec == record[k]
    IN  rec.response # NoResponse =>
          /\ rec.response.by \in Calls
          /\ key[rec.response.by] = k
          /\ request[rec.response.by] = rec.request
          /\ response[rec.response.by] = rec.response

\* Responses are made by the call itself, when its endpoint has run.
ResponseIsOwn ==
  \A c \in Calls :
    /\ response[c] # NoResponse => response[c].by = c
    /\ pc[c] \in Starting \cup {"idle", "execute"} => response[c] = NoResponse
    /\ pc[c] = "complete" => response[c] # NoResponse

\* A final answer is the response of the call that it names.
AnswerHasOwner ==
  \A c \in Answered :
    LET a == answer[c].response
    IN  /\ pc[c] = "done"
        /\ a # NoResponse
        /\ a.by \in Calls
        /\ key[a.by] = key[c]
        /\ request[a.by] = request[c]
        /\ response[a.by] = a

\* Only an endpoint that has answered commits, and at once if it does so first.
CommitsAreOwned ==
  /\ \A c \in applied \cup pending : response[c] # NoResponse
  /\ commitFirst => \A c \in Calls : response[c].ok => c \in applied

KeyInv ==
  /\ TypeOK
  /\ OneOwner
  /\ OwnerHasRecord
  /\ OutcomeHasOwner
  /\ ResponseIsOwn
  /\ AnswerHasOwner
  /\ CommitsAreOwned

-----------------------------------------------------------------------------
LEMMA KeyInvInit == Init => KeyInv
<1> SUFFICES ASSUME Init PROVE KeyInv
  OBVIOUS
<1> USE AttemptsAssumption DEF Init
<1>1. TypeOK
  BY DEF TypeOK, Refusal, Told
<1>2. \A c \in Calls : ~Owner(c)
  BY DEF Owner
<1>3. OneOwner /\ OwnerHasRecord
  BY <1>2 DEF OneOwner, OwnerHasRecord
<1>4. OutcomeHasOwner
  BY DEF OutcomeHasOwner, NoRecord
<1>5. ResponseIsOwn
  BY DEF ResponseIsOwn
<1>6. AnswerHasOwner
  BY DEF AnswerHasOwner, Answered, Refusal
<1>7. CommitsAreOwned
  BY DEF CommitsAreOwned, NoResponse
<1> QED
  BY <1>1, <1>3, <1>4, <1>5, <1>6, <1>7 DEF KeyInv

\* A call is sent: it owned nothing and was not answered.
LEMMA KeySend ==
  ASSUME KeyInv, NEW c \in Calls, NEW k \in Keys, NEW r \in Requests, Send(c, k, r)
  PROVE  KeyInv'
<1> USE CallsAssumption, RequestsAssumption, AttemptsAssumption
<1> USE DEF KeyInv, Send, Goto, callVars
<1>1. TypeOK'
  BY DEF TypeOK, Active, Starting
<1>2. OneOwner'
  BY DEF OneOwner, Owner, ResponseIsOwn
<1>3. OwnerHasRecord'
  BY DEF OwnerHasRecord, Owner, ResponseIsOwn
<1>4. OutcomeHasOwner'
  BY DEF OutcomeHasOwner, ResponseIsOwn
<1>5. ResponseIsOwn'
  BY DEF ResponseIsOwn
<1>6. AnswerHasOwner'
  BY DEF AnswerHasOwner, Answered, ResponseIsOwn
<1>7. CommitsAreOwned'
  BY DEF CommitsAreOwned
<1> QED
  BY <1>1, <1>2, <1>3, <1>4, <1>5, <1>6, <1>7

\* Every decision about a recorded key is an answer of the right type.
LEMMA DecideTypes ==
  ASSUME TypeOK, NEW c \in Calls, Decide(c)
  PROVE  /\ pc' = [pc EXCEPT ![c] = "done"]
         /\ answer' \in [Calls -> Told]
<1>1. record[key[c]].response \in Response \cup {NoResponse}
  BY DEF TypeOK, Record, NoRecord
<1>2. \E a \in Told : Reply(c, a)
  BY <1>1 DEF Decide, Reply, Refusal, Final, Told
<1> QED
  BY <1>2 DEF Reply, Goto, TypeOK

\* begin finds the key or not; a replay is the outcome of the owner.
LEMMA KeySelect ==
  ASSUME KeyInv, NEW c \in Calls, Select(c)
  PROVE  KeyInv'
<1> USE CallsAssumption, RequestsAssumption, AttemptsAssumption
<1> USE DEF KeyInv, Select, Decide, Reply, Refusal, Final, Goto, callVars
<1>1. TypeOK'
  <2>1. CASE record[key[c]] = NoRecord
    BY <2>1 DEF TypeOK, Active, Starting
  <2>2. CASE record[key[c]] # NoRecord
    BY <2>2, DecideTypes DEF TypeOK
  <2> QED
    BY <2>1, <2>2
<1>2. OneOwner'
  BY DEF OneOwner, Owner, TypeOK
<1>3. OwnerHasRecord'
  BY DEF OwnerHasRecord, Owner, TypeOK
<1>4. OutcomeHasOwner'
  BY DEF OutcomeHasOwner
<1>5. ResponseIsOwn'
  BY DEF ResponseIsOwn, Starting, TypeOK
<1>6. AnswerHasOwner'
  BY DEF AnswerHasOwner, Answered, OutcomeHasOwner, TypeOK
<1>7. CommitsAreOwned'
  BY DEF CommitsAreOwned
<1> QED
  BY <1>1, <1>2, <1>3, <1>4, <1>5, <1>6, <1>7

\* The first call of a key becomes its owner.
LEMMA KeyInsert ==
  ASSUME KeyInv, NEW c \in Calls, Insert(c)
  PROVE  KeyInv'
<1> USE CallsAssumption, RequestsAssumption, AttemptsAssumption
<1> USE DEF KeyInv, Insert, InsertRecord, Goto, callVars
<1>1. TypeOK'
  BY DEF TypeOK, Record, Active
<1>2. OneOwner'
  BY DEF OneOwner, OwnerHasRecord, Owner, NoRecord, TypeOK
<1>3. OwnerHasRecord'
  BY DEF OwnerHasRecord, Owner, NoRecord, TypeOK
<1>4. OutcomeHasOwner'
  BY DEF OutcomeHasOwner
<1>5. ResponseIsOwn'
  BY DEF ResponseIsOwn, Starting
<1>6. AnswerHasOwner'
  BY DEF AnswerHasOwner, Answered
<1>7. CommitsAreOwned'
  BY DEF CommitsAreOwned
<1> QED
  BY <1>1, <1>2, <1>3, <1>4, <1>5, <1>6, <1>7

LEMMA KeyInsertRefused ==
  ASSUME KeyInv, NEW c \in Calls, InsertRefused(c)
  PROVE  KeyInv'
<1> USE CallsAssumption, RequestsAssumption, AttemptsAssumption
<1> USE DEF KeyInv, InsertRefused, Goto, callVars
<1>1. TypeOK'
  BY DEF TypeOK, Active, Starting
<1>2. OneOwner'
  BY DEF OneOwner, Owner
<1>3. OwnerHasRecord'
  BY DEF OwnerHasRecord, Owner
<1>4. OutcomeHasOwner'
  BY DEF OutcomeHasOwner
<1>5. ResponseIsOwn'
  BY DEF ResponseIsOwn, Starting
<1>6. AnswerHasOwner'
  BY DEF AnswerHasOwner, Answered
<1>7. CommitsAreOwned'
  BY DEF CommitsAreOwned
<1> QED
  BY <1>1, <1>2, <1>3, <1>4, <1>5, <1>6, <1>7

LEMMA KeyReread ==
  ASSUME KeyInv, NEW c \in Calls, Reread(c)
  PROVE  KeyInv'
<1> USE CallsAssumption, RequestsAssumption, AttemptsAssumption
<1> USE DEF KeyInv, Reread, Decide, Reply, Refusal, Final, Goto, callVars
<1>1. TypeOK'
  BY DecideTypes DEF TypeOK
<1>2. OneOwner'
  BY DEF OneOwner, Owner, TypeOK
<1>3. OwnerHasRecord'
  BY DEF OwnerHasRecord, Owner, TypeOK
<1>4. OutcomeHasOwner'
  BY DEF OutcomeHasOwner
<1>5. ResponseIsOwn'
  BY DEF ResponseIsOwn, Starting, TypeOK
<1>6. AnswerHasOwner'
  BY DEF AnswerHasOwner, Answered, OutcomeHasOwner, TypeOK
<1>7. CommitsAreOwned'
  BY DEF CommitsAreOwned
<1> QED
  BY <1>1, <1>2, <1>3, <1>4, <1>5, <1>6, <1>7

LEMMA KeyBeginFails ==
  ASSUME KeyInv, NEW c \in Calls, BeginFails(c)
  PROVE  KeyInv'
<1> USE CallsAssumption, RequestsAssumption, AttemptsAssumption
<1> USE DEF KeyInv, BeginFails, RetryOrGiveUp, Reply, Refusal, Starting, Goto, callVars
<1>1. TypeOK'
  BY SMTT(30) DEF TypeOK, Response, Told, NoRecord, Active
<1>2. OneOwner'
  BY DEF OneOwner, Owner, TypeOK
<1>3. OwnerHasRecord'
  BY DEF OwnerHasRecord, Owner, TypeOK
<1>4. OutcomeHasOwner'
  BY DEF OutcomeHasOwner
<1>5. ResponseIsOwn'
  BY DEF ResponseIsOwn, TypeOK
<1>6. AnswerHasOwner'
  BY DEF AnswerHasOwner, Answered, TypeOK
<1>7. CommitsAreOwned'
  BY DEF CommitsAreOwned
<1> QED
  BY <1>1, <1>2, <1>3, <1>4, <1>5, <1>6, <1>7

\* A record without an owner: nobody will ever own the key.
LEMMA KeyInsertAckLost ==
  ASSUME KeyInv, NEW c \in Calls, InsertAckLost(c)
  PROVE  KeyInv'
<1> USE CallsAssumption, RequestsAssumption, AttemptsAssumption
<1> USE DEF KeyInv, InsertAckLost, InsertRecord, RetryOrGiveUp, Reply, Refusal, Goto, callVars
<1>1. TypeOK'
  <2>1. record' \in [Keys -> Record \cup {NoRecord}]
    BY DEF TypeOK, Record
  <2>2. pc' \in [Calls -> Active \cup {"idle", "done", "dead"}]
    BY DEF TypeOK, Active, Starting
  <2>3. answer' \in [Calls -> Told]
    BY DEF TypeOK, Told
  <2>4. attempt' \in [Calls -> 1..MaxAttempts]
    BY DEF TypeOK
  <2> QED
    BY <2>1, <2>2, <2>3, <2>4 DEF TypeOK
<1>2. OneOwner'
  BY DEF OneOwner, Owner, TypeOK
<1>3. OwnerHasRecord'
  BY DEF OwnerHasRecord, Owner, NoRecord, TypeOK
<1>4. OutcomeHasOwner'
  BY DEF OutcomeHasOwner
<1>5. ResponseIsOwn'
  BY DEF ResponseIsOwn, Starting, TypeOK
<1>6. AnswerHasOwner'
  BY DEF AnswerHasOwner, Answered, TypeOK
<1>7. CommitsAreOwned'
  BY DEF CommitsAreOwned
<1> QED
  BY <1>1, <1>2, <1>3, <1>4, <1>5, <1>6, <1>7

\* What an endpoint answers is its own, and it was the owner before.
LEMMA OwnResponse ==
  ASSUME KeyInv, NEW c \in Calls, NEW ok \in BOOLEAN, Responds(c, ok)
  PROVE  /\ response'[c].by = c
         /\ response'[c] # NoResponse
         /\ \A d \in Calls \ {c} : response'[d] = response[d] /\ pc'[d] = pc[d]
         /\ pc[c] = "execute" /\ pc'[c] = "complete"
         /\ \A d \in Calls : Owner(d)' <=> Owner(d)
<1>1. response \in [Calls -> Response \cup {NoResponse}] /\ DOMAIN pc = Calls
  BY DEF KeyInv, TypeOK
<1>2. response'[c] = [by |-> c, ok |-> ok] /\ pc[c] = "execute" /\ pc'[c] = "complete"
  BY <1>1 DEF Responds, Goto
<1>3. response'[c] # NoResponse
  BY <1>2, CallsAssumption DEF NoResponse
<1>4. \A d \in Calls \ {c} : response'[d] = response[d] /\ pc'[d] = pc[d]
  BY <1>1 DEF Responds, Goto
<1> QED
  BY <1>2, <1>3, <1>4 DEF Owner

\* The owner of a key goes on being its owner.
LEMMA KeyExecute ==
  ASSUME KeyInv, NEW c \in Calls, Execute(c)
  PROVE  KeyInv'
<1> USE CallsAssumption, RequestsAssumption, AttemptsAssumption
<1> USE DEF KeyInv, Execute, Responds, Goto, callVars
<1>1. TypeOK'
  BY DEF TypeOK, Response, Active
<1>2. OneOwner'
  BY OwnResponse DEF OneOwner
<1>3. OwnerHasRecord'
  BY DEF OwnerHasRecord, Owner
<1>4. OutcomeHasOwner'
  BY DEF OutcomeHasOwner, ResponseIsOwn
<1>5. ResponseIsOwn'
  <2>1. \A d \in Calls \ {c} : response'[d] = response[d] /\ pc'[d] = pc[d]
    BY OwnResponse
  <2>2. response'[c].by = c /\ response'[c] # NoResponse /\ pc'[c] = "complete"
    BY OwnResponse
  <2> QED
    BY <2>1, <2>2 DEF ResponseIsOwn, Starting
<1>6. AnswerHasOwner'
  BY DEF AnswerHasOwner, Answered, ResponseIsOwn
<1>7. CommitsAreOwned'
  BY DEF CommitsAreOwned, TypeOK, NoResponse
<1> QED
  BY <1>1, <1>2, <1>3, <1>4, <1>5, <1>6, <1>7

LEMMA KeyExecuteFails ==
  ASSUME KeyInv, NEW c \in Calls, ExecuteFails(c)
  PROVE  KeyInv'
<1> USE CallsAssumption, RequestsAssumption, AttemptsAssumption
<1> USE DEF KeyInv, ExecuteFails, Responds, Goto, callVars
<1>1. TypeOK'
  BY DEF TypeOK, Response, Active
<1>2. OneOwner'
  BY OwnResponse DEF OneOwner
<1>3. OwnerHasRecord'
  BY DEF OwnerHasRecord, Owner
<1>4. OutcomeHasOwner'
  BY DEF OutcomeHasOwner, ResponseIsOwn
<1>5. ResponseIsOwn'
  <2>1. \A d \in Calls \ {c} : response'[d] = response[d] /\ pc'[d] = pc[d]
    BY OwnResponse
  <2>2. response'[c].by = c /\ response'[c] # NoResponse /\ pc'[c] = "complete"
    BY OwnResponse
  <2> QED
    BY <2>1, <2>2 DEF ResponseIsOwn, Starting
<1>6. AnswerHasOwner'
  BY DEF AnswerHasOwner, Answered, ResponseIsOwn
<1>7. CommitsAreOwned'
  BY DEF CommitsAreOwned, NoResponse
<1> QED
  BY <1>1, <1>2, <1>3, <1>4, <1>5, <1>6, <1>7

LEMMA KeyExecuteAckLost ==
  ASSUME KeyInv, NEW c \in Calls, ExecuteAckLost(c)
  PROVE  KeyInv'
<1> USE CallsAssumption, RequestsAssumption, AttemptsAssumption
<1> USE DEF KeyInv, ExecuteAckLost, Responds, Goto, callVars
<1>1. TypeOK'
  BY DEF TypeOK, Response, Active
<1>2. OneOwner'
  BY OwnResponse DEF OneOwner
<1>3. OwnerHasRecord'
  BY DEF OwnerHasRecord, Owner
<1>4. OutcomeHasOwner'
  BY DEF OutcomeHasOwner, ResponseIsOwn
<1>5. ResponseIsOwn'
  <2>1. \A d \in Calls \ {c} : response'[d] = response[d] /\ pc'[d] = pc[d]
    BY OwnResponse
  <2>2. response'[c].by = c /\ response'[c] # NoResponse /\ pc'[c] = "complete"
    BY OwnResponse
  <2> QED
    BY <2>1, <2>2 DEF ResponseIsOwn, Starting
<1>6. AnswerHasOwner'
  BY DEF AnswerHasOwner, Answered, ResponseIsOwn
<1>7. CommitsAreOwned'
  BY DEF CommitsAreOwned, TypeOK, NoResponse
<1> QED
  BY <1>1, <1>2, <1>3, <1>4, <1>5, <1>6, <1>7

LEMMA KeyCommitLate ==
  ASSUME KeyInv, NEW c \in Calls, CommitLate(c)
  PROVE  KeyInv'
<1> USE CallsAssumption, RequestsAssumption, AttemptsAssumption
<1> USE DEF KeyInv, CommitLate, Goto, callVars
<1>1. TypeOK'
  BY DEF TypeOK
<1>2. OneOwner'
  BY DEF OneOwner, Owner
<1>3. OwnerHasRecord'
  BY DEF OwnerHasRecord, Owner
<1>4. OutcomeHasOwner'
  BY DEF OutcomeHasOwner
<1>5. ResponseIsOwn'
  BY DEF ResponseIsOwn
<1>6. AnswerHasOwner'
  BY DEF AnswerHasOwner, Answered
<1>7. CommitsAreOwned'
  BY DEF CommitsAreOwned
<1> QED
  BY <1>1, <1>2, <1>3, <1>4, <1>5, <1>6, <1>7

\* The owner records its response and is answered with it.
LEMMA KeyComplete ==
  ASSUME KeyInv, NEW c \in Calls, Complete(c)
  PROVE  KeyInv'
<1> USE CallsAssumption, RequestsAssumption, AttemptsAssumption
<1> USE DEF KeyInv, Complete, Reply, Final, Goto, callVars
<1>1. TypeOK'
  <2>1. key[c] \in Keys /\ record[key[c]] \in Record
    BY DEF TypeOK, OwnerHasRecord, Owner, NoRecord
  <2>2. response[c] \in Response \cup {NoResponse}
    BY DEF TypeOK
  <2>3. record' \in [Keys -> Record \cup {NoRecord}]
    BY <2>1, <2>2 DEF TypeOK, Record
  <2> QED
    BY <2>2, <2>3 DEF TypeOK, Told
<1>2. OneOwner'
  BY DEF OneOwner, Owner
<1>3. OwnerHasRecord'
  BY DEF OwnerHasRecord, Owner
<1>4. OutcomeHasOwner'
  BY DEF OutcomeHasOwner, ResponseIsOwn, OwnerHasRecord, Owner
<1>5. ResponseIsOwn'
  BY DEF ResponseIsOwn, Starting
<1>6. AnswerHasOwner'
  BY DEF AnswerHasOwner, Answered, ResponseIsOwn, TypeOK
<1>7. CommitsAreOwned'
  BY DEF CommitsAreOwned
<1> QED
  BY <1>1, <1>2, <1>3, <1>4, <1>5, <1>6, <1>7

LEMMA KeyCompleteFails ==
  ASSUME KeyInv, NEW c \in Calls, CompleteFails(c)
  PROVE  KeyInv'
<1> USE CallsAssumption, RequestsAssumption, AttemptsAssumption
<1> USE DEF KeyInv, CompleteFails, Reply, Final, Goto, callVars
<1>1. TypeOK'
  BY DEF TypeOK, Told
<1>2. OneOwner'
  BY DEF OneOwner, Owner
<1>3. OwnerHasRecord'
  BY DEF OwnerHasRecord, Owner
<1>4. OutcomeHasOwner'
  BY DEF OutcomeHasOwner
<1>5. ResponseIsOwn'
  BY DEF ResponseIsOwn, Starting
<1>6. AnswerHasOwner'
  BY DEF AnswerHasOwner, Answered, ResponseIsOwn, TypeOK
<1>7. CommitsAreOwned'
  BY DEF CommitsAreOwned
<1> QED
  BY <1>1, <1>2, <1>3, <1>4, <1>5, <1>6, <1>7

LEMMA KeyDie ==
  ASSUME KeyInv, NEW c \in Calls, Die(c)
  PROVE  KeyInv'
<1> USE CallsAssumption, RequestsAssumption, AttemptsAssumption
<1> USE DEF KeyInv, Die, Active, Starting, Goto, callVars
<1>1. TypeOK'
  BY DEF TypeOK
<1>2. OneOwner'
  BY DEF OneOwner, Owner
<1>3. OwnerHasRecord'
  BY DEF OwnerHasRecord, Owner
<1>4. OutcomeHasOwner'
  BY DEF OutcomeHasOwner
<1>5. ResponseIsOwn'
  BY DEF ResponseIsOwn
<1>6. AnswerHasOwner'
  BY DEF AnswerHasOwner, Answered
<1>7. CommitsAreOwned'
  BY DEF CommitsAreOwned
<1> QED
  BY <1>1, <1>2, <1>3, <1>4, <1>5, <1>6, <1>7

LEMMA KeyInvStep == KeyInv /\ [Next]_vars => KeyInv'
<1> SUFFICES ASSUME KeyInv, [Next]_vars PROVE KeyInv'
  OBVIOUS
<1>1. ASSUME NEW c \in Calls, NEW k \in Keys, NEW r \in Requests, Send(c, k, r)
      PROVE  KeyInv'
  BY <1>1, KeySend
<1>2. ASSUME NEW c \in Calls, Serve(c) PROVE KeyInv'
  BY <1>2, KeySelect, KeyInsert, KeyInsertRefused, KeyReread, KeyBeginFails,
     KeyInsertAckLost, KeyExecute, KeyExecuteFails, KeyExecuteAckLost,
     KeyCommitLate, KeyComplete, KeyCompleteFails DEF Serve
<1>3. ASSUME NEW c \in Calls, Die(c) PROVE KeyInv'
  BY <1>3, KeyDie
<1>4. CASE UNCHANGED vars
  BY <1>4 DEF vars, KeyInv, TypeOK, OneOwner, OwnerHasRecord, OutcomeHasOwner,
     ResponseIsOwn, AnswerHasOwner, CommitsAreOwned, Owner, Answered
<1> QED
  BY <1>1, <1>2, <1>3, <1>4 DEF Next

\* The invariant of the middleware and its records, in every reachable state.
THEOREM KeyInvCorrect == Spec => []KeyInv
  BY KeyInvInit, KeyInvStep, PTL DEF Spec

\* Type correctness: whatever fails in begin, its attempts stay within the
\* bound of the retry, and a record is one of its three kinds.
THEOREM KeyTypeCorrect == Spec => []TypeOK
<1>1. KeyInv => TypeOK
  BY DEF KeyInv
<1> QED
  BY <1>1, KeyInvCorrect, PTL

\* The operation of a key takes effect at most once, whatever dies or is lost:
\* who commits is the owner of the key, and the unique key admits one owner.
THEOREM AppliedOnceCorrect == Spec => []AppliedOnce
<1>1. KeyInv => AppliedOnce
  BY DEF KeyInv, TypeOK, OneOwner, Owner, CommitsAreOwned, AppliedOnce
<1> QED
  BY <1>1, KeyInvCorrect, PTL

\* Every final answer that a client gets for a key, replayed or not, is the
\* response of its one owner, and to the same request.
THEOREM ReplayCorrect == Spec => []ReplayIsOriginal
<1>1. ASSUME KeyInv PROVE ReplayIsOriginal
  <2>1. \A c \in Answered :
          LET e == answer[c].response.by
          IN  /\ key[e] = key[c] /\ request[e] = request[c]
              /\ response[e] = answer[c].response
    BY <1>1 DEF KeyInv, AnswerHasOwner
  <2>2. ASSUME NEW c \in Answered, NEW d \in Answered, key[c] = key[d]
        PROVE  answer[c] = answer[d]
    <3>1. c \in Calls /\ d \in Calls
      BY DEF Answered
    <3>2. answer[c].response.by = answer[d].response.by
      BY <1>1, <2>1, <2>2 DEF KeyInv, AnswerHasOwner, OneOwner, Owner
    <3>3. answer[c].response = answer[d].response
      BY <2>1, <3>2
    <3>4. answer[c].kind = answer[d].kind
      BY DEF Answered
    <3>5. answer[c] \in Told /\ answer[d] \in Told
      BY <1>1, <3>1 DEF KeyInv, TypeOK
    <3> QED
      BY <3>3, <3>4, <3>5 DEF Told
  <2> QED
    BY <2>1, <2>2 DEF ReplayIsOriginal
<1> QED
  BY <1>1, KeyInvCorrect, PTL

\* Where get_session commits before the response is sent, a success that any
\* client is told was committed.
THEOREM SuccessCorrect == Spec => []SuccessIsCommitted
<1>1. KeyInv => SuccessIsCommitted
  BY DEF KeyInv, AnswerHasOwner, CommitsAreOwned, SuccessIsCommitted
<1> QED
  BY <1>1, KeyInvCorrect, PTL

\* A recorded outcome never changes: complete is called by the owner alone.
THEOREM OutcomeCorrect == Spec => OutcomeIsFinal
<1>1. ASSUME KeyInv, [Next]_vars, NEW k \in Keys, record[k].response # NoResponse
      PROVE  record'[k] = record[k]
  <2>1. record \in [Keys -> Record \cup {NoRecord}] /\ NoRecord.response = NoResponse
    BY <1>1 DEF KeyInv, TypeOK, NoRecord
  <2>2. ASSUME NEW c \in Calls, InsertRecord(c) PROVE record'[k] = record[k]
    BY <1>1, <2>1, <2>2 DEF InsertRecord
  <2>3. ASSUME NEW c \in Calls, Complete(c) PROVE record'[k] = record[k]
    <3>1. CASE key[c] # k
      BY <2>1, <2>3, <3>1 DEF Complete
    <3>2. CASE key[c] = k
      <4>1. record[k].response.by = c
        BY <1>1, <2>3, <3>2 DEF KeyInv, OutcomeHasOwner, OneOwner, Owner, Complete
      <4>2. response[c] = record[k].response
        BY <1>1, <4>1 DEF KeyInv, OutcomeHasOwner
      <4>3. record'[k] = [record[k] EXCEPT !.response = response[c]]
        BY <2>1, <2>3, <3>2 DEF Complete
      <4> QED
        BY <2>1, <4>2, <4>3 DEF Record, NoRecord
    <3> QED
      BY <3>1, <3>2
  <2> QED
    BY <1>1, <2>2, <2>3 DEF Next, vars, Send, Serve, Die, Select, Insert,
       InsertRefused, Reread, BeginFails, InsertAckLost, Execute, ExecuteFails,
       ExecuteAckLost, Responds, CommitLate, CompleteFails
<1>2. KeyInv /\ [Next]_vars =>
        [\A k \in Keys :
           record[k].response # NoResponse => record'[k] = record[k]]_vars
  BY <1>1
<1> QED
  BY <1>2, KeyInvCorrect, PTL DEF Spec, OutcomeIsFinal

-----------------------------------------------------------------------------
\* Requests in progress.  A crash, an answer to begin's commit that is lost or
\* an outcome that is not recorded leave a record that nobody serves; the rest
\* of the faults do not.

Serving(c) == pc[c] \in {"execute", "complete"}

\* What leaves a record behind: its call dies, is not told that it made it, or
\* does not record its outcome.
Abandons(c) == (Die(c) /\ Serving(c)) \/ InsertAckLost(c) \/ CompleteFails(c)

NothingAbandoned == [][\A c \in Calls : ~Abandons(c)]_vars

\* A record that is processing belongs to a call that is being served.
RecordServed ==
  \A k \in Keys :
    record[k] # NoRecord /\ record[k].response = NoResponse =>
      \E d \in Calls : key[d] = k /\ Serving(d)

\* A call that is being served is so until it records its outcome.
LEMMA ServingRemains ==
  ASSUME KeyInv, [Next]_vars, [\A c \in Calls : ~Abandons(c)]_vars,
         NEW d \in Calls, Serving(d), ~Complete(d)
  PROVE  Serving(d)' /\ key'[d] = key[d]
<1>1. pc \in [Calls -> Active \cup {"idle", "done", "dead"}] /\ key \in [Calls -> Keys]
  BY DEF KeyInv, TypeOK
<1>2. ASSUME NEW c \in Calls, NEW k \in Keys, NEW r \in Requests, Send(c, k, r)
      PROVE  Serving(d)' /\ key'[d] = key[d]
  BY <1>1, <1>2 DEF Send, Goto, Serving
<1>3. ASSUME NEW c \in Calls, Select(c) \/ Reread(c)
      PROVE  Serving(d)' /\ key'[d] = key[d]
  BY <1>1, <1>3 DEF Select, Reread, Decide, Reply, Goto, Serving, callVars
<1>4. ASSUME NEW c \in Calls, Insert(c) \/ InsertRefused(c) \/ BeginFails(c)
      PROVE  Serving(d)' /\ key'[d] = key[d]
  BY <1>1, <1>4 DEF Insert, InsertRefused, BeginFails, RetryOrGiveUp, Reply, Goto,
                    Serving, Starting, callVars
<1>5. ASSUME NEW c \in Calls, Execute(c) \/ ExecuteFails(c) \/ ExecuteAckLost(c)
      PROVE  Serving(d)' /\ key'[d] = key[d]
  <2>1. pc' = [pc EXCEPT ![c] = "complete"] /\ key' = key
    BY <1>5 DEF Execute, ExecuteFails, ExecuteAckLost, Responds, Goto, callVars
  <2> QED
    BY <1>1, <2>1 DEF Serving
<1>6. ASSUME NEW c \in Calls, CommitLate(c)
      PROVE  Serving(d)' /\ key'[d] = key[d]
  BY <1>6 DEF CommitLate, Serving, callVars
<1>7. ASSUME NEW c \in Calls, Complete(c)
      PROVE  Serving(d)' /\ key'[d] = key[d]
  BY <1>1, <1>7 DEF Complete, Reply, Goto, Serving, callVars
<1>8. ASSUME NEW c \in Calls, InsertAckLost(c) \/ CompleteFails(c) \/ Die(c)
      PROVE  Serving(d)' /\ key'[d] = key[d]
  <2>1. pc'[c] \notin {"execute", "complete"} \/ pc[c] \notin {"execute", "complete"}
    BY <1>1, <1>8 DEF InsertAckLost, CompleteFails, Die, Reply, Goto
  <2>2. CASE UNCHANGED vars
    BY <2>2 DEF vars, Serving
  <2>3. CASE Die(c) /\ ~Serving(c)
    BY <1>1, <2>3 DEF Die, Goto, Serving, callVars
  <2> QED
    BY <1>8, <2>2, <2>3 DEF Abandons
<1>9. CASE UNCHANGED vars
  BY <1>9 DEF vars, Serving
<1> QED
  BY <1>2, <1>3, <1>4, <1>5, <1>6, <1>7, <1>8, <1>9 DEF Next, Serve

LEMMA RecordServedStep ==
  KeyInv /\ RecordServed /\ [Next]_vars /\ [\A c \in Calls : ~Abandons(c)]_vars
    => RecordServed'
<1> SUFFICES ASSUME KeyInv, RecordServed, [Next]_vars,
                    [\A c \in Calls : ~Abandons(c)]_vars,
                    NEW k \in Keys, record'[k] # NoRecord, record'[k].response = NoResponse
             PROVE  \E d \in Calls : key'[d] = k /\ Serving(d)'
  BY DEF RecordServed
<1>1. record \in [Keys -> Record \cup {NoRecord}] /\ key \in [Calls -> Keys]
  BY DEF KeyInv, TypeOK
<1>2. ASSUME NEW c \in Calls, Insert(c)
      PROVE  \E d \in Calls : key'[d] = k /\ Serving(d)'
  <2>1. pc'[c] = "execute" /\ key' = key
    BY <1>2 DEF Insert, Goto, callVars, KeyInv, TypeOK
  <2>2. CASE key[c] = k
    BY <2>1, <2>2 DEF Serving
  <2>3. CASE key[c] # k
    <3>1. record'[k] = record[k]
      BY <1>1, <1>2, <2>3 DEF Insert, InsertRecord
    <3>2. PICK d \in Calls : key[d] = k /\ Serving(d)
      BY <3>1 DEF RecordServed
    <3>3. ~Complete(d)
      BY <1>2, <3>2, <2>1, <2>3 DEF Insert, Complete, Reply, Goto, KeyInv, TypeOK
    <3> QED
      BY <3>2, <3>3, ServingRemains
  <2> QED
    BY <2>2, <2>3
<1>3. ASSUME NEW c \in Calls, Complete(c)
      PROVE  \E d \in Calls : key'[d] = k /\ Serving(d)'
  <2>1. key[c] # k
    <3>1. response[c] # NoResponse
      BY <1>3 DEF Complete, KeyInv, ResponseIsOwn
    <3>2. record' = [record EXCEPT ![key[c]].response = response[c]]
      BY <1>3 DEF Complete
    <3>3. SUFFICES ASSUME key[c] = k PROVE FALSE
      OBVIOUS
    <3>4. record'[k] = [record[k] EXCEPT !.response = response[c]]
      BY <1>1, <3>2, <3>3
    <3>5. record'[k].response = response[c]
      BY <1>1, <3>4 DEF Record, NoRecord
    <3> QED
      BY <3>1, <3>5
  <2>2. record'[k] = record[k]
    BY <1>1, <1>3, <2>1 DEF Complete
  <2>3. PICK d \in Calls : key[d] = k /\ Serving(d)
    BY <2>2 DEF RecordServed
  <2>4. pc' = [pc EXCEPT ![c] = "done"] /\ key' = key /\ d # c
    BY <1>3, <2>1, <2>3 DEF Complete, Reply, Goto, callVars
  <2>5. pc'[d] = pc[d]
    BY <2>4 DEF KeyInv, TypeOK
  <2> QED
    BY <2>3, <2>4, <2>5 DEF Serving
<1>4. CASE ~\E c \in Calls : Insert(c) \/ Complete(c)
  <2>1. ~\E c \in Calls : InsertAckLost(c) /\ ~UNCHANGED vars
    BY DEF Abandons
  <2>2. record' = record
    BY <1>4, <2>1 DEF Next, Serve, vars, Send, Die, Select, InsertRefused, Reread, BeginFails,
       Execute, ExecuteFails, ExecuteAckLost, Responds, CommitLate, CompleteFails
  <2>3. PICK d \in Calls : key[d] = k /\ Serving(d)
    BY <2>2 DEF RecordServed
  <2> QED
    BY <1>4, <2>3, ServingRemains
<1> QED
  BY <1>2, <1>3, <1>4

\* A client is told that its request is in progress only while another call
\* with the key is being served, as long as no call abandons its record:
\* endpoints that fail, commits that are lost or late, refused keys, retries
\* and calls that die before they own a record do no harm.
THEOREM InProgressCorrect == Spec /\ NothingAbandoned => InProgressIsTrue
<1>1. Init => RecordServed
  BY DEF Init, RecordServed
<1>2. KeyInv /\ RecordServed /\ [Next]_vars =>
        [\A c \in Calls :
           answer[c].kind # "in_progress" /\ answer'[c].kind = "in_progress" =>
             \E d \in Calls \ {c} : key[d] = key[c] /\ pc[d] \in {"execute", "complete"}]_vars
  <2> SUFFICES ASSUME KeyInv, RecordServed, Next, NEW c \in Calls,
                      answer[c].kind # "in_progress", answer'[c].kind = "in_progress"
               PROVE  \E d \in Calls \ {c} : key[d] = key[c] /\ Serving(d)
    BY DEF Serving
  <2>1. answer \in [Calls -> Told] /\ key[c] \in Keys
    BY DEF KeyInv, TypeOK
  <2>2. PICK b \in Calls : \/ \E k \in Keys, r \in Requests : Send(b, k, r)
                           \/ Serve(b)
                           \/ Die(b)
    BY DEF Next
  <2>3. (Select(b) \/ Reread(b)) /\ Decide(b)
    <3>1. answer' # answer
      OBVIOUS
    <3>2. ~\E k \in Keys, r \in Requests : Send(b, k, r)
      BY <3>1 DEF Send
    <3>3. ~(BeginFails(b) \/ InsertAckLost(b))
      BY <2>1 DEF BeginFails, InsertAckLost, RetryOrGiveUp, Reply, Refusal
    <3>4. ~(Complete(b) \/ CompleteFails(b))
      BY <2>1 DEF Complete, CompleteFails, Reply, Final
    <3>5. Select(b) \/ Reread(b)
      BY <2>2, <3>1, <3>2, <3>3, <3>4 DEF Serve, Die, Insert, InsertRefused, Execute,
         ExecuteFails, ExecuteAckLost, Responds, CommitLate
    <3> QED
      BY <3>1, <3>5 DEF Select, Reread
  <2>4. \E a : answer' = [answer EXCEPT ![b] = a]
    BY <2>3 DEF Decide, Reply
  <2>5. b = c
    BY <2>1, <2>4
  <2>6. /\ record[key[c]].request = request[c]
        /\ record[key[c]].response = NoResponse
    BY <2>1, <2>3, <2>5 DEF Decide, Reply, Refusal, Final
  <2>7. record[key[c]] # NoRecord
    BY <2>6, RequestsAssumption DEF NoRecord, KeyInv, TypeOK
  <2>8. PICK d \in Calls : key[d] = key[c] /\ Serving(d)
    BY <2>1, <2>6, <2>7 DEF RecordServed
  <2>9. d # c
    BY <2>3, <2>5, <2>8 DEF Select, Reread, Serving
  <2> QED
    BY <2>8, <2>9
<1> QED
  BY <1>1, <1>2, RecordServedStep, KeyInvCorrect, PTL
  DEF Spec, NothingAbandoned, InProgressIsTrue

-----------------------------------------------------------------------------
\* The refinement of OnceOnly.

OutcomeOf(k) == IF Executed(k) = {} THEN NoResponse
                ELSE response[CHOOSE c \in Executed(k) : TRUE]

\* The outcome of a key is the response of its owner.
LEMMA OutcomeOfOwner ==
  ASSUME KeyInv, NEW k \in Keys
  PROVE  /\ \A c \in Executed(k) : OutcomeOf(k) = response[c]
         /\ Executed(k) = {} => OutcomeOf(k) = NoResponse
<1>1. \A c, d \in Executed(k) : c = d
  BY DEF KeyInv, OneOwner, Owner, Executed
<1> QED
  BY <1>1 DEF OutcomeOf

\* It changes only when a call with that key answers, from none to that answer.
LEMMA OutcomeOfResponse ==
  ASSUME KeyInv, KeyInv', NEW c \in Calls, NEW ok \in BOOLEAN, Responds(c, ok)
  PROVE  /\ key[c] \in Keys
         /\ OutcomeOf(key[c]) = NoResponse
         /\ \A k \in Keys :
              OutcomeOf(k)' = IF k = key[c] THEN [by |-> c, ok |-> ok] ELSE OutcomeOf(k)
<1>1. key[c] \in Keys /\ key' = key
  BY DEF KeyInv, TypeOK, Responds, callVars
<1>2. pc[c] = "execute" /\ response[c] = NoResponse
  BY DEF KeyInv, ResponseIsOwn, Responds
<1>3. response \in [Calls -> Response \cup {NoResponse}]
  BY DEF KeyInv, TypeOK
<1>4. response'[c] = [by |-> c, ok |-> ok] /\ response'[c] # NoResponse
  BY <1>3, CallsAssumption DEF Responds, NoResponse
<1>5. Executed(key[c]) = {}
  BY <1>2 DEF KeyInv, OneOwner, Owner, Executed
<1>6. OutcomeOf(key[c]) = NoResponse
  BY <1>1, <1>5, OutcomeOfOwner
<1>7. c \in Executed(key[c])'
  BY <1>1, <1>4 DEF Executed
<1>8. OutcomeOf(key[c])' = [by |-> c, ok |-> ok]
  <2>1. \A d, e \in Executed(key[c])' : d = e
    BY <1>1 DEF KeyInv, OneOwner, Owner, Executed
  <2>2. OutcomeOf(key[c])' = response'[c]
    BY <1>1, <1>7, <2>1 DEF OutcomeOf
  <2> QED
    BY <2>2, <1>4
<1>9. ASSUME NEW k \in Keys, k # key[c]
      PROVE  OutcomeOf(k)' = OutcomeOf(k)
  <2>1. \A d \in Calls \ {c} : response'[d] = response[d]
    BY <1>3 DEF Responds
  <2>2. Executed(k)' = Executed(k) /\ c \notin Executed(k)
    BY <1>1, <1>9, <2>1 DEF Executed
  <2>3. CASE Executed(k) = {}
    BY <2>2, <2>3 DEF OutcomeOf
  <2>4. CASE Executed(k) # {}
    <3>1. (CHOOSE d \in Executed(k) : TRUE) \in Executed(k)
      BY <2>4
    <3>2. (CHOOSE d \in Executed(k) : TRUE) \in Calls \ {c}
      BY <3>1, <2>2 DEF Executed
    <3> QED
      BY <2>1, <2>2, <2>4, <3>2 DEF OutcomeOf
  <2> QED
    BY <2>3, <2>4
<1> QED
  BY <1>1, <1>6, <1>8, <1>9

\* It does not change otherwise, not even when a call is sent with its key.
LEMMA OutcomeOfUnchanged ==
  ASSUME KeyInv, UNCHANGED response, NEW k \in Keys,
         \A c \in Calls : response[c] # NoResponse => key'[c] = key[c]
  PROVE  OutcomeOf(k)' = OutcomeOf(k)
<1>1. Executed(k)' = Executed(k)
  BY DEF Executed
<1> QED
  BY <1>1 DEF OutcomeOf

\* The other two variables of OnceOnly.
PerformedNow == {<<c, key[c]>> : c \in applied}
ToldNow == {<<c, key[c], answer[c].response>> : c \in Answered}

\* An answer to a call that was being served: a refusal tells nobody anything,
\* a final one tells its response.
LEMMA ToldByAnswer ==
  ASSUME KeyInv, NEW c \in Calls, NEW a, pc[c] # "done", key' = key,
         answer' = [answer EXCEPT ![c] = a]
  PROVE  /\ a.kind # "response" => ToldNow' = ToldNow
         /\ a.kind = "response" => ToldNow' = ToldNow \cup {<<c, key[c], a.response>>}
<1>1. answer \in [Calls -> Told]
  BY DEF KeyInv, TypeOK
<1>2. c \notin Answered
  BY DEF KeyInv, AnswerHasOwner
<1>3. answer'[c] = a /\ \A d \in Calls \ {c} : answer'[d] = answer[d]
  BY <1>1
<1>4. CASE a.kind # "response"
  <2>1. Answered' = Answered
    BY <1>2, <1>3, <1>4 DEF Answered
  <2> QED
    BY <1>2, <1>3, <1>4, <2>1 DEF ToldNow, Answered
<1>5. CASE a.kind = "response"
  <2>1. Answered' = Answered \cup {c}
    BY <1>2, <1>3, <1>5 DEF Answered
  <2>2. \A d \in Answered : d \in Calls \ {c}
    BY <1>2 DEF Answered
  <2> QED
    BY <1>3, <1>5, <2>1, <2>2 DEF ToldNow
<1> QED
  BY <1>4, <1>5

\* A call that is answered with the outcome of its key: Tell.
LEMMA OnceTell ==
  ASSUME KeyInv, NEW c \in Calls, NEW resp, pc[c] # "done", key' = key,
         UNCHANGED <<response, applied>>,
         answer' = [answer EXCEPT ![c] = Final(resp)],
         resp = OutcomeOf(key[c]), resp # NoResponse
  PROVE  Once!Next
<1>1. key[c] \in Keys
  BY DEF KeyInv, TypeOK
<1>2. \A k \in Keys : OutcomeOf(k)' = OutcomeOf(k)
  BY OutcomeOfUnchanged
<1>3. ToldNow' = ToldNow \cup {<<c, key[c], OutcomeOf(key[c])>>}
  <2>1. Final(resp).kind = "response" /\ Final(resp).response = resp
    BY DEF Final
  <2> QED
    BY <2>1, ToldByAnswer
<1>4. PerformedNow' = PerformedNow
  BY DEF PerformedNow
<1>5. PICK k \in Keys : k = key[c]
  BY <1>1
<1>6. Once!Tell(c, k)
  BY <1>2, <1>3, <1>4, <1>5
  DEF Once!Tell, Once!Open, NoResponse, OutcomeOf, ToldNow, PerformedNow
<1> QED
  BY <1>6 DEF Once!Next

\* A step that changes no outcome, performs and tells nothing: a stutter.
LEMMA OnceStutter ==
  ASSUME \A k \in Keys : OutcomeOf(k)' = OutcomeOf(k),
         PerformedNow' = PerformedNow, ToldNow' = ToldNow
  PROVE  UNCHANGED Once!onceVars
  BY DEF Once!onceVars, OutcomeOf, ToldNow, PerformedNow

\* A call that is answered with a refusal, or goes on: a stutter.
LEMMA OnceRefuse ==
  ASSUME KeyInv, NEW c \in Calls, pc[c] # "done", key' = key,
         UNCHANGED <<response, applied>>,
         \/ UNCHANGED answer
         \/ \E kind \in {"conflict", "in_progress", "error"} :
              answer' = [answer EXCEPT ![c] = Refusal(kind)]
  PROVE  UNCHANGED Once!onceVars
<1>1. \A k \in Keys : OutcomeOf(k)' = OutcomeOf(k)
  BY OutcomeOfUnchanged
<1>2. PerformedNow' = PerformedNow
  BY DEF PerformedNow
<1>3. CASE UNCHANGED answer
  <2>1. ToldNow' = ToldNow
    BY <1>3 DEF ToldNow, Answered
  <2> QED
    BY <1>1, <1>2, <2>1, OnceStutter
<1>4. CASE \E kind \in {"conflict", "in_progress", "error"} :
             answer' = [answer EXCEPT ![c] = Refusal(kind)]
  <2>1. PICK kind \in {"conflict", "in_progress", "error"} :
          answer' = [answer EXCEPT ![c] = Refusal(kind)]
    BY <1>4
  <2>2. Refusal(kind).kind # "response"
    BY DEF Refusal
  <2>3. ToldNow' = ToldNow
    BY <2>1, <2>2, ToldByAnswer
  <2> QED
    BY <1>1, <1>2, <2>3, OnceStutter
<1> QED
  BY <1>3, <1>4

\* begin has found the key: a replay tells the outcome, the rest is refused.
LEMMA OnceDecide ==
  ASSUME KeyInv, NEW c \in Calls, pc[c] \in {"select", "reread"}, Decide(c),
         UNCHANGED <<callVars, response, applied>>
  PROVE  [Once!Next]_(Once!onceVars)
<1> DEFINE rec == record[key[c]]
<1>1. CASE rec.request # request[c]
  <2>1. Reply(c, Refusal("conflict"))
    BY <1>1 DEF Decide
  <2>2. answer' = [answer EXCEPT ![c] = Refusal("conflict")]
    BY <2>1 DEF Reply
  <2> QED
    BY <2>2, OnceRefuse DEF callVars
<1>2. CASE rec.request = request[c] /\ rec.response = NoResponse
  <2>1. answer' = [answer EXCEPT ![c] = Refusal("in_progress")]
    BY <1>2 DEF Decide, Reply
  <2> QED
    BY <2>1, OnceRefuse DEF callVars
<1>3. CASE rec.request = request[c] /\ rec.response # NoResponse
  <2>1. answer' = [answer EXCEPT ![c] = Final(rec.response)]
    BY <1>3 DEF Decide, Reply
  <2>2. key[c] \in Keys
    BY DEF KeyInv, TypeOK
  <2>3. rec.response.by \in Executed(key[c]) /\ response[rec.response.by] = rec.response
    BY <1>3, <2>2 DEF KeyInv, OutcomeHasOwner, Executed
  <2>4. rec.response = OutcomeOf(key[c])
    BY <2>2, <2>3, OutcomeOfOwner
  <2> QED
    BY <1>3, <2>1, <2>4, OnceTell DEF callVars
<1> QED
  BY <1>1, <1>2, <1>3

\* The endpoint answers: Settle.
LEMMA OnceSettle ==
  ASSUME KeyInv, KeyInv', NEW c \in Calls, NEW ok \in BOOLEAN, Responds(c, ok),
         applied' \in {applied, applied \cup {c}}
  PROVE  Once!Next
<1>1. /\ key[c] \in Keys
      /\ OutcomeOf(key[c]) = NoResponse
      /\ \A k \in Keys :
           OutcomeOf(k)' = IF k = key[c] THEN [by |-> c, ok |-> ok] ELSE OutcomeOf(k)
  BY OutcomeOfResponse
<1>2. key' = key /\ answer' = answer
  BY DEF Responds, callVars
<1>3. ToldNow' = ToldNow
  BY <1>2 DEF ToldNow, Answered
<1>4. PerformedNow' \in {PerformedNow, PerformedNow \cup {<<c, key[c]>>}}
  BY <1>2 DEF PerformedNow
<1>5. Once!Settle(c, key[c], ok)
  BY <1>1, <1>3, <1>4, ZenonT(30)
  DEF Once!Settle, Once!Open, NoResponse, OutcomeOf, ToldNow, PerformedNow
<1> QED
  BY <1>1, <1>5 DEF Once!Next

\* A late commit: Perform, unless it fails.
LEMMA OnceCommit ==
  ASSUME KeyInv, NEW c \in Calls, CommitLate(c)
  PROVE  [Once!Next]_(Once!onceVars)
<1>1. key' = key /\ UNCHANGED <<answer, response>> /\ key[c] \in Keys
  BY DEF CommitLate, callVars, KeyInv, TypeOK
<1>2. \A k \in Keys : OutcomeOf(k)' = OutcomeOf(k)
  BY <1>1, OutcomeOfUnchanged
<1>3. ToldNow' = ToldNow
  BY <1>1 DEF ToldNow, Answered
<1>4. CASE applied' = applied \/ c \in applied
  <2>1. applied' = applied
    BY <1>4 DEF CommitLate
  <2>2. PerformedNow' = PerformedNow
    BY <1>1, <2>1 DEF PerformedNow
  <2> QED
    BY <1>2, <1>3, <2>2, OnceStutter
<1>5. CASE applied' = applied \cup {c} /\ c \notin applied
  <2>1. c \in Executed(key[c]) /\ response[c].by = c
    BY DEF CommitLate, KeyInv, CommitsAreOwned, ResponseIsOwn, Executed
  <2>2. OutcomeOf(key[c]).by = c
    BY <1>1, <2>1, OutcomeOfOwner
  <2>3. PerformedNow' = PerformedNow \cup {<<c, key[c]>>}
    BY <1>1, <1>5 DEF PerformedNow
  <2>4. <<c, key[c]>> \notin PerformedNow
    BY <1>5 DEF PerformedNow
  <2>5. PICK k \in Keys : k = key[c]
    BY <1>1
  <2>6. Once!Perform(c, k)
    BY <1>2, <1>3, <2>2, <2>3, <2>4, <2>5
    DEF Once!Perform, OutcomeOf, ToldNow, PerformedNow
  <2> QED
    BY <2>6 DEF Once!Next
<1> QED
  BY <1>4, <1>5 DEF CommitLate

\* complete, or its failure: the client is told the outcome.
LEMMA OnceComplete ==
  ASSUME KeyInv, NEW c \in Calls, Complete(c) \/ CompleteFails(c)
  PROVE  Once!Next
<1>1. /\ pc[c] = "complete" /\ UNCHANGED <<callVars, response, applied>>
      /\ answer' = [answer EXCEPT ![c] = Final(response[c])]
  BY DEF Complete, CompleteFails, Reply
<1>2. key[c] \in Keys /\ c \in Executed(key[c])
  BY <1>1 DEF KeyInv, TypeOK, ResponseIsOwn, Executed
<1>3. response[c] = OutcomeOf(key[c]) /\ response[c] # NoResponse
  BY <1>2, OutcomeOfOwner DEF Executed
<1> QED
  BY <1>1, <1>3, OnceTell DEF callVars

\* A call is sent: it had no response and no answer.
LEMMA OnceSend ==
  ASSUME KeyInv, NEW c \in Calls, NEW k \in Keys, NEW r \in Requests, Send(c, k, r)
  PROVE  UNCHANGED Once!onceVars
<1>1. /\ key \in [Calls -> Keys] /\ pc[c] = "idle" /\ response[c] = NoResponse
      /\ UNCHANGED <<response, answer, applied>> /\ key' = [key EXCEPT ![c] = k]
  BY DEF Send, KeyInv, TypeOK, ResponseIsOwn
<1>2. \A d \in Calls \ {c} : key'[d] = key[d]
  BY <1>1
<1>3. c \notin applied /\ c \notin Answered /\ applied \subseteq Calls
  BY <1>1 DEF KeyInv, CommitsAreOwned, AnswerHasOwner, TypeOK
<1>4. \A j \in Keys : OutcomeOf(j)' = OutcomeOf(j)
  BY <1>1, <1>2, OutcomeOfUnchanged
<1>5. PerformedNow' = PerformedNow
  BY <1>1, <1>2, <1>3 DEF PerformedNow
<1>6. ToldNow' = ToldNow
  <2>1. Answered' = Answered /\ \A d \in Answered : key'[d] = key[d]
    BY <1>1, <1>2, <1>3 DEF Answered
  <2> QED
    BY <1>1, <2>1 DEF ToldNow
<1> QED
  BY <1>4, <1>5, <1>6, OnceStutter

LEMMA OnceStep ==
  ASSUME KeyInv, KeyInv', [Next]_vars
  PROVE  [Once!Next]_(Once!onceVars)
<1>1. ASSUME NEW c \in Calls, NEW k \in Keys, NEW r \in Requests, Send(c, k, r)
      PROVE  [Once!Next]_(Once!onceVars)
  BY <1>1, OnceSend
<1>2. ASSUME NEW c \in Calls, Select(c) PROVE [Once!Next]_(Once!onceVars)
  <2>1. CASE record[key[c]] = NoRecord
    BY <1>2, <2>1, OnceRefuse DEF Select, callVars
  <2>2. CASE record[key[c]] # NoRecord
    BY <1>2, <2>2, OnceDecide DEF Select
  <2> QED
    BY <2>1, <2>2
<1>3. ASSUME NEW c \in Calls, Insert(c) \/ InsertRefused(c)
      PROVE  [Once!Next]_(Once!onceVars)
  BY <1>3, OnceRefuse DEF Insert, InsertRefused, callVars
<1>4. ASSUME NEW c \in Calls, Reread(c) PROVE [Once!Next]_(Once!onceVars)
  BY <1>4, OnceDecide DEF Reread
<1>5. ASSUME NEW c \in Calls, BeginFails(c) \/ InsertAckLost(c)
      PROVE  [Once!Next]_(Once!onceVars)
  <2>1. pc[c] # "done" /\ UNCHANGED <<callVars, response, applied>> /\ RetryOrGiveUp(c)
    BY <1>5 DEF BeginFails, InsertAckLost, Starting
  <2> QED
    BY <2>1, OnceRefuse DEF RetryOrGiveUp, Reply, callVars
<1>6. ASSUME NEW c \in Calls, Execute(c) \/ ExecuteFails(c) \/ ExecuteAckLost(c)
      PROVE  [Once!Next]_(Once!onceVars)
  <2>1. \E ok \in BOOLEAN : Responds(c, ok)
    BY <1>6 DEF Execute, ExecuteFails, ExecuteAckLost
  <2>2. applied' \in {applied, applied \cup {c}}
    BY <1>6 DEF Execute, ExecuteFails, ExecuteAckLost
  <2> QED
    BY <2>1, <2>2, OnceSettle
<1>7. ASSUME NEW c \in Calls, CommitLate(c) PROVE [Once!Next]_(Once!onceVars)
  BY <1>7, OnceCommit
<1>8. ASSUME NEW c \in Calls, Complete(c) \/ CompleteFails(c)
      PROVE  [Once!Next]_(Once!onceVars)
  BY <1>8, OnceComplete
<1>9. ASSUME NEW c \in Calls, Die(c) PROVE [Once!Next]_(Once!onceVars)
  BY <1>9, OnceRefuse DEF Die, Active, Starting, callVars
<1>10. CASE UNCHANGED vars
  BY <1>10 DEF vars, Once!onceVars, Executed, Answered
<1> QED
  BY <1>1, <1>2, <1>3, <1>4, <1>5, <1>6, <1>7, <1>8, <1>9, <1>10 DEF Next, Serve

LEMMA OnceInit == Init => Once!Init
<1> SUFFICES ASSUME Init PROVE Once!Init
  OBVIOUS
<1>1. \A k \in Keys : Executed(k) = {}
  BY DEF Init, Executed
<1>2. Answered = {} /\ applied = {}
  BY DEF Init, Answered, Refusal
<1> QED
  BY <1>1, <1>2 DEF Once!Init, Once!Open, NoResponse

\* The middleware and its records implement OnceOnly, for any calls and faults.
THEOREM OnceRefined == Spec => KeysAreOnceOnly
<1>1. Init => Once!Init
  BY OnceInit
<1>2. KeyInv /\ KeyInv' /\ [Next]_vars => [Once!Next]_(Once!onceVars)
  BY OnceStep
<1> QED
  BY <1>1, <1>2, KeyInvCorrect, PTL DEF Spec, KeysAreOnceOnly, Once!Spec
=============================================================================
