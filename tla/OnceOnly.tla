------------------------------ MODULE OnceOnly -------------------------------
(***************************************************************************)
(* What an Idempotency-Key promises to the calls that carry it, whatever   *)
(* they race and whatever fails: one of them executes, its outcome is the  *)
(* outcome of the key for ever, the operation is performed at most once    *)
(* and by that call, and nobody is told another outcome.                   *)
(***************************************************************************)
CONSTANTS Calls, Keys

VARIABLES
  outcome,    \* who executed each key, and whether it succeeded
  performed,  \* the operations that took effect, as <<call, key>>
  told        \* the outcomes that clients know, as <<call, key, outcome>>

onceVars == <<outcome, performed, told>>

Open == [by |-> "nobody", ok |-> FALSE]

Init ==
  /\ outcome = [k \in Keys |-> Open]
  /\ performed = {}
  /\ told = {}

\* The call c executes k, which may take effect at once.
Settle(c, k, ok) ==
  /\ outcome[k] = Open
  /\ outcome' = [outcome EXCEPT ![k] = [by |-> c, ok |-> ok]]
  /\ performed' \in {performed, performed \cup {<<c, k>>}}
  /\ UNCHANGED told

\* The execution takes effect after its outcome is known.
Perform(c, k) ==
  /\ outcome[k].by = c
  /\ <<c, k>> \notin performed
  /\ performed' = performed \cup {<<c, k>>}
  /\ UNCHANGED <<outcome, told>>

Tell(c, k) ==
  /\ outcome[k] # Open
  /\ told' = told \cup {<<c, k, outcome[k]>>}
  /\ UNCHANGED <<outcome, performed>>

Next ==
  \E c \in Calls, k \in Keys :
    \/ \E ok \in BOOLEAN : Settle(c, k, ok)
    \/ Perform(c, k)
    \/ Tell(c, k)

Spec == Init /\ [][Next]_onceVars
=============================================================================
