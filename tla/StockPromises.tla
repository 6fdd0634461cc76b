--------------------------- MODULE StockPromises ----------------------------
(***************************************************************************)
(* What the inventory promises to orders, whatever the automation, the     *)
(* warehouse and the Boss do: stock only grows, a promise is backed by     *)
(* stock and never exceeds what the order asked for, it is never taken     *)
(* back unless the whole order is withdrawn, and a withdrawn order is      *)
(* never promised anything again.                                          *)
(***************************************************************************)
EXTENDS Quantities

CONSTANTS Orders, Products

VARIABLES
  stock,     \* stock[p]: units on hand
  demand,    \* demand[o][p]: units that order o asks for
  promised,  \* promised[o][p]: units set aside for it
  withdrawn  \* the orders that were cancelled

vars == <<stock, demand, promised, withdrawn>>

Nothing == [p \in Products |-> 0]

Init ==
  /\ stock = Nothing
  /\ demand = [o \in Orders |-> Nothing]
  /\ promised = [o \in Orders |-> Nothing]
  /\ withdrawn = {}

\* An order says what it wants, once, before anything is promised to it.
Ask(o) ==
  /\ demand[o] = Nothing
  /\ demand' \in [Orders -> [Products -> Nat]]
  /\ \A a \in Orders \ {o} : demand'[a] = demand[a]
  /\ UNCHANGED <<stock, promised, withdrawn>>

\* Stock arrives, or is set aside, or both at once.
Promise ==
  /\ stock' \in [Products -> Nat]
  /\ promised' \in [Orders -> [Products -> Nat]]
  /\ \A p \in Products :
       /\ stock[p] <= stock'[p]
       /\ Total([o \in Orders |-> promised'[o][p]], Orders) <= stock'[p]
       /\ \A o \in Orders : /\ promised[o][p] <= promised'[o][p]
                            /\ promised'[o][p] <= demand[o][p]
  /\ \A o \in withdrawn : promised'[o] = promised[o]
  /\ UNCHANGED <<demand, withdrawn>>

\* An order is withdrawn: all that was promised to it is free again.
Withdraw(o) ==
  /\ withdrawn' = withdrawn \cup {o}
  /\ promised' = [promised EXCEPT ![o] = Nothing]
  /\ UNCHANGED <<stock, demand>>

Next == Promise \/ \E o \in Orders : Ask(o) \/ Withdraw(o)

Spec == Init /\ [][Next]_vars
=============================================================================
