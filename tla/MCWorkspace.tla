---------------------------- MODULE MCWorkspace ------------------------------
(***************************************************************************)
(* Two orders and two handlers at a time.                                  *)
(***************************************************************************)
EXTENDS Workspace, TLC

CONSTANTS o1, o2, h1, h2

PageSymmetry == Permutations(Orders) \cup Permutations(Handlers)

\* Overlapping loads of the tasks may show a card several times; one order of
\* the two is enough to have its task moved.  Once the page is disturbed what
\* remains to be seen is about one order.
SmallPage ==
  /\ Len(cards) <= 1
  /\ \E o \in Orders : task[o] <= 1
  /\ disturbed => \E o \in Orders : version[o] = 0
=============================================================================
