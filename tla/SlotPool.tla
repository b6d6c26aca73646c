------------------------------ MODULE SlotPool ------------------------------
(***************************************************************************)
(* What the scheduler promises about run concurrency: a resizable pool of  *)
(* slots.  Nothing is said about queues, wake-ups or channels; Gate, which *)
(* models sched/gate.go, is shown to implement this specification.         *)
(***************************************************************************)
EXTENDS Naturals, FiniteSets

CONSTANT Runs

VARIABLES capacity, \* how many runs may hold a slot
          owners    \* the runs that hold one

vars == <<capacity, owners>>

Init ==
  /\ capacity \in Nat \ {0}
  /\ owners = {}

\* A slot changes hands only inside the current capacity.  A pool that was
\* shrunk below its population takes nobody in until enough runs have left.
Admit(entering, leaving) ==
  /\ owners' = (owners \ leaving) \cup entering
  /\ entering # {} => Cardinality(owners') <= capacity'

\* A run leaves, and its slot may go straight to others.
Leave ==
  /\ UNCHANGED capacity
  /\ \E r \in owners, entering \in SUBSET Runs : Admit(entering, {r})

\* A run takes a slot that is free.
Enter ==
  /\ UNCHANGED capacity
  /\ \E r \in Runs \ owners : Admit({r}, {})

\* The operator changes the capacity; a larger pool may admit several at once.
Resize ==
  /\ capacity' \in Nat \ {0}
  /\ \E entering \in SUBSET Runs : Admit(entering, {})

Next == Leave \/ Enter \/ Resize

Spec == Init /\ [][Next]_vars
=============================================================================
