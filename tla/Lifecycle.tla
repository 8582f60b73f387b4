------------------------------- MODULE Lifecycle -------------------------------
(***************************************************************************)
(* The vocabulary of a transfer's life in the relay store: its states, the *)
(* order in which it moves through them and the states it never leaves.    *)
(* "absent" stands for a transfer that has no row yet.                     *)
(***************************************************************************)
EXTENDS Integers

Abandoned == {"failed", "reorged"}
Terminal  == {"completed"} \cup Abandoned
Live      == {"observed", "finalized", "approved", "submitted"}

\* Every state a row can hold.
States == Live \cup Terminal

\* Position in the lifecycle, the order of STATES.
progress == [observed |-> 0, finalized |-> 1, approved |-> 2, submitted |-> 3,
             completed |-> 4, failed |-> 5, reorged |-> 6]

\* The lifecycle's edges: one step forward, or abandonment from a live state.
Edge(from, to) ==
  /\ from \in Live
  /\ to \in States
  /\ to \in Abandoned \/ progress[to] = progress[from] + 1
=============================================================================
