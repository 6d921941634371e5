---------------------------- MODULE AbstractSaga ----------------------------
(***************************************************************************)
(* What a saga promises, whatever executes it: effects are made along the  *)
(* dependencies and removed against them, once the first is removed never  *)
(* a new one before all are, and the outcome reported is the one that      *)
(* holds.                                                                  *)
(***************************************************************************)
CONSTANT Nodes

VARIABLES
  edges,      \* the dependencies: <<m, n>> says that n depends on m
  done,       \* the nodes whose effects are in place
  direction,  \* "forward" while effects are made, "backward" while they are removed
  outcome     \* what the last call reported

vars == <<edges, done, direction, outcome>>

Dependencies(n) == {m \in Nodes : <<m, n>> \in edges}
Dependents(n) == {m \in Nodes : <<n, m>> \in edges}

Init ==
  /\ edges \in SUBSET (Nodes \X Nodes)
  /\ done = {} /\ direction = "backward" /\ outcome = "none"

Do(n) ==
  /\ direction = "forward"
  /\ n \notin done /\ Dependencies(n) \subseteq done
  /\ done' = done \cup {n}
  /\ UNCHANGED <<edges, direction, outcome>>

\* The saga turns around: it only removes, until nothing is left and it begins anew.
TurnBack ==
  /\ direction' = "backward"
  /\ UNCHANGED <<edges, done, outcome>>

Begin ==
  /\ done = {}
  /\ direction' = "forward" /\ outcome' = "none"
  /\ UNCHANGED <<edges, done>>

Undo(n) ==
  /\ n \in done /\ Dependents(n) \cap done = {}
  /\ direction = "backward"
  /\ done' = done \ {n}
  /\ UNCHANGED <<edges, direction, outcome>>

\* Success is reported with every effect in place, compensation with none; an
\* error says nothing of what is left.
Holds(o) ==
  \/ o = "completed" /\ done = Nodes
  \/ o = "compensated" /\ done = {}
  \/ o = "error"

Report(o) ==
  /\ Holds(o)
  /\ outcome' = o
  /\ direction' \in {direction, "backward"}
  /\ UNCHANGED <<edges, done>>

Call ==
  /\ outcome' = "none"
  /\ direction' \in {direction, "backward"}
  /\ UNCHANGED <<edges, done>>

Next ==
  \/ \E n \in Nodes : Do(n) \/ Undo(n)
  \/ TurnBack \/ Begin
  \/ \E o \in {"completed", "compensated", "error"} : Report(o)
  \/ Call

Spec == Init /\ [][Next]_vars
=============================================================================
