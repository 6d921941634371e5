--------------------------- MODULE ExecutionLevels ---------------------------
(***************************************************************************)
(* getExecutionLevels of saga_executor.go: the nodes of a graph grouped    *)
(* into levels that can each run concurrently, or an error when the graph  *)
(* has a cycle.  A step is one pass of the code's outer loop.              *)
(***************************************************************************)
EXTENDS Integers, Sequences

CONSTANTS
  Nodes,   \* the keys of e.dag.Nodes
  Graphs   \* the edge sets that e.dag.Graph may have

ASSUME GraphsAssumption == Graphs \subseteq SUBSET (Nodes \X Nodes)

VARIABLES
  edges,      \* the edges of e.dag.Graph
  completed,  \* the nodes that are in a level
  levels,     \* the levels found so far, each a set: the code sorts it
  pc          \* "loop", "returned", or "error"

vars == <<edges, completed, levels, pc>>

Init ==
  /\ edges \in Graphs
  /\ completed = {} /\ levels = <<>> /\ pc = "loop"

dependencies(n) == {m \in Nodes : <<m, n>> \in edges}

\* Mutants: one dependency that is completed is enough; a level has one node.
CanExecuteAny == {n \in Nodes \ completed : dependencies(n) = {} \/ dependencies(n) \cap completed # {}}
CanExecuteOneByOne ==
  LET ready == {n \in Nodes \ completed : dependencies(n) \subseteq completed}
  IN  IF ready = {} THEN {} ELSE {CHOOSE n \in ready : TRUE}

CanExecute == {n \in Nodes \ completed : dependencies(n) \subseteq completed}

NextLevel ==
  /\ pc = "loop" /\ completed # Nodes /\ CanExecute # {}
  /\ levels' = Append(levels, CanExecute)
  /\ completed' = completed \cup CanExecute
  /\ UNCHANGED <<edges, pc>>

\* Mutants: give up when a node is left over; go on without progress.
NoProgressTooSoon ==
  /\ pc = "loop" /\ completed # Nodes /\ CanExecute # Nodes \ completed
  /\ pc' = "error"
  /\ UNCHANGED <<edges, completed, levels>>
NoProgressGoesOn ==
  /\ pc = "loop" /\ completed # Nodes /\ CanExecute = {}
  /\ UNCHANGED vars

\* "circular dependency detected or unable to make progress"
NoProgress ==
  /\ pc = "loop" /\ completed # Nodes /\ CanExecute = {}
  /\ pc' = "error"
  /\ UNCHANGED <<edges, completed, levels>>

AllAssigned ==
  /\ pc = "loop" /\ completed = Nodes
  /\ pc' = "returned"
  /\ UNCHANGED <<edges, completed, levels>>

Next == NextLevel \/ NoProgress \/ AllAssigned

Spec == Init /\ [][Next]_vars
FairSpec == Spec /\ WF_vars(Next)

----------------------------------------------------------------------------
(* Properties *)

\* The levels hold nodes, and all of them when they are returned.
TypeOK ==
  /\ edges \subseteq Nodes \X Nodes
  /\ completed \subseteq Nodes
  /\ levels \in Seq(SUBSET Nodes)
  /\ pc \in {"loop", "returned", "error"}
  /\ pc = "returned" => completed = Nodes

\* Every node that is completed is in one level, and in no other.
OnceEach ==
  /\ completed = UNION {levels[i] : i \in DOMAIN levels}
  /\ \A i, j \in DOMAIN levels : i # j => levels[i] \cap levels[j] = {}

\* The levels can run one after the other, each at once: what a node depends on is
\* in an earlier level.
LevelsInOrder ==
  \A j \in DOMAIN levels : \A n \in levels[j] : \A m \in dependencies(n) :
    \E i \in 1 .. j - 1 : m \in levels[i]

\* No node waits for a level it does not need: every node of a level depends on a
\* node of the level right before it.
LevelsEarliest ==
  \A j \in DOMAIN levels \ {1} : \A n \in levels[j] : dependencies(n) \cap levels[j - 1] # {}

\* Nodes that wait for one another for ever.
Circular(S) == S # {} /\ \A n \in S : dependencies(n) \cap S # {}

\* An error is returned exactly when there is a cycle.
ErrorMeansCycle ==
  /\ pc = "error" => \E S \in SUBSET Nodes : Circular(S)
  /\ pc = "returned" => \A S \in SUBSET Nodes : ~Circular(S)

\* The loop ends, whatever the graph.
Terminates == <>(pc # "loop")
=============================================================================
