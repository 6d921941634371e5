---------------------------- MODULE SagaExecutor ----------------------------
(***************************************************************************)
(* The sequential saga executor of saga_executor.go, driven by one caller  *)
(* that invokes Execute and Rollback on the same executor.  An executor    *)
(* walks the nodes of a SagaDag in a topological order, calls DoIt on the  *)
(* action nodes, persists its progress in a Store after every node, and    *)
(* compensates: it calls UndoIt on what is completed, in reverse order.    *)
(*                                                                         *)
(* pc is the place in the code where the calling goroutine is.  DoIt,      *)
(* UndoIt and Save are code of the user: each may fail.  What DoIt leaves  *)
(* in the outside world is the set live of resources <<node, serial>>.     *)
(***************************************************************************)
EXTENDS Integers, SequencesExt

CONSTANTS
  Nodes,          \* node indices: the keys of SagaDag.Nodes
  Dags,           \* the edge sets the graph of the SagaDag may have
  ActionNodes,    \* the nodes that are an ActionNodeInternal
  Registries,     \* sets of action nodes whose action the registry may hold
  Names,          \* node names
  Unnamed,        \* the empty name
  NameOf,         \* the name of each node
  DoItFailures,   \* what a failing DoIt leaves: "nothing", "partial" effects
  FailedSaves,    \* what a failing Save leaves: the "old" state, a "torn" one
  RetryDags,      \* bound: the graphs over which Execute is called once more
  MaxExecutes,    \* bound: calls of Execute on the executor
  MaxRollbacks    \* bound: calls of Rollback on the executor

ASSUME NodesAssumption == IsFiniteSet(Nodes)
ASSUME DagsAssumption == Dags \subseteq SUBSET (Nodes \X Nodes)
ASSUME ActionNodesAssumption == ActionNodes \subseteq Nodes
ASSUME RegistriesAssumption == Registries \subseteq SUBSET ActionNodes
ASSUME NamesAssumption ==
  /\ NameOf \in [Nodes -> Names \cup {Unnamed}]
  /\ Unnamed \notin Names
ASSUME FailuresAssumption ==
  /\ DoItFailures \subseteq {"nothing", "partial"}
  /\ FailedSaves \subseteq {"old", "torn"}
ASSUME BoundsAssumption == MaxExecutes \in Nat /\ MaxRollbacks \in Nat

VARIABLES
  edges,          \* the edges of e.dag.Graph
  registered,     \* the action nodes found in e.actionRegistry
  nodeState,      \* e.nodes[n].State
  completed,      \* e.completed
  failed,         \* e.failed
  ancestorTree,   \* e.ancestorTree: the output stored under each name
  executionTrace, \* e.executionTrace
  store,          \* what e.store holds under e.sagaID
  warned,         \* a "Warning: failed to persist" was printed
  pc,             \* the step the caller's goroutine takes next
  caller,         \* the call in progress, or the last one
  order, pos,     \* the order of execution; the index of the loop in progress
  result,         \* what the last call returned
  executes, rollbacks,  \* calls so far, for the bounds
  live,           \* resources in place in the outside world
  serial          \* number of DoIt calls so far: each makes its own resource

dagVars == <<edges, registered>>
nodeVars == <<nodeState, ancestorTree, executionTrace>>
listVars == <<completed, failed>>
storeVars == <<store, warned>>
controlVars == <<pc, caller, order, pos, result>>
callVars == <<executes, rollbacks>>
worldVars == <<live, serial>>
vars == <<dagVars, nodeVars, listVars, storeVars, controlVars, callVars, worldVars>>

NodeStates == {"pending", "running", "completed", "failed", "undoing", "undone"}
Statuses == {"running", "completed", "failed", "rolling_back", "rolled_back"}
NoOutput == 0

\* What Load finds: a state with one of the Statuses, or one of these two.
NoState == [status |-> "absent", actions |-> <<>>]
Torn == [status |-> "unreadable", actions |-> <<>>]
Readable == store.status \in Statuses

\* Mutant: the nodes in any order, as when ranging over the map of nodes.
UnsortedOrders(graph) == SetToSeqs(Nodes)

(***************************************************************************)
(* topo.SortStabilized returns some order in which every edge points       *)
(* forward, and an error when there is none.                               *)
(***************************************************************************)
TopologicalOrders(graph) ==
  {s \in SetToSeqs(Nodes) :
     \A i, j \in DOMAIN s : <<s[i], s[j]>> \in graph => i < j}

\* What a loop with a continue keeps of a sequence: the elements in S, in order.
Kept(s, S) ==
  LET kept[n \in 0 .. Len(s)] ==
        IF n = 0 THEN <<>>
        ELSE IF s[n] \in S THEN Append(kept[n - 1], s[n])
        ELSE kept[n - 1]
  IN  kept[Len(s)]

Named(n) == NameOf[n] # Unnamed
OutputOf(n) == IF Named(n) THEN ancestorTree[NameOf[n]] ELSE NoOutput

----------------------------------------------------------------------------
(* persistState: the named nodes of the completed list with their outputs. *)

Snapshot(status, nodes) ==
  LET named == Kept(nodes, {n \in Nodes : Named(n)})
  IN  [status |-> status,
       actions |-> [i \in DOMAIN named |->
                      [name |-> NameOf[named[i]], output |-> OutputOf(named[i])]]]

Saves(status, nodes) == store' = Snapshot(status, nodes)

SaveFails ==
  \/ "old" \in FailedSaves /\ UNCHANGED store
  \/ "torn" \in FailedSaves /\ store' = Torn

\* The saves after the first: a failure is only a warning on the terminal.
Persist(status, nodes) ==
  \/ Saves(status, nodes) /\ UNCHANGED warned
  \/ SaveFails /\ warned' = TRUE

Return(r) == pc' = "idle" /\ result' = r /\ UNCHANGED <<caller, order, pos>>
Goto(label) == pc' = label /\ UNCHANGED <<caller, order, pos, result>>

----------------------------------------------------------------------------
(* NewSagaExecutor: every node of the DAG is pending. *)

AllPending == [n \in Nodes |-> "pending"]
NoOutputs == [name \in Names |-> NoOutput]

FreshExecutor ==
  /\ nodeState = AllPending /\ ancestorTree = NoOutputs
  /\ completed = <<>> /\ failed = <<>> /\ executionTrace = <<>>

Init ==
  /\ edges \in Dags /\ registered \in Registries
  /\ FreshExecutor
  /\ store = NoState /\ warned = FALSE
  /\ pc = "idle" /\ caller = "none" /\ result = "none"
  /\ order = <<>> /\ pos = 0
  /\ executes = 0 /\ rollbacks = 0
  /\ live = {} /\ serial = 0

----------------------------------------------------------------------------
(* Execute *)

CurrentNode == order[pos]

\* A caller calls Execute once more when nothing is left of the calls before it.
MayRetry == live = {} /\ ~warned /\ edges \in RetryDags

\* Execute up to its loop: the first save must succeed and the graph have an
\* order, or Execute returns at once.
Execute ==
  /\ pc = "idle" /\ executes < MaxExecutes
  /\ executes > 0 => MayRetry
  /\ executes' = executes + 1
  /\ caller' = "Execute"
  /\ \/ /\ SaveFails
        /\ result' = "notSaved"
        /\ UNCHANGED <<pc, order, pos>>
     \/ /\ Saves("running", completed)
        /\ TopologicalOrders(edges) = {}
        /\ result' = "noOrder"
        /\ UNCHANGED <<pc, order, pos>>
     \/ /\ Saves("running", completed)
        /\ order' \in TopologicalOrders(edges)
        /\ pos' = 1 /\ pc' = "node" /\ result' = "none"
  /\ UNCHANGED <<dagVars, nodeVars, listVars, warned, rollbacks, worldVars>>

\* executeNode on a node that is no action: nothing to call.
SkipNode ==
  /\ pc = "node" /\ pos <= Len(order) /\ CurrentNode \notin ActionNodes
  /\ nodeState' = [nodeState EXCEPT ![CurrentNode] = "completed"]
  /\ Goto("nodeDone")
  /\ UNCHANGED <<dagVars, ancestorTree, executionTrace, listVars, storeVars,
                 callVars, worldVars>>

\* executeNode on an action the registry does not hold: no trace record.
ActionMissing ==
  /\ pc = "node" /\ pos <= Len(order) /\ CurrentNode \in ActionNodes \ registered
  /\ nodeState' = [nodeState EXCEPT ![CurrentNode] = "failed"]
  /\ Goto("nodeFailed")
  /\ UNCHANGED <<dagVars, ancestorTree, executionTrace, listVars, storeVars,
                 callVars, worldVars>>

\* executeNode up to the call of DoIt.
StartNode ==
  /\ pc = "node" /\ pos <= Len(order) /\ CurrentNode \in registered
  /\ nodeState' = [nodeState EXCEPT ![CurrentNode] = "running"]
  /\ Goto("DoIt")
  /\ UNCHANGED <<dagVars, ancestorTree, executionTrace, listVars, storeVars,
                 callVars, worldVars>>

Trace(status) ==
  executionTrace' = Append(executionTrace, [node |-> CurrentNode, status |-> status])

\* Mutant: an output that is in the tree already stays there.
DoItSucceedsKeepsOutput ==
  /\ pc = "DoIt"
  /\ serial' = serial + 1
  /\ live' = live \cup {<<CurrentNode, serial'>>}
  /\ nodeState' = [nodeState EXCEPT ![CurrentNode] = "completed"]
  /\ ancestorTree' = IF OutputOf(CurrentNode) = NoOutput /\ Named(CurrentNode)
                       THEN [ancestorTree EXCEPT ![NameOf[CurrentNode]] = serial']
                       ELSE ancestorTree
  /\ Trace("completed")
  /\ Goto("nodeDone")
  /\ UNCHANGED <<dagVars, listVars, storeVars, callVars>>

\* DoIt returns an output: its resource is in place, the output is in the tree.
DoItSucceeds ==
  /\ pc = "DoIt"
  /\ serial' = serial + 1
  /\ live' = live \cup {<<CurrentNode, serial'>>}
  /\ nodeState' = [nodeState EXCEPT ![CurrentNode] = "completed"]
  /\ ancestorTree' = IF Named(CurrentNode)
                       THEN [ancestorTree EXCEPT ![NameOf[CurrentNode]] = serial']
                       ELSE ancestorTree
  /\ Trace("completed")
  /\ Goto("nodeDone")
  /\ UNCHANGED <<dagVars, listVars, storeVars, callVars>>

\* Mutant: the trace records a failure as a success.
DoItFailsTracedAsSuccess ==
  /\ pc = "DoIt" /\ "nothing" \in DoItFailures
  /\ serial' = serial + 1
  /\ nodeState' = [nodeState EXCEPT ![CurrentNode] = "failed"]
  /\ Trace("completed")
  /\ Goto("nodeFailed")
  /\ UNCHANGED <<dagVars, ancestorTree, listVars, storeVars, callVars, live>>

\* DoIt returns an error, having possibly made its resource before it.
DoItFails ==
  /\ pc = "DoIt"
  /\ serial' = serial + 1
  /\ \/ "nothing" \in DoItFailures /\ UNCHANGED live
     \/ "partial" \in DoItFailures /\ live' = live \cup {<<CurrentNode, serial'>>}
  /\ nodeState' = [nodeState EXCEPT ![CurrentNode] = "failed"]
  /\ Trace("failed")
  /\ Goto("nodeFailed")
  /\ UNCHANGED <<dagVars, ancestorTree, listVars, storeVars, callVars>>

\* Mutant: the progress is saved before the node is listed as completed.
NodeCompletedSavedEarly ==
  /\ pc = "nodeDone"
  /\ completed' = Append(completed, CurrentNode)
  /\ Persist("running", completed)
  /\ pc' = "node" /\ pos' = pos + 1
  /\ UNCHANGED <<dagVars, nodeVars, failed, caller, order, result, callVars, worldVars>>

\* The rest of the loop's body after a node that went well.
NodeCompleted ==
  /\ pc = "nodeDone"
  /\ completed' = Append(completed, CurrentNode)
  /\ Persist("running", completed')
  /\ pc' = "node" /\ pos' = pos + 1
  /\ UNCHANGED <<dagVars, nodeVars, failed, caller, order, result, callVars, worldVars>>

\* Mutants of NodeFailed: what is saved, where it goes next, the position there.
NodeFailedTo(saved, label, position) ==
  /\ pc = "nodeFailed"
  /\ failed' = Append(failed, CurrentNode)
  /\ Persist("failed", saved)
  /\ pc' = label /\ pos' = position
  /\ UNCHANGED <<dagVars, nodeVars, completed, caller, order, result, callVars, worldVars>>
NodeFailedStartsTooHigh == NodeFailedTo(completed, "undo", Len(completed) + 1)
NodeFailedSkipsLast == NodeFailedTo(completed, "undo", IF completed = <<>> THEN 0 ELSE Len(completed) - 1)
NodeFailedListedCompleted == NodeFailedTo(Append(completed, CurrentNode), "undo", Len(completed))
NodeFailedGoesOn == NodeFailedTo(completed, "node", pos + 1)

\* The loop's body after a node that failed, up to the call of compensate.
NodeFailed ==
  /\ pc = "nodeFailed"
  /\ failed' = Append(failed, CurrentNode)
  /\ Persist("failed", completed)
  /\ pc' = "undo" /\ pos' = Len(completed)
  /\ UNCHANGED <<dagVars, nodeVars, completed, caller, order, result, callVars, worldVars>>

SagaCompleted ==
  /\ pc = "node" /\ pos > Len(order)
  /\ Persist("completed", completed)
  /\ Return("completed")
  /\ UNCHANGED <<dagVars, nodeVars, listVars, callVars, worldVars>>

----------------------------------------------------------------------------
(* Rollback, and compensate, which it shares with Execute *)

\* Rollback up to the call of compensate.
Rollback ==
  /\ pc = "idle" /\ rollbacks < MaxRollbacks
  /\ rollbacks' = rollbacks + 1
  /\ caller' = "Rollback"
  /\ \/ /\ completed = <<>>
        /\ result' = "nothingToRollback"
        /\ UNCHANGED <<storeVars, pc, pos>>
     \/ /\ completed # <<>>
        /\ Persist("rolling_back", completed)
        /\ pc' = "undo" /\ pos' = Len(completed) /\ result' = "none"
  /\ UNCHANGED <<dagVars, nodeVars, listVars, order, executes, worldVars>>

\* Mutant: compensation in the order of execution.
OldestToUndo == completed[Len(completed) + 1 - pos]

NodeToUndo == completed[pos]

\* undoNode on a node that is no action.
SkipUndo ==
  /\ pc = "undo" /\ pos > 0 /\ NodeToUndo \notin ActionNodes
  /\ nodeState' = [nodeState EXCEPT ![NodeToUndo] = "undone"]
  /\ pos' = pos - 1
  /\ UNCHANGED <<dagVars, ancestorTree, executionTrace, listVars, storeVars,
                 pc, caller, order, result, callVars, worldVars>>

\* undoNode up to the call of UndoIt, or to the error when the action is gone.
StartUndo ==
  /\ pc = "undo" /\ pos > 0 /\ NodeToUndo \in ActionNodes
  /\ nodeState' = [nodeState EXCEPT ![NodeToUndo] = "undoing"]
  /\ Goto(IF NodeToUndo \in registered THEN "UndoIt" ELSE "undoFailed")
  /\ UNCHANGED <<dagVars, ancestorTree, executionTrace, listVars, storeVars,
                 callVars, worldVars>>

\* UndoIt looks up the output under its own node name, removes the resource it
\* names, if that is still there, and returns nil.
UndoItSucceeds ==
  /\ pc = "UndoIt"
  /\ live' = {r \in live : r[2] # OutputOf(NodeToUndo)}
  /\ nodeState' = [nodeState EXCEPT ![NodeToUndo] = "undone"]
  /\ pc' = "undo" /\ pos' = pos - 1
  /\ UNCHANGED <<dagVars, ancestorTree, executionTrace, listVars, storeVars,
                 caller, order, result, callVars, serial>>

\* Mutants: an undo that fails is tried again for ever, or passed over.
UndoItFailsRetried ==
  /\ pc = "UndoIt"
  /\ Goto("undo")
  /\ UNCHANGED <<dagVars, nodeVars, listVars, storeVars, callVars, worldVars>>
UndoItFailsIgnored ==
  /\ pc = "UndoIt"
  /\ pc' = "undo" /\ pos' = pos - 1
  /\ UNCHANGED <<dagVars, nodeVars, listVars, storeVars, caller, order, result,
                 callVars, worldVars>>

\* UndoIt returns an error: the node stays undoing, the loop is abandoned.
UndoItFails ==
  /\ pc = "UndoIt"
  /\ Goto("undoFailed")
  /\ UNCHANGED <<dagVars, nodeVars, listVars, storeVars, callVars, worldVars>>

\* compensate returned nil: Execute returns the action's error, Rollback nil.
CompensationSucceeds ==
  /\ pc = "undo" /\ pos = 0
  /\ \/ caller = "Execute" /\ Return("compensated") /\ UNCHANGED storeVars
     \/ caller = "Rollback" /\ Return("rolledBack") /\ Persist("rolled_back", completed)
  /\ UNCHANGED <<dagVars, nodeVars, listVars, callVars, worldVars>>

\* Mutant: the final status is rolled_back whatever compensate returned.
CompensationFailsSavedAsSuccess ==
  /\ pc = "undoFailed"
  /\ Return("compensationFailed")
  /\ \/ caller = "Execute" /\ UNCHANGED storeVars
     \/ caller = "Rollback" /\ Persist("rolled_back", completed)
  /\ UNCHANGED <<dagVars, nodeVars, listVars, callVars, worldVars>>

\* compensate returned an error, and so does its caller.
CompensationFails ==
  /\ pc = "undoFailed"
  /\ Return("compensationFailed")
  /\ \/ caller = "Execute" /\ UNCHANGED storeVars
     \/ caller = "Rollback" /\ Persist("failed", completed)
  /\ UNCHANGED <<dagVars, nodeVars, listVars, callVars, worldVars>>

----------------------------------------------------------------------------
\* What the executor does once it has been called.
Step ==
  \/ SkipNode \/ ActionMissing \/ StartNode \/ DoItSucceeds \/ DoItFails
  \/ NodeCompleted \/ NodeFailed \/ SagaCompleted
  \/ SkipUndo \/ StartUndo \/ UndoItSucceeds \/ UndoItFails
  \/ CompensationSucceeds \/ CompensationFails

Next == Execute \/ Rollback \/ Step

Spec == Init /\ [][Next]_vars

\* A call that has begun goes on: DoIt, UndoIt and Save return.
FairSpec == Spec /\ WF_vars(Step)

----------------------------------------------------------------------------
(* Properties *)

Labels == {"idle", "node", "DoIt", "nodeDone", "nodeFailed",
           "undo", "UndoIt", "undoFailed"}
Results == {"none", "notSaved", "noOrder", "completed", "compensated",
            "compensationFailed", "rolledBack", "nothingToRollback"}

ExecutionRecord == [node : Nodes, status : {"completed", "failed"}]

ExecutorTypeOK ==
  /\ edges \in Dags /\ registered \in Registries
  /\ nodeState \in [Nodes -> NodeStates]
  /\ completed \in Seq(Nodes) /\ failed \in Seq(Nodes)
  /\ ancestorTree \in [Names -> Nat]
  /\ executionTrace \in Seq(ExecutionRecord)

EnvironmentTypeOK ==
  /\ store \in {NoState, Torn} \/ Readable
  /\ warned \in BOOLEAN
  /\ executes \in 0 .. MaxExecutes /\ rollbacks \in 0 .. MaxRollbacks
  /\ live \subseteq Nodes \X Nat /\ serial \in Nat

ControlTypeOK ==
  /\ pc \in Labels /\ caller \in {"none", "Execute", "Rollback"} /\ result \in Results
  /\ order \in Seq(Nodes) /\ pos \in Nat
  /\ pc = "node" => pos \in 1 .. Len(order) + 1
  /\ pc \in {"DoIt", "nodeDone", "nodeFailed"} => pos \in 1 .. Len(order)
  /\ pc = "undo" => pos <= Len(completed)
  /\ pc \in {"UndoIt", "undoFailed"} => pos \in 1 .. Len(completed)

\* Every variable holds a value of the kind the code gives it; pos stays within
\* the list the loop in progress walks.
TypeOK == ExecutorTypeOK /\ EnvironmentTypeOK /\ ControlTypeOK

\* The nodes whose DoIt succeeded and left a resource that is still there.  What a
\* failed DoIt left is not among them: no code of the executor undoes a failed node.
InPlace == {r[1] : r \in {r \in live : nodeState[r[1]] # "failed"}}

\* Every action has a name of its own, by which its output is stored and found.
DistinctNames ==
  /\ \A n \in ActionNodes : Named(n)
  /\ \A m, n \in ActionNodes : NameOf[m] = NameOf[n] => m = n

\* When DoIt is called, every dependency of the node has completed, and an action
\* among them is in place with the very output the node can look up.
DependenciesInPlace ==
  pc = "DoIt" =>
    \A m \in Nodes : <<m, CurrentNode>> \in edges =>
      /\ nodeState[m] = "completed"
      /\ m \in ActionNodes /\ DistinctNames => <<m, OutputOf(m)>> \in live

\* When UndoIt is called, nothing that depends on the node is still in place: the
\* reverse order of completion respects the dependencies, after failed undos and
\* repeated rollbacks too.
DependentsGone ==
  pc = "UndoIt" /\ executes <= 1 /\ DistinctNames =>
    \A m \in Nodes : <<NodeToUndo, m>> \in edges => m \notin InPlace

\* A compensation that reports success has undone everything that had succeeded.
NothingLeftBehind ==
  result \in {"compensated", "rolledBack"} /\ executes <= 1 /\ DistinctNames => InPlace = {}

\* The status on record says what is in place, as long as no warning was printed:
\* "completed" stands for every action, "rolled_back" for none.
StatusTruthful ==
  ~warned /\ executes <= 1 /\ DistinctNames =>
    /\ store.status = "completed" => InPlace = ActionNodes
    /\ store.status = "rolled_back" => InPlace = {}

Recorded == {<<a.name, a.output>> : a \in ToSet(store.actions)}

\* Unless a warning was printed, the store lists every resource in place with its
\* output, but for the one whose DoIt has just returned: a crash at any point
\* loses track of one resource at most.
CrashLosesAtMostOne ==
  ~warned /\ Readable /\ executes <= 1 /\ DistinctNames =>
    \A r \in live :
      \/ <<NameOf[r[1]], r[2]>> \in Recorded
      \/ pc = "nodeDone" /\ r[1] = CurrentNode
      \/ nodeState[r[1]] = "failed"

\* No other node, an action or not, has the name of an action: what is stored and
\* found under that name is the action's.
NamesIdentify ==
  \A n \in ActionNodes : Named(n) /\ \A m \in Nodes : NameOf[m] = NameOf[n] => m = n

\* However many saves were lost, what the store lists did happen, in that order and
\* with those outputs: it is a prefix of the completed actions.
StoredIsPrefix ==
  Readable /\ executes <= 1 /\ NamesIdentify =>
    IsPrefix(store.actions, Snapshot(store.status, completed).actions)

\* What a DoIt that succeeded made and that is still there.  The calls of DoIt are
\* counted by the trace, which is never cleared.
Made == {r[1] : r \in {r \in live : executionTrace[r[2]].status = "completed"}}

\* A caller that calls Execute again only when nothing is left loses nothing by it:
\* although the completed list, the states and the outputs of the first call are all
\* still there, the second is compensated in an order that respects the dependencies,
\* and as completely, and what is on record is as true, as those of the first.
RetryIsClean ==
  DistinctNames =>
    /\ result \in {"compensated", "rolledBack"} => Made = {}
    /\ pc = "UndoIt" => \A m \in Made : <<NodeToUndo, m>> \notin edges
    /\ ~warned /\ store.status = "completed" => Made = ActionNodes
    /\ ~warned /\ store.status = "rolled_back" => Made = {}
    /\ ~warned /\ Readable =>
         \A r \in live : executionTrace[r[2]].status = "completed" =>
           <<NameOf[r[1]], r[2]>> \in Recorded \/ (pc = "nodeDone" /\ r[1] = CurrentNode)

\* The execution trace, by which the tests judge an execution, accounts for the
\* completed list: the actions whose DoIt it says went well are those completed,
\* in the same order, with the one being added.
TraceAccountsForCompleted ==
  LET succeeded == Kept(executionTrace, {t \in ExecutionRecord : t.status = "completed"})
      added == IF pc = "nodeDone" THEN Append(completed, CurrentNode) ELSE completed
  IN  [i \in DOMAIN succeeded |-> succeeded[i].node]
        = Kept(added, ActionNodes)

\* Every call returns: no failure leaves Execute or Rollback in a loop.
CallsReturn == pc # "idle" ~> pc = "idle"

\* A failed action triggers compensation, and Execute reports how that went.
FailureIsCompensated ==
  pc = "nodeFailed" ~>
    pc = "idle" /\ caller = "Execute" /\ result \in {"compensated", "compensationFailed"}

----------------------------------------------------------------------------
(* With distinct names the executor implements AbstractSaga.  An action is   *)
(* done while its resource is in place, any other node from its completion   *)
(* until it is undone.                                                       *)

Done == Made \cup {n \in Nodes \ ActionNodes : nodeState[n] = "completed"}

Direction ==
  IF pc \in {"node", "DoIt", "nodeDone"} \/ result = "completed" THEN "forward" ELSE "backward"

Outcome ==
  CASE result \in {"none", "completed"} -> result
    [] result \in {"compensated", "rolledBack"} -> "compensated"
    [] OTHER -> "error"

Abstract == INSTANCE AbstractSaga WITH
  done <- Done, direction <- Direction, outcome <- Outcome

\* Every step of the executor is a step of the abstract saga, or none.
ImplementsAbstract == Abstract!Spec

=============================================================================
