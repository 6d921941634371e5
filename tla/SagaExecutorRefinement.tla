----------------------- MODULE SagaExecutorRefinement -----------------------
(***************************************************************************)
(* The saga executor implements AbstractSaga, for every DAG, registry and  *)
(* distinct naming, every number of Rollbacks and every failure, when its  *)
(* caller calls Execute once.  AbstractSaga counts an action as done by    *)
(* the trace of its calls, and other nodes by their states: the invariants *)
(* below tie both to the lists and loops of the executor.                  *)
(***************************************************************************)
EXTENDS SagaExecutorProofs

USE NodesAssumption, DagsAssumption, ActionNodesAssumption, RegistriesAssumption,
    NamesAssumption, FailuresAssumption, BoundsAssumption

\* A resource has the number of the call that made it, which the trace knows; so has
\* the output that the tree holds for a node.
TraceInv ==
  executes <= 1 =>
    /\ serial = Len(executionTrace)
    /\ \A r \in live :
         /\ r[2] \in 1 .. serial /\ executionTrace[r[2]].node = r[1]
         /\ executionTrace[r[2]].status = "failed" <=> nodeState[r[1]] = "failed"
    /\ DistinctNames =>
         \A n \in ActionNodes : OutputOf(n) # NoOutput =>
           OutputOf(n) \in 1 .. serial /\ executionTrace[OutputOf(n)].node = n

\* The nodes that the loop of Execute has not reached are pending.
PendingInv ==
  executes <= 1 =>
    /\ executes = 0 => \A n \in Nodes : nodeState[n] = "pending"
    /\ pc = "node" => \A i \in pos .. Len(order) : nodeState[order[i]] = "pending"
    /\ pc \in Forward => \A i \in pos + 1 .. Len(order) : nodeState[order[i]] = "pending"

\* A node that is no action is completed while it is listed, or about to be, and the
\* loop of compensate has not passed it.
OthersInv ==
  executes <= 1 =>
    /\ \A n \in Nodes \ ActionNodes : nodeState[n] = "completed" =>
         \/ \E i \in 1 .. Len(completed) : completed[i] = n
         \/ pc = "nodeDone" /\ n = order[pos]
    /\ pc \in Backward =>
         \A i \in pos + 1 .. Len(completed) :
           completed[i] \notin ActionNodes => nodeState[completed[i]] # "completed"
    /\ pc = "UndoIt" => NodeToUndo \in ActionNodes

RInv == IInv /\ TraceInv /\ PendingInv /\ OthersInv

----------------------------------------------------------------------------
(* Facts about the lists *)

\* The node that the loop of Execute is at comes after all that are listed, and no
\* resource is its own.
LEMMA CurrentIsNew ==
  ASSUME IInv, executes <= 1, pc \in {"node", "DoIt"}, pos <= Len(order)
  PROVE  /\ order \in Seq(Nodes) /\ pos \in 1 .. Len(order) /\ order[pos] \in Nodes
         /\ \A i \in 1 .. Len(completed) : completed[i] # order[pos]
         /\ \A r \in live : r[1] # order[pos]
         /\ \A i \in pos + 1 .. Len(order) : order[i] # order[pos] /\ order[i] \in Nodes
<1>1. order \in TopologicalOrders(edges)
  BY DEF IInv, OrderInv, Forward
<1>2. order \in Seq(Nodes) /\ \A i, j \in 1 .. Len(order) : order[i] = order[j] => i = j
  BY <1>1, OrderFacts
<1>3. pos \in 1 .. Len(order)
  BY DEF IInv, TypeOK, ControlTypeOK
<1>4. Len(completed) = pos - 1 /\ \A i \in 1 .. Len(completed) : completed[i] = order[i]
  BY DEF IInv, PrefixInv, Forward
<1>5. \A i \in 1 .. Len(completed) : completed[i] # order[pos]
  BY <1>2, <1>3, <1>4
<1>6. \A r \in live : \E i \in 1 .. Len(completed) : completed[i] = r[1]
  BY DEF IInv, ResourceInv
<1>7. QED
  BY <1>2, <1>3, <1>5, <1>6

\* The node that the loop of compensate is at has not failed, and its steps make none
\* fail.
LEMMA UndoneIsListed ==
  ASSUME IInv, executes <= 1, pc \in Backward, pos > 0
  PROVE  /\ pos \in 1 .. Len(completed) /\ completed[pos] \in Nodes
         /\ nodeState[completed[pos]] # "failed"
<1>1. pos \in 1 .. Len(completed) /\ completed \in Seq(Nodes)
  BY DEF IInv, TypeOK, ControlTypeOK, ExecutorTypeOK, Backward
<1>2. QED
  BY <1>1 DEF IInv, PrefixInv

----------------------------------------------------------------------------
(* The invariants *)

\* The part of TraceInv about the outputs, for the steps that call no DoIt.
LEMMA SameOutputs ==
  ASSUME TraceInv, executes <= 1, UNCHANGED <<ancestorTree, executionTrace, serial>>,
         live' \subseteq live,
         \A r \in live' : nodeState'[r[1]] = "failed" <=> nodeState[r[1]] = "failed"
  PROVE  TraceInv'
BY DEF TraceInv, OutputOf, DistinctNames, Named

\* DoIt, whatever it returns, counts the call and records it.
LEMMA DoItTraceInv ==
  ASSUME IInv, TraceInv, executes <= 1, executes' <= 1, pc = "DoIt", pos <= Len(order),
         NEW status \in {"completed", "failed"},
         serial' = serial + 1, live' \subseteq live \cup {<<CurrentNode, serial'>>},
         nodeState' = [nodeState EXCEPT ![CurrentNode] = status], Trace(status),
         \/ UNCHANGED ancestorTree
         \/ ancestorTree' = [ancestorTree EXCEPT ![NameOf[CurrentNode]] = serial']
  PROVE  TraceInv'
<1> DEFINE n == CurrentNode
           call == [node |-> n, status |-> status]
<1>1. /\ nodeState \in [Nodes -> NodeStates] /\ ancestorTree \in [Names -> Nat]
      /\ serial \in Nat /\ live \subseteq Nodes \X Nat /\ executionTrace \in Seq(ExecutionRecord)
  BY DEF IInv, TypeOK, ExecutorTypeOK, EnvironmentTypeOK
<1>2. n \in ActionNodes /\ n \in Nodes /\ \A r \in live : r[1] # n
  BY CurrentIsNew DEF CurrentNode, IInv, OrderInv
<1>3. serial = Len(executionTrace)
  BY DEF TraceInv
<1>4. executionTrace' = Append(executionTrace, call) /\ call \in ExecutionRecord
  BY <1>2 DEF Trace, ExecutionRecord
<1>5. /\ Len(executionTrace') = serial' /\ executionTrace'[serial'] = call
      /\ \A i \in 1 .. serial : executionTrace'[i] = executionTrace[i]
  BY <1>1, <1>3, <1>4
<1>6. ASSUME NEW r \in live'
      PROVE  /\ r[2] \in 1 .. serial' /\ executionTrace'[r[2]].node = r[1]
             /\ executionTrace'[r[2]].status = "failed" <=> nodeState'[r[1]] = "failed"
  <2>1. CASE r = <<n, serial'>>
    BY <2>1, <1>1, <1>2, <1>5
  <2>2. CASE r \in live
    <3>1. r[2] \in 1 .. serial /\ r[1] \in Nodes /\ r[1] # n
      BY <2>2, <1>1, <1>2 DEF TraceInv
    <3>2. nodeState'[r[1]] = nodeState[r[1]]
      BY <3>1, <1>1
    <3>3. QED
      BY <2>2, <3>1, <3>2, <1>1, <1>5 DEF TraceInv
  <2>3. QED
    BY <2>1, <2>2
<1>7. ASSUME DistinctNames, NEW m \in ActionNodes, OutputOf(m)' # NoOutput
      PROVE  OutputOf(m)' \in 1 .. serial' /\ executionTrace'[OutputOf(m)'].node = m
  <2>1. /\ OutputOf(m) = ancestorTree[NameOf[m]] /\ OutputOf(m)' = ancestorTree'[NameOf[m]]
        /\ NameOf[m] \in Names /\ NameOf[n] \in Names
    BY <1>2, <1>7 DEF OutputOf, DistinctNames, Named
  <2>2. CASE OutputOf(m)' = OutputOf(m)
    BY <2>2, <1>1, <1>5, <1>7 DEF TraceInv
  <2>3. CASE OutputOf(m)' # OutputOf(m)
    <3>1. NameOf[m] = NameOf[n] /\ OutputOf(m)' = serial'
      BY <2>1, <2>3, <1>1
    <3>2. m = n
      BY <3>1, <1>2, <1>7 DEF DistinctNames
    <3>3. QED
      BY <3>1, <3>2, <1>1, <1>5
  <2>4. QED
    BY <2>2, <2>3
<1>8. QED
  BY <1>5, <1>6, <1>7 DEF TraceInv

LEMMA NextTraceInv == IInv /\ TraceInv /\ [Next]_vars => TraceInv'
<1> SUFFICES ASSUME IInv, TraceInv, [Next]_vars, executes' <= 1 PROVE TraceInv'
  BY DEF TraceInv
<1> USE DEF dagVars, nodeVars, listVars, worldVars, storeVars, callVars, CurrentNode, NodeToUndo
<1>0. /\ nodeState \in [Nodes -> NodeStates] /\ executes \in Nat
      /\ serial \in Nat /\ live \subseteq Nodes \X Nat /\ executionTrace \in Seq(ExecutionRecord)
  BY DEF IInv, TypeOK, ExecutorTypeOK, EnvironmentTypeOK
<1>1. CASE Execute
  BY <1>1, <1>0, SameOutputs DEF Execute
<1>2. CASE Rollback
  BY <1>2, SameOutputs DEF Rollback
<1>3. CASE SkipNode
  BY <1>3, <1>0, CurrentIsNew, SameOutputs DEF SkipNode, Goto
<1>4. CASE ActionMissing
  BY <1>4, <1>0, CurrentIsNew, SameOutputs DEF ActionMissing, Goto
<1>5. CASE StartNode
  BY <1>5, <1>0, CurrentIsNew, SameOutputs DEF StartNode, Goto
<1>6. CASE DoItSucceeds \/ DoItFails
  <2>1. pc = "DoIt" /\ pos <= Len(order) /\ executes <= 1
    BY <1>6 DEF DoItSucceeds, DoItFails, IInv, TypeOK, ControlTypeOK
  <2>2. CASE DoItSucceeds
    BY <2>1, <2>2, DoItTraceInv DEF DoItSucceeds
  <2>3. CASE DoItFails
    BY <2>1, <2>3, DoItTraceInv DEF DoItFails
  <2>4. QED
    BY <1>6, <2>2, <2>3
<1>7. CASE NodeCompleted
  BY <1>7, SameOutputs DEF NodeCompleted
<1>8. CASE NodeFailed
  BY <1>8, SameOutputs DEF NodeFailed
<1>9. CASE SagaCompleted
  BY <1>9, SameOutputs DEF SagaCompleted
<1>10. CASE SkipUndo
  BY <1>10, <1>0, UndoneIsListed, SameOutputs DEF SkipUndo, Backward
<1>11. CASE StartUndo
  BY <1>11, <1>0, UndoneIsListed, SameOutputs DEF StartUndo, Goto, Backward
<1>12. CASE UndoItSucceeds
  <2>1. pos \in 1 .. Len(completed)
    BY <1>12 DEF UndoItSucceeds, IInv, TypeOK, ControlTypeOK
  <2>2. QED
    BY <1>12, <2>1, <1>0, UndoneIsListed, SameOutputs DEF UndoItSucceeds, Backward
<1>13. CASE UndoItFails
  BY <1>13, SameOutputs DEF UndoItFails, Goto
<1>14. CASE CompensationSucceeds
  BY <1>14, SameOutputs DEF CompensationSucceeds
<1>15. CASE CompensationFails
  BY <1>15, SameOutputs DEF CompensationFails
<1>16. CASE UNCHANGED vars
  BY <1>16, SameOutputs DEF vars
<1>17. QED
  BY <1>1, <1>2, <1>3, <1>4, <1>5, <1>6, <1>7, <1>8, <1>9,
     <1>10, <1>11, <1>12, <1>13, <1>14, <1>15, <1>16 DEF Next, Step

LEMMA NextPendingInv == IInv /\ PendingInv /\ [Next]_vars => PendingInv'
<1> SUFFICES ASSUME IInv, PendingInv, [Next]_vars, executes' <= 1 PROVE PendingInv'
  BY DEF PendingInv
<1> USE DEF PendingInv, Forward, dagVars, nodeVars, listVars, worldVars, storeVars, callVars,
      CurrentNode, NodeToUndo
<1>0. /\ nodeState \in [Nodes -> NodeStates] /\ executes \in Nat /\ pos \in Nat /\ Len(order) \in Nat
      /\ executes = 0 => pc = "idle"
  BY DEF IInv, TypeOK, ExecutorTypeOK, EnvironmentTypeOK, ControlTypeOK, PrefixInv
<1>1. CASE Execute
  <2>1. executes' = 1 /\ UNCHANGED nodeState /\ \A n \in Nodes : nodeState[n] = "pending"
    BY <1>1, <1>0 DEF Execute
  <2>2. pc' = "node" => order' \in TopologicalOrders(edges)
    BY <1>1 DEF Execute
  <2>3. pc' = "node" => order' \in Seq(Nodes) /\ pos' = 1
    BY <1>1, <2>2, OrderFacts DEF Execute
  <2>4. pc' \in {"idle", "node"}
    BY <1>1 DEF Execute
  <2>5. QED
    BY <2>1, <2>3, <2>4
<1>2. CASE Rollback
  BY <1>2, <1>0 DEF Rollback
<1>3. CASE SkipNode
  BY <1>3, <1>0, CurrentIsNew DEF SkipNode, Goto
<1>4. CASE ActionMissing
  BY <1>4, <1>0, CurrentIsNew DEF ActionMissing, Goto
<1>5. CASE StartNode
  BY <1>5, <1>0, CurrentIsNew DEF StartNode, Goto
<1>6. CASE DoItSucceeds
  <2>1. pos <= Len(order)
    BY <1>6 DEF DoItSucceeds, IInv, TypeOK, ControlTypeOK
  <2>2. QED
    BY <1>6, <2>1, <1>0, CurrentIsNew DEF DoItSucceeds, Goto
<1>7. CASE DoItFails
  <2>1. pos <= Len(order)
    BY <1>7 DEF DoItFails, IInv, TypeOK, ControlTypeOK
  <2>2. QED
    BY <1>7, <2>1, <1>0, CurrentIsNew DEF DoItFails, Goto
<1>8. CASE NodeCompleted
  BY <1>8, <1>0 DEF NodeCompleted
<1>9. CASE NodeFailed
  BY <1>9, <1>0 DEF NodeFailed
<1>10. CASE SagaCompleted
  BY <1>10, <1>0 DEF SagaCompleted, Return
<1>11. CASE SkipUndo
  BY <1>11, <1>0 DEF SkipUndo
<1>12. CASE StartUndo
  BY <1>12, <1>0 DEF StartUndo, Goto
<1>13. CASE UndoItSucceeds
  BY <1>13, <1>0 DEF UndoItSucceeds
<1>14. CASE UndoItFails
  BY <1>14, <1>0 DEF UndoItFails, Goto
<1>15. CASE CompensationSucceeds
  BY <1>15, <1>0 DEF CompensationSucceeds, Return
<1>16. CASE CompensationFails
  BY <1>16, <1>0 DEF CompensationFails, Return
<1>17. CASE UNCHANGED vars
  BY <1>17, <1>0 DEF vars, controlVars
<1>18. QED
  BY <1>1, <1>2, <1>3, <1>4, <1>5, <1>6, <1>7, <1>8, <1>9,
     <1>10, <1>11, <1>12, <1>13, <1>14, <1>15, <1>16, <1>17 DEF Next, Step

LEMMA NextOthersInv == IInv /\ PendingInv /\ OthersInv /\ [Next]_vars => OthersInv'
<1> SUFFICES ASSUME IInv, PendingInv, OthersInv, [Next]_vars, executes' <= 1 PROVE OthersInv'
  BY DEF OthersInv
<1> USE DEF OthersInv, Forward, Backward, dagVars, nodeVars, listVars, worldVars, storeVars,
      callVars, CurrentNode, NodeToUndo
<1>0. /\ nodeState \in [Nodes -> NodeStates] /\ executes \in Nat /\ pos \in Nat
      /\ completed \in Seq(Nodes) /\ order \in Seq(Nodes)
      /\ pc = "DoIt" => order[pos] \in ActionNodes
  BY DEF IInv, TypeOK, ExecutorTypeOK, EnvironmentTypeOK, ControlTypeOK, OrderInv
<1>1. CASE Execute
  <2>1. executes = 0 /\ UNCHANGED nodeState /\ pc' \in {"idle", "node"}
    BY <1>1, <1>0 DEF Execute
  <2>2. QED
    BY <2>1 DEF PendingInv
<1>2. CASE Rollback
  BY <1>2, <1>0 DEF Rollback
<1>3. CASE SkipNode
  BY <1>3, <1>0 DEF SkipNode, Goto
<1>4. CASE ActionMissing
  BY <1>4, <1>0 DEF ActionMissing, Goto
<1>5. CASE StartNode
  <2>1. order[pos] \in ActionNodes
    BY <1>5 DEF StartNode, IInv, TypeOK, ExecutorTypeOK
  <2>2. QED
    BY <1>5, <2>1, <1>0 DEF StartNode, Goto
<1>6. CASE DoItSucceeds
  BY <1>6, <1>0 DEF DoItSucceeds, Goto
<1>7. CASE DoItFails
  BY <1>7, <1>0 DEF DoItFails, Goto
<1>8. CASE NodeCompleted
  <2>1. /\ completed' = Append(completed, order[pos]) /\ pc = "nodeDone" /\ pc' = "node"
        /\ UNCHANGED <<nodeState, executes>> /\ order[pos] \in Nodes
    BY <1>8, <1>0 DEF NodeCompleted, IInv, TypeOK, ControlTypeOK
  <2>2. /\ Len(completed') = Len(completed) + 1 /\ completed'[Len(completed')] = order[pos]
        /\ \A i \in 1 .. Len(completed) : completed'[i] = completed[i]
    BY <2>1, <1>0
  <2>3. ASSUME NEW n \in Nodes \ ActionNodes, nodeState[n] = "completed"
        PROVE  \E i \in 1 .. Len(completed') : completed'[i] = n
    <3>1. CASE n = order[pos]
      BY <3>1, <2>2, <1>0
    <3>2. CASE \E i \in 1 .. Len(completed) : completed[i] = n
      BY <3>2, <2>2, <1>0
    <3>3. QED
      BY <3>1, <3>2, <2>3, <2>1
  <2>4. QED
    BY <2>1, <2>3
<1>9. CASE NodeFailed
  BY <1>9, <1>0 DEF NodeFailed
<1>10. CASE SagaCompleted
  BY <1>10, <1>0 DEF SagaCompleted, Return
<1>11. CASE SkipUndo
  BY <1>11, <1>0 DEF SkipUndo
<1>12. CASE StartUndo
  BY <1>12, <1>0 DEF StartUndo, Goto
<1>13. CASE UndoItSucceeds
  BY <1>13, <1>0 DEF UndoItSucceeds
<1>14. CASE UndoItFails
  BY <1>14, <1>0 DEF UndoItFails, Goto
<1>15. CASE CompensationSucceeds
  BY <1>15, <1>0 DEF CompensationSucceeds, Return
<1>16. CASE CompensationFails
  BY <1>16, <1>0 DEF CompensationFails, Return
<1>17. CASE UNCHANGED vars
  BY <1>17, <1>0 DEF vars, controlVars
<1>18. QED
  BY <1>1, <1>2, <1>3, <1>4, <1>5, <1>6, <1>7, <1>8, <1>9,
     <1>10, <1>11, <1>12, <1>13, <1>14, <1>15, <1>16, <1>17 DEF Next, Step

LEMMA InitRInv == Init => RInv
<1> SUFFICES ASSUME Init PROVE RInv
  OBVIOUS
<1>1. TraceInv
  BY DEF TraceInv, Init, FreshExecutor, OutputOf, NoOutputs, NoOutput, Named
<1>2. PendingInv /\ OthersInv
  BY DEF PendingInv, OthersInv, Init, FreshExecutor, AllPending, Forward, Backward
<1>3. QED
  BY <1>1, <1>2, InitIInv DEF RInv

LEMMA NextRInv == RInv /\ [Next]_vars => RInv'
BY NextIInv, NextTraceInv, NextPendingInv, NextOthersInv DEF RInv

----------------------------------------------------------------------------
(* What is done *)

\* The trace and the states agree on which resources are of a DoIt that succeeded.
LEMMA MadeIsInPlace ==
  ASSUME RInv, executes <= 1
  PROVE  /\ Made = InPlace /\ Done \subseteq Nodes
         /\ \A n \in ActionNodes : n \in Done <=> n \in InPlace
         /\ \A n \in Nodes \ ActionNodes : n \in Done <=> nodeState[n] = "completed"
<1>1. executionTrace \in Seq(ExecutionRecord) /\ live \subseteq Nodes \X Nat
  BY DEF RInv, IInv, TypeOK, ExecutorTypeOK, EnvironmentTypeOK
<1>2. ASSUME NEW r \in live
      PROVE  executionTrace[r[2]].status = "completed" <=> nodeState[r[1]] # "failed"
  <2>1. /\ r[2] \in 1 .. Len(executionTrace)
        /\ executionTrace[r[2]].status = "failed" <=> nodeState[r[1]] = "failed"
    BY <1>2 DEF RInv, TraceInv
  <2>2. executionTrace[r[2]] \in ExecutionRecord
    BY <2>1, <1>1
  <2>3. executionTrace[r[2]].status \in {"completed", "failed"}
    BY <2>2 DEF ExecutionRecord
  <2>4. QED
    BY <2>1, <2>3
<1>3. Made = InPlace
  BY <1>2 DEF Made, InPlace
<1>4. \A n \in InPlace : n \in ActionNodes
  BY DEF RInv, IInv, OrderInv, InPlace
<1>5. QED
  BY <1>1, <1>3, <1>4 DEF Done, InPlace

\* A completed node that is not failed is done if its output is in place.
LEMMA PassedIsDone ==
  ASSUME RInv, DistinctNames, executes <= 1, NEW n \in Nodes, Passed(n)
  PROVE  n \in Done
<1>1. CASE n \in ActionNodes
  <2>1. <<n, OutputOf(n)>> \in live /\ nodeState[n] # "failed"
    BY <1>1 DEF Passed
  <2>2. n \in InPlace
    BY <2>1 DEF InPlace
  <2>3. QED
    BY <1>1, <2>2, MadeIsInPlace
<1>2. CASE n \notin ActionNodes
  BY <1>2, MadeIsInPlace DEF Passed
<1>3. QED
  BY <1>1, <1>2

\* What the node that Execute is at depends on is done; when it is past the last
\* node, everything is.
LEMMA DependenciesDone ==
  ASSUME RInv, DistinctNames, executes <= 1, pc \in {"node", "DoIt"}
  PROVE  /\ pos <= Len(order) => \A m \in Nodes : <<m, order[pos]>> \in edges => m \in Done
         /\ pos > Len(order) => Done = Nodes
<1>1. order \in TopologicalOrders(edges) /\ pos \in 1 .. Len(order) + 1 /\ order \in Seq(Nodes)
  BY DEF RInv, IInv, OrderInv, Forward, TypeOK, ControlTypeOK
<1>2. \A i \in 1 .. pos - 1 : order[i] \in Nodes /\ Passed(order[i])
  BY <1>1 DEF RInv, IInv, ForwardInv, Forward
<1>3. \A i \in 1 .. pos - 1 : order[i] \in Done
  BY <1>2, PassedIsDone
<1>4. ASSUME pos <= Len(order), NEW m \in Nodes, <<m, order[pos]>> \in edges
      PROVE  m \in Done
  <2>1. PICK i \in 1 .. Len(order) : order[i] = m
    BY <1>1, OrderFacts
  <2>2. \A j, k \in 1 .. Len(order) : <<order[j], order[k]>> \in edges => j < k
    BY <1>1, OrderFacts
  <2>3. i < pos
    BY <1>1, <1>4, <2>1, <2>2
  <2>4. QED
    BY <1>1, <1>3, <2>1, <2>3
<1>5. ASSUME pos > Len(order), NEW n \in Nodes
      PROVE  n \in Done
  <2>1. PICK i \in 1 .. Len(order) : order[i] = n
    BY <1>1, OrderFacts
  <2>2. i \in 1 .. pos - 1
    BY <1>1, <1>5
  <2>3. QED
    BY <1>3, <2>1, <2>2
<1>6. QED
  BY <1>4, <1>5, MadeIsInPlace

\* While compensation runs, whatever is done is in the completed list, and not above
\* the position of its loop.
LEMMA DoneIsListed ==
  ASSUME RInv, DistinctNames, executes <= 1, pc \in Backward, NEW n \in Done
  PROVE  \E i \in 1 .. pos : i <= Len(completed) /\ completed[i] = n
<1>1. pc \notin {"nodeDone", "node", "DoIt"} /\ pos \in Nat /\ completed \in Seq(Nodes) /\ n \in Nodes
  BY MadeIsInPlace DEF Backward, RInv, IInv, TypeOK, ControlTypeOK, ExecutorTypeOK
<1>2. CASE n \in ActionNodes
  <2>1. n \in InPlace
    BY <1>2, MadeIsInPlace
  <2>2. PICK i \in 1 .. Len(completed) : completed[i] = n
    BY <1>1, <2>1 DEF RInv, IInv, ResourceInv, InPlace
  <2>3. i \notin pos + 1 .. Len(completed)
    BY <2>1, <2>2 DEF RInv, IInv, BackwardInv
  <2>4. QED
    BY <1>1, <2>2, <2>3
<1>3. CASE n \notin ActionNodes
  <2>1. nodeState[n] = "completed"
    BY <1>1, <1>3, MadeIsInPlace
  <2>2. PICK i \in 1 .. Len(completed) : completed[i] = n
    BY <1>1, <1>3, <2>1 DEF RInv, OthersInv
  <2>3. i \notin pos + 1 .. Len(completed)
    BY <1>3, <2>1, <2>2 DEF RInv, OthersInv
  <2>4. QED
    BY <1>1, <2>2, <2>3
<1>4. QED
  BY <1>2, <1>3

\* Nothing that depends on the node compensate is at is done.
LEMMA DependentsUndone ==
  ASSUME RInv, DistinctNames, executes <= 1, pc \in {"undo", "UndoIt"}, pos > 0
  PROVE  \A m \in Done : <<completed[pos], m>> \notin edges
<1> SUFFICES ASSUME NEW m \in Done, <<completed[pos], m>> \in edges
             PROVE  FALSE
  OBVIOUS
<1>1. pos \in 1 .. Len(completed)
  BY DEF RInv, IInv, TypeOK, ControlTypeOK
<1>2. PICK i \in 1 .. pos : i <= Len(completed) /\ completed[i] = m
  BY DoneIsListed DEF Backward
<1>3. /\ Len(completed) <= Len(order) /\ completed[pos] = order[pos] /\ completed[i] = order[i]
      /\ Len(completed) \in Nat /\ Len(order) \in Nat
  BY <1>1, <1>2 DEF RInv, IInv, PrefixInv, TypeOK, ControlTypeOK, ExecutorTypeOK
<1>4. order # <<>>
  BY <1>1, <1>3
<1>5. order \in TopologicalOrders(edges)
  BY <1>4 DEF RInv, IInv, OrderInv
<1>6. \A j, k \in 1 .. Len(order) : <<order[j], order[k]>> \in edges => j < k
  BY <1>5, OrderFacts
<1>7. pos < i
  BY <1>1, <1>2, <1>3, <1>6
<1>8. QED
  BY <1>1, <1>2, <1>7

----------------------------------------------------------------------------
(* Every step is one of AbstractSaga *)

LEMMA SameDone ==
  ASSUME UNCHANGED <<live, executionTrace>>,
         \A n \in Nodes \ ActionNodes : nodeState'[n] = "completed" <=> nodeState[n] = "completed"
  PROVE  Done' = Done
<1>1. Made' = Made
  BY DEF Made
<1>2. QED
  BY <1>1 DEF Done

\* The first Execute begins, or reports the error that kept it from beginning.
LEMMA ExecuteRefines ==
  ASSUME RInv, DistinctNames, Execute, executes' <= 1
  PROVE  Abstract!Begin \/ Abstract!Report("error")
<1>1. executes = 0 /\ pc = "idle" /\ UNCHANGED <<edges, live, executionTrace, nodeState>>
  BY DEF Execute, RInv, IInv, TypeOK, EnvironmentTypeOK, dagVars, nodeVars, worldVars
<1>2. Done = {} /\ Done' = Done
  <2>1. live = {} /\ \A n \in Nodes : nodeState[n] = "pending"
    BY <1>1 DEF RInv, IInv, PrefixInv, PendingInv
  <2>2. QED
    BY <1>1, <2>1, SameDone DEF Done, Made
<1>3. CASE result' = "none" /\ pc' = "node"
  BY <1>1, <1>2, <1>3 DEF Abstract!Begin, Direction, Outcome
<1>4. CASE result' \in {"notSaved", "noOrder"} /\ pc' = "idle"
  BY <1>1, <1>2, <1>4 DEF Abstract!Report, Abstract!Holds, Direction, Outcome
<1>5. QED
  BY <1>1, <1>3, <1>4 DEF Execute

LEMMA RollbackRefines ==
  ASSUME RInv, Rollback
  PROVE  Abstract!Call \/ Abstract!Report("error")
<1>1. pc = "idle" /\ UNCHANGED <<edges, live, executionTrace, nodeState>>
  BY DEF Rollback, dagVars, nodeVars, worldVars
<1>2. Done' = Done
  BY <1>1, SameDone
<1>3. CASE result' = "none" /\ pc' = "undo"
  BY <1>1, <1>2, <1>3 DEF Abstract!Call, Direction, Outcome
<1>4. CASE result' = "nothingToRollback" /\ pc' = "idle"
  BY <1>1, <1>2, <1>4 DEF Abstract!Report, Abstract!Holds, Direction, Outcome
<1>5. QED
  BY <1>1, <1>3, <1>4 DEF Rollback

\* A node that is no action is done when the loop passes it.
LEMMA SkipNodeRefines ==
  ASSUME RInv, DistinctNames, executes <= 1, SkipNode
  PROVE  \E n \in Nodes : Abstract!Do(n)
<1> DEFINE n == order[pos]
<1>1. /\ pc = "node" /\ pos <= Len(order) /\ n \notin ActionNodes
      /\ nodeState' = [nodeState EXCEPT ![n] = "completed"] /\ pc' = "nodeDone"
      /\ UNCHANGED <<edges, live, executionTrace, result>>
  BY DEF SkipNode, Goto, CurrentNode, dagVars, worldVars
<1>2. n \in Nodes /\ pos \in 1 .. Len(order) /\ nodeState \in [Nodes -> NodeStates]
  BY <1>1, CurrentIsNew DEF RInv, IInv, TypeOK, ExecutorTypeOK
<1>3. nodeState[n] = "pending"
  BY <1>1, <1>2 DEF RInv, PendingInv
<1>4. n \notin Done
  BY <1>1, <1>2, <1>3, MadeIsInPlace
<1>5. Done' = Done \cup {n}
  <2>1. Made' = Made
    BY <1>1 DEF Made
  <2>2. QED
    BY <1>1, <1>2, <2>1 DEF Done
<1>6. \A m \in Nodes : <<m, n>> \in edges => m \in Done
  BY <1>1, DependenciesDone
<1>7. Direction = "forward" /\ Direction' = "forward" /\ Outcome' = Outcome
  BY <1>1 DEF Direction, Outcome
<1>8. QED
  BY <1>1, <1>2, <1>4, <1>5, <1>6, <1>7 DEF Abstract!Do, Abstract!Dependencies

\* Its own resource is what a DoIt adds, and only if it succeeds.
LEMMA DoItMakes ==
  ASSUME RInv, executes <= 1, pc = "DoIt", pos <= Len(order),
         NEW status \in {"completed", "failed"}, Trace(status), serial' = serial + 1,
         \/ live' = live \cup {<<CurrentNode, serial'>>}
         \/ status = "failed" /\ live' = live
  PROVE  Made' = IF status = "completed" THEN Made \cup {CurrentNode} ELSE Made
<1> DEFINE n == CurrentNode
           call == [node |-> n, status |-> status]
<1>1. /\ n \in Nodes /\ executionTrace \in Seq(ExecutionRecord) /\ live \subseteq Nodes \X Nat
      /\ serial \in Nat /\ serial = Len(executionTrace) /\ \A r \in live : r[2] \in 1 .. serial
  BY CurrentIsNew DEF RInv, IInv, TypeOK, ExecutorTypeOK, EnvironmentTypeOK, TraceInv, CurrentNode
<1>2. executionTrace' = Append(executionTrace, call) /\ call \in ExecutionRecord
  BY <1>1 DEF Trace, ExecutionRecord
<1>3. /\ executionTrace'[serial'] = call
      /\ \A i \in 1 .. serial : executionTrace'[i] = executionTrace[i]
  BY <1>1, <1>2
<1>4. \A r \in live : executionTrace'[r[2]] = executionTrace[r[2]]
  BY <1>1, <1>3
<1>5. CASE live' = live /\ status = "failed"
  BY <1>4, <1>5 DEF Made
<1>6. CASE live' = live \cup {<<n, serial'>>}
  <2> DEFINE before(r) == executionTrace[r[2]].status = "completed"
             after(r) == executionTrace'[r[2]].status = "completed"
  <2>1. Made = {r[1] : r \in {r \in live : before(r)}}
    BY DEF Made
  <2>2. Made' = {r[1] : r \in {r \in live' : after(r)}}
    BY DEF Made
  <2>3. (\A r \in live : after(r) <=> before(r)) /\ (after(<<n, serial'>>) <=> status = "completed")
    BY <1>3, <1>4
  <2> HIDE DEF before, after, n
  <2>4. Made' = IF status = "completed" THEN Made \cup {n} ELSE Made
    BY <1>6, <2>1, <2>2, <2>3
  <2>5. QED
    BY <2>4 DEF n
<1>7. QED
  BY <1>5, <1>6

LEMMA DoItSucceedsRefines ==
  ASSUME RInv, DistinctNames, executes <= 1, DoItSucceeds
  PROVE  \E n \in Nodes : Abstract!Do(n)
<1> DEFINE n == CurrentNode
<1>1. /\ pc = "DoIt" /\ pos <= Len(order) /\ pc' = "nodeDone" /\ Trace("completed")
      /\ nodeState' = [nodeState EXCEPT ![n] = "completed"]
      /\ serial' = serial + 1 /\ live' = live \cup {<<n, serial'>>}
      /\ UNCHANGED <<edges, result>>
  BY DEF DoItSucceeds, Goto, dagVars, RInv, IInv, TypeOK, ControlTypeOK
<1>2. n \in ActionNodes /\ \A r \in live : r[1] # n
  BY <1>1, CurrentIsNew DEF CurrentNode, RInv, IInv, OrderInv
<1>3. n \notin Done
  BY <1>2 DEF Done, Made
<1>4. Done' = Done \cup {n}
  <2>1. Made' = Made \cup {n}
    BY <1>1, DoItMakes
  <2>2. \A m \in Nodes \ ActionNodes : nodeState'[m] = nodeState[m]
    BY <1>1, <1>2 DEF RInv, IInv, TypeOK, ExecutorTypeOK
  <2>3. QED
    BY <2>1, <2>2 DEF Done
<1>5. \A m \in Nodes : <<m, n>> \in edges => m \in Done
  BY <1>1, DependenciesDone DEF CurrentNode
<1>6. Direction = "forward" /\ Direction' = "forward" /\ Outcome' = Outcome
  BY <1>1 DEF Direction, Outcome
<1>7. QED
  BY <1>1, <1>2, <1>3, <1>4, <1>5, <1>6 DEF Abstract!Do, Abstract!Dependencies

LEMMA FailureRefines ==
  ASSUME RInv, DistinctNames, executes <= 1, ActionMissing \/ DoItFails
  PROVE  Abstract!TurnBack
<1> DEFINE n == CurrentNode
<1>1. /\ pc \in {"node", "DoIt"} /\ pos <= Len(order) /\ pc' = "nodeFailed" /\ result = "none"
      /\ nodeState' = [nodeState EXCEPT ![n] = "failed"]
      /\ UNCHANGED <<edges, result>> /\ n \in ActionNodes
  BY DEF ActionMissing, DoItFails, Goto, dagVars, RInv, IInv, OrderInv, TypeOK, ControlTypeOK
<1>2. Made' = Made
  <2>1. CASE ActionMissing
    BY <2>1 DEF ActionMissing, Made, worldVars
  <2>2. CASE DoItFails
    BY <1>1, <2>2, DoItMakes DEF DoItFails
  <2>3. QED
    BY <2>1, <2>2
<1>3. \A m \in Nodes \ ActionNodes : nodeState'[m] = nodeState[m]
  BY <1>1 DEF RInv, IInv, TypeOK, ExecutorTypeOK
<1>4. Done' = Done
  BY <1>2, <1>3 DEF Done
<1>5. Direction' = "backward" /\ Outcome' = Outcome
  BY <1>1 DEF Direction, Outcome
<1>6. QED
  BY <1>1, <1>4, <1>5 DEF Abstract!TurnBack

LEMMA SagaCompletedRefines ==
  ASSUME RInv, DistinctNames, executes <= 1, SagaCompleted
  PROVE  Abstract!Report("completed")
<1>1. /\ pc = "node" /\ pos > Len(order) /\ result' = "completed"
      /\ UNCHANGED <<edges, live, executionTrace, nodeState>>
  BY DEF SagaCompleted, Return, dagVars, nodeVars, worldVars
<1>2. Done = Nodes /\ Done' = Done
  BY <1>1, DependenciesDone, SameDone
<1>3. Direction = "forward" /\ Direction' = "forward" /\ Outcome' = "completed"
  BY <1>1 DEF Direction, Outcome
<1>4. QED
  BY <1>1, <1>2, <1>3 DEF Abstract!Report, Abstract!Holds

\* compensate removes the node it is at, if that was in place, and nothing else.
LEMMA SkipUndoRefines ==
  ASSUME RInv, DistinctNames, executes <= 1, SkipUndo
  PROVE  (\E n \in Nodes : Abstract!Undo(n)) \/ UNCHANGED <<edges, Done, Direction, Outcome>>
<1> DEFINE n == completed[pos]
<1>1. /\ pc = "undo" /\ pos > 0 /\ pc' = "undo" /\ n \notin ActionNodes /\ n \in Nodes
      /\ nodeState' = [nodeState EXCEPT ![n] = "undone"] /\ result = "none"
      /\ UNCHANGED <<edges, live, executionTrace, result>>
  BY UndoneIsListed DEF SkipUndo, NodeToUndo, dagVars, worldVars, RInv, IInv, OrderInv, Backward
<1>2. Direction = "backward" /\ Direction' = "backward" /\ Outcome' = Outcome
  BY <1>1 DEF Direction, Outcome
<1>3. Done' = Done \ {n}
  <2>1. Made' = Made /\ n \notin Made
    BY <1>1 DEF Made, RInv, IInv, OrderInv
  <2>2. \A m \in Nodes : nodeState'[m] = "completed" <=> nodeState[m] = "completed" /\ m # n
    BY <1>1 DEF RInv, IInv, TypeOK, ExecutorTypeOK
  <2>3. QED
    BY <2>1, <2>2 DEF Done
<1>4. \A m \in Done : <<n, m>> \notin edges
  BY <1>1, DependentsUndone
<1>5. CASE n \in Done
  BY <1>1, <1>2, <1>3, <1>4, <1>5 DEF Abstract!Undo, Abstract!Dependents
<1>6. CASE n \notin Done
  BY <1>1, <1>2, <1>3, <1>6
<1>7. QED
  BY <1>5, <1>6

LEMMA UndoItSucceedsRefines ==
  ASSUME RInv, DistinctNames, executes <= 1, UndoItSucceeds
  PROVE  (\E n \in Nodes : Abstract!Undo(n)) \/ UNCHANGED <<edges, Done, Direction, Outcome>>
<1> DEFINE n == completed[pos]
<1>1. /\ pc = "UndoIt" /\ pos > 0 /\ pc' = "undo" /\ result = "none"
      /\ live' = {r \in live : r[2] # OutputOf(n)}
      /\ nodeState' = [nodeState EXCEPT ![n] = "undone"]
      /\ UNCHANGED <<edges, executionTrace, result>>
  BY DEF UndoItSucceeds, NodeToUndo, dagVars, RInv, IInv, OrderInv, TypeOK, ControlTypeOK
<1>2. n \in ActionNodes /\ n \in Nodes /\ nodeState[n] # "failed"
  BY <1>1, UndoneIsListed DEF RInv, OthersInv, NodeToUndo, Backward
<1>3. Direction = "backward" /\ Direction' = "backward" /\ Outcome' = Outcome
  BY <1>1 DEF Direction, Outcome
<1>4. \A r \in live : r[1] = n => r[2] = OutputOf(n)
  BY <1>2 DEF RInv, IInv, ResourceInv
<1>5. \A r \in live : r[2] = OutputOf(n) => r[1] = n
  <2>1. \A r \in live : r[2] \in 1 .. serial /\ executionTrace[r[2]].node = r[1]
    BY DEF RInv, TraceInv
  <2>2. OutputOf(n) # NoOutput => executionTrace[OutputOf(n)].node = n
    BY <1>2 DEF RInv, TraceInv
  <2>3. serial \in Nat
    BY DEF RInv, IInv, TypeOK, EnvironmentTypeOK
  <2>4. QED
    BY <2>1, <2>2, <2>3 DEF NoOutput
<1>6. live' = {r \in live : r[1] # n}
  BY <1>1, <1>4, <1>5
<1>7. Done' = Done \ {n}
  <2>1. Made' = Made \ {n}
    BY <1>1, <1>6 DEF Made
  <2>2. \A m \in Nodes \ ActionNodes : nodeState'[m] = nodeState[m] /\ m # n
    BY <1>1, <1>2 DEF RInv, IInv, TypeOK, ExecutorTypeOK
  <2>3. QED
    BY <2>1, <2>2, <1>2 DEF Done
<1>8. \A m \in Done : <<n, m>> \notin edges
  BY <1>1, DependentsUndone
<1>9. CASE n \in Done
  BY <1>1, <1>2, <1>3, <1>7, <1>8, <1>9 DEF Abstract!Undo, Abstract!Dependents
<1>10. CASE n \notin Done
  BY <1>1, <1>3, <1>7, <1>10
<1>11. QED
  BY <1>9, <1>10

LEMMA CompensationSucceedsRefines ==
  ASSUME RInv, DistinctNames, executes <= 1, CompensationSucceeds
  PROVE  Abstract!Report("compensated")
<1>1. /\ pc = "undo" /\ pos = 0 /\ pc' = "idle" /\ result' \in {"compensated", "rolledBack"}
      /\ UNCHANGED <<edges, live, executionTrace, nodeState>>
  BY DEF CompensationSucceeds, Return, dagVars, nodeVars, worldVars
<1>2. Done = {}
  BY <1>1, DoneIsListed DEF Backward
<1>3. Done' = Done
  BY <1>1, SameDone
<1>4. Direction' = "backward" /\ Outcome' = "compensated"
  BY <1>1 DEF Direction, Outcome
<1>5. QED
  BY <1>1, <1>2, <1>3, <1>4 DEF Abstract!Report, Abstract!Holds

LEMMA CompensationFailsRefines ==
  ASSUME CompensationFails
  PROVE  Abstract!Report("error")
<1>1. /\ pc' = "idle" /\ result' = "compensationFailed"
      /\ UNCHANGED <<edges, live, executionTrace, nodeState>>
  BY DEF CompensationFails, Return, dagVars, nodeVars, worldVars
<1>2. Done' = Done
  BY <1>1, SameDone
<1>3. Direction' = "backward" /\ Outcome' = "error"
  BY <1>1 DEF Direction, Outcome
<1>4. QED
  BY <1>1, <1>2, <1>3 DEF Abstract!Report, Abstract!Holds

\* The steps between those: a node is entered, listed, or about to be undone.
LEMMA InnerStepRefines ==
  ASSUME RInv, DistinctNames, executes <= 1,
         StartNode \/ NodeCompleted \/ NodeFailed \/ StartUndo \/ UndoItFails \/ UNCHANGED vars
  PROVE  UNCHANGED <<edges, Done, Direction, Outcome>>
<1> USE DEF dagVars, nodeVars, worldVars, CurrentNode, NodeToUndo
<1>1. CASE StartNode
  <2>1. order[pos] \in ActionNodes /\ pc = "node" /\ pc' = "DoIt"
    BY <1>1 DEF StartNode, Goto, RInv, IInv, TypeOK, ExecutorTypeOK
  <2>2. \A m \in Nodes \ ActionNodes : nodeState'[m] = nodeState[m]
    BY <1>1, <2>1 DEF StartNode, RInv, IInv, TypeOK, ExecutorTypeOK
  <2>3. QED
    BY <1>1, <2>1, <2>2, SameDone DEF StartNode, Goto, Direction, Outcome
<1>2. CASE StartUndo
  <2>1. completed[pos] \in ActionNodes /\ pc = "undo" /\ pc' \in {"UndoIt", "undoFailed"}
    BY <1>2 DEF StartUndo, Goto
  <2>2. \A m \in Nodes \ ActionNodes : nodeState'[m] = nodeState[m]
    BY <1>2, <2>1 DEF StartUndo, RInv, IInv, TypeOK, ExecutorTypeOK
  <2>3. QED
    BY <1>2, <2>1, <2>2, SameDone DEF StartUndo, Goto, Direction, Outcome
<1>3. CASE NodeCompleted
  BY <1>3, SameDone DEF NodeCompleted, Direction, Outcome
<1>4. CASE NodeFailed
  BY <1>4, SameDone DEF NodeFailed, Direction, Outcome
<1>5. CASE UndoItFails
  BY <1>5, SameDone DEF UndoItFails, Goto, Direction, Outcome
<1>6. CASE UNCHANGED vars
  BY <1>6, SameDone DEF vars, controlVars, Direction, Outcome
<1>7. QED
  BY <1>1, <1>2, <1>3, <1>4, <1>5, <1>6

LEMMA NextRefines ==
  ASSUME RInv, DistinctNames, executes <= 1, executes' <= 1, [Next]_vars
  PROVE  [Abstract!Next]_<<edges, Done, Direction, Outcome>>
BY ExecuteRefines, RollbackRefines, SkipNodeRefines, DoItSucceedsRefines, FailureRefines,
   SagaCompletedRefines, SkipUndoRefines, UndoItSucceedsRefines, CompensationSucceedsRefines,
   CompensationFailsRefines, InnerStepRefines
DEF Next, Step, Abstract!Next

LEMMA InitRefines == Init => Abstract!Init
<1> SUFFICES ASSUME Init PROVE Abstract!Init
  OBVIOUS
<1>1. Done = {} /\ edges \in SUBSET (Nodes \X Nodes)
  BY DEF Init, FreshExecutor, AllPending, Done, Made
<1>2. QED
  BY <1>1 DEF Init, Direction, Outcome, Abstract!Init

\* Whatever the DAG, the registry and the failures, an executor on which Execute is
\* called once makes effects only along the dependencies, removes them only against
\* them, makes no new one once a failure has turned it around, and reports only
\* outcomes that hold.
THEOREM ExecutorImplementsAbstract ==
  ASSUME DistinctNames, MaxExecutes <= 1
  PROVE  Spec => ImplementsAbstract
<1>1. RInv /\ [Next]_vars => [Abstract!Next]_<<edges, Done, Direction, Outcome>>
  <2> SUFFICES ASSUME RInv, [Next]_vars
               PROVE  [Abstract!Next]_<<edges, Done, Direction, Outcome>>
    OBVIOUS
  <2>1. TypeOK /\ TypeOK'
    BY NextTypeOK DEF RInv, IInv
  <2>2. executes <= 1 /\ executes' <= 1
    BY <2>1 DEF TypeOK, EnvironmentTypeOK
  <2>3. QED
    BY <2>2, NextRefines
<1>2. QED
  BY InitRInv, NextRInv, InitRefines, <1>1, PTL
  DEF Spec, ImplementsAbstract, Abstract!Spec, Abstract!vars

=============================================================================
