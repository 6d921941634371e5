--------------------------- MODULE SagaRetryProofs ---------------------------
(***************************************************************************)
(* Theorem about any number of Executes on one executor, each called when  *)
(* nothing is left of those before, for every DAG, registry and distinct   *)
(* naming.  Nothing of the executor is reset in between: the completed     *)
(* list names nodes twice, with states and outputs of the calls before.    *)
(***************************************************************************)
EXTENDS SagaExecutorProofs

USE NodesAssumption, DagsAssumption, ActionNodesAssumption, RegistriesAssumption,
    NamesAssumption, FailuresAssumption, BoundsAssumption

\* What a DoIt that succeeded made and that is still there; Made has their nodes.
Successes == {r \in live : executionTrace[r[2]].status = "completed"}

\* The trace counts the calls of DoIt, and an output in the tree is that of one that
\* succeeded.
CallsInv ==
  /\ executes = 0 => pc = "idle" /\ completed = <<>> /\ live = {} /\ store = NoState
  /\ serial = Len(executionTrace)
  /\ \A r \in live : r[2] \in 1 .. serial
  /\ DistinctNames =>
       \A n \in ActionNodes : OutputOf(n) # NoOutput =>
         OutputOf(n) \in 1 .. serial /\ executionTrace[OutputOf(n)].status = "completed"

\* The part of the completed list above b is that of the last Execute whose loop began.
\* It is a prefix of the order, and all that is there was made by a node of it.
Since(b) ==
  /\ b <= Len(completed)
  /\ \A i \in b + 1 .. Len(completed) : i - b <= Len(order) /\ completed[i] = order[i - b]
  /\ pc \in Forward => Len(completed) - b = pos - 1
  /\ \A r \in Successes :
       /\ r[2] = OutputOf(r[1])
       /\ \/ \E i \in b + 1 .. Len(completed) : completed[i] = r[1]
          \/ pc = "nodeDone" /\ r[1] = order[pos]
  /\ pc \in Backward => \A r \in Successes : \E i \in b + 1 .. pos : completed[i] = r[1]

LastInv == DistinctNames => \E b \in Nat : Since(b)

\* A compensation that reports success leaves nothing of what had succeeded.
UndoneInv ==
  DistinctNames /\ result \in {"compensated", "rolledBack"} => pc = "idle" /\ Successes = {}

\* A final status is on record between calls only, and says what is there.
FinalInv ==
  DistinctNames /\ ~warned =>
    /\ store.status = "completed" => pc = "idle" /\ Made = ActionNodes
    /\ store.status = "rolled_back" => pc = "idle" /\ Made = {}

\* What is there is on record, but for what the node being completed made.
RecordInv ==
  DistinctNames /\ ~warned /\ Readable =>
    \A r \in Successes :
      <<NameOf[r[1]], r[2]>> \in Pairs(store.actions) \/ (pc = "nodeDone" /\ r[1] = CurrentNode)

RetryInv ==
  /\ TypeOK /\ OrderInv /\ ForwardInv /\ CallsInv /\ LastInv /\ UndoneInv /\ FinalInv /\ RecordInv

----------------------------------------------------------------------------
(* The steps, as they concern the calls of DoIt and what the loops walk *)

\* A step that begins or ends the call of a user's function, or a call that has failed.
Within ==
  /\ UNCHANGED <<completed, ancestorTree, executionTrace, store, warned, order, pos, result,
                 executes, live, serial, edges>>
  /\ \/ pc' = pc
     \/ pc = "node" /\ pc' \in {"DoIt", "nodeDone", "nodeFailed"}
     \/ pc \in {"undo", "UndoIt"} /\ pc' \in {"UndoIt", "undoFailed"}

LEMMA RetrySteps ==
  ASSUME [Next]_vars
  PROVE  \/ Within \/ Execute \/ Rollback \/ DoItSucceeds \/ DoItFails
         \/ NodeCompleted \/ NodeFailed \/ SagaCompleted \/ SkipUndo \/ UndoItSucceeds
         \/ CompensationSucceeds \/ CompensationFails
<1> USE DEF Within, dagVars, nodeVars, listVars, storeVars, callVars, worldVars, Goto
<1>1. CASE SkipNode
  BY <1>1 DEF SkipNode
<1>2. CASE ActionMissing
  BY <1>2 DEF ActionMissing
<1>3. CASE StartNode
  BY <1>3 DEF StartNode
<1>4. CASE StartUndo
  BY <1>4 DEF StartUndo
<1>5. CASE UndoItFails
  BY <1>5 DEF UndoItFails
<1>6. CASE UNCHANGED vars
  BY <1>6 DEF vars, controlVars
<1>7. QED
  BY <1>1, <1>2, <1>3, <1>4, <1>5, <1>6 DEF Next, Step

\* What a step changes of the successes: DoIt adds one, UndoIt removes those that have
\* the output found under the name of the node.
LEMMA SuccessSteps ==
  ASSUME TypeOK, CallsInv
  PROVE  /\ UNCHANGED <<live, executionTrace>> => Successes' = Successes
         /\ DoItSucceeds => Successes' = Successes \cup {<<CurrentNode, serial + 1>>}
         /\ DoItFails => Successes' = Successes
         /\ UndoItSucceeds => Successes' = {r \in Successes : r[2] # OutputOf(NodeToUndo)}
<1>1. /\ serial \in Nat /\ serial = Len(executionTrace) /\ \A r \in live : r[2] \in 1 .. serial
      /\ executionTrace \in Seq(ExecutionRecord)
  BY DEF TypeOK, ExecutorTypeOK, EnvironmentTypeOK, CallsInv
<1>2. UNCHANGED <<live, executionTrace>> => Successes' = Successes
  BY DEF Successes
<1>3. ASSUME NEW status \in {"completed", "failed"}, Trace(status), CurrentNode \in Nodes
      PROVE  /\ \A k \in 1 .. serial : executionTrace'[k] = executionTrace[k]
             /\ executionTrace'[serial + 1].status = status
  <2>1. executionTrace' = Append(executionTrace, [node |-> CurrentNode, status |-> status])
    BY <1>3 DEF Trace
  <2>2. [node |-> CurrentNode, status |-> status] \in ExecutionRecord
    BY <1>3 DEF ExecutionRecord
  <2> DEFINE t == [node |-> CurrentNode, status |-> status]
  <2>3. t.status = status
    OBVIOUS
  <2> HIDE DEF t
  <2>4. QED
    BY <1>1, <2>1, <2>2, <2>3, AppendProperties DEF t
<1>4. pc = "DoIt" => CurrentNode \in Nodes
  BY DEF TypeOK, ControlTypeOK, CurrentNode
<1>5. ASSUME DoItSucceeds PROVE Successes' = Successes \cup {<<CurrentNode, serial + 1>>}
  <2>1. live' = live \cup {<<CurrentNode, serial + 1>>} /\ Trace("completed") /\ pc = "DoIt"
    BY <1>5 DEF DoItSucceeds
  <2>2. /\ \A k \in 1 .. serial : executionTrace'[k] = executionTrace[k]
        /\ executionTrace'[serial + 1].status = "completed"
    BY <1>3, <1>4, <2>1
  <2>3. QED
    BY <1>1, <2>1, <2>2 DEF Successes
<1>6. ASSUME DoItFails PROVE Successes' = Successes
  <2>1. /\ live' = live \/ live' = live \cup {<<CurrentNode, serial + 1>>}
        /\ Trace("failed") /\ pc = "DoIt"
    BY <1>6 DEF DoItFails
  <2>2. /\ \A k \in 1 .. serial : executionTrace'[k] = executionTrace[k]
        /\ executionTrace'[serial + 1].status = "failed"
    BY <1>3, <1>4, <2>1
  <2>3. QED
    BY <1>1, <2>1, <2>2 DEF Successes
<1>7. UndoItSucceeds => Successes' = {r \in Successes : r[2] # OutputOf(NodeToUndo)}
  BY DEF UndoItSucceeds, Successes
<1>8. QED
  BY <1>2, <1>5, <1>6, <1>7

\* Every Execute that begins finds the world as the first one does.
LEMMA ExecuteFindsNothing ==
  ASSUME TypeOK, CallsInv, Execute
  PROVE  live = {} /\ Successes = {} /\ Successes' = {}
<1>1. executes \in Nat /\ (executes > 0 => MayRetry) /\ UNCHANGED <<live, executionTrace>>
  BY DEF Execute, TypeOK, EnvironmentTypeOK, worldVars, nodeVars
<1>2. live = {}
  BY <1>1 DEF CallsInv, MayRetry
<1>3. QED
  BY <1>1, <1>2 DEF Successes

\* DoIt stores its output under a name that no other action has.
LEMMA OutputAfterDoIt ==
  ASSUME TypeOK, OrderInv, DoItSucceeds, DistinctNames
  PROVE  /\ CurrentNode \in ActionNodes /\ CurrentNode' = CurrentNode
         /\ \A n \in ActionNodes :
              OutputOf(n)' = IF n = CurrentNode THEN serial + 1 ELSE OutputOf(n)
<1>1. CurrentNode \in ActionNodes /\ CurrentNode' = CurrentNode
  BY DEF DoItSucceeds, OrderInv, Goto, CurrentNode
<1>2. \A n \in ActionNodes : Named(n) /\ NameOf[n] \in Names
  BY DEF DistinctNames, Named
<1>3. ancestorTree \in [Names -> Nat]
      /\ ancestorTree' = [ancestorTree EXCEPT ![NameOf[CurrentNode]] = serial + 1]
  BY <1>1, <1>2 DEF DoItSucceeds, TypeOK, ExecutorTypeOK
<1>4. QED
  <2>1. ASSUME NEW n \in ActionNodes
        PROVE  OutputOf(n)' = IF n = CurrentNode THEN serial + 1 ELSE OutputOf(n)
    <3>1. OutputOf(n)' = ancestorTree'[NameOf[n]] /\ OutputOf(n) = ancestorTree[NameOf[n]]
      BY <1>2 DEF OutputOf, Named
    <3>2. NameOf[n] = NameOf[CurrentNode] <=> n = CurrentNode
      BY <1>1 DEF DistinctNames
    <3>3. QED
      BY <1>2, <1>3, <3>1, <3>2
  <2>2. QED
    BY <1>1, <2>1

LEMMA NextCallsInv == TypeOK /\ OrderInv /\ CallsInv /\ [Next]_vars => CallsInv'
<1> SUFFICES ASSUME TypeOK, OrderInv, CallsInv, [Next]_vars PROVE CallsInv'
  OBVIOUS
<1> USE DEF dagVars, nodeVars, listVars, storeVars, callVars, worldVars
<1>1. /\ serial \in Nat /\ executes \in Nat /\ live \subseteq Nodes \X Nat
      /\ executionTrace \in Seq(ExecutionRecord) /\ ancestorTree \in [Names -> Nat]
  BY DEF TypeOK, ExecutorTypeOK, EnvironmentTypeOK
<1>2. ASSUME UNCHANGED <<ancestorTree, executionTrace, serial>>, live' \subseteq live,
             executes' = 0 => pc' = "idle" /\ completed' = <<>> /\ live' = {} /\ store' = NoState
      PROVE  CallsInv'
  <2>1. \A n : OutputOf(n)' = OutputOf(n)
    BY <1>2 DEF OutputOf
  <2>2. DistinctNames' = DistinctNames
    BY DEF DistinctNames, Named
  <2>3. QED
    BY <1>2, <2>1, <2>2 DEF CallsInv
<1>3. ASSUME NEW status, pc = "DoIt", CurrentNode \in Nodes, Trace(status), serial' = serial + 1,
             status \in {"completed", "failed"}, executes' = executes,
             live' \subseteq live \cup {<<CurrentNode, serial'>>},
             DistinctNames => \A n \in ActionNodes :
               \/ OutputOf(n)' = OutputOf(n)
               \/ OutputOf(n)' = serial' /\ status = "completed"
      PROVE  CallsInv'
  <2> DEFINE t == [node |-> CurrentNode, status |-> status]
  <2>1. executionTrace' = Append(executionTrace, t) /\ t \in ExecutionRecord /\ t.status = status
    BY <1>3 DEF Trace, ExecutionRecord
  <2> HIDE DEF t
  <2>2. /\ Len(executionTrace') = serial + 1 /\ executionTrace'[serial + 1] = t
        /\ \A k \in 1 .. serial : executionTrace'[k] = executionTrace[k]
    BY <1>1, <2>1, AppendProperties DEF CallsInv
  <2>3. executes' # 0
    BY <1>3 DEF CallsInv
  <2>4. \A r \in live' : r[2] \in 1 .. serial'
    BY <1>1, <1>3 DEF CallsInv
  <2>5. ASSUME DistinctNames, NEW n \in ActionNodes, OutputOf(n)' # NoOutput
        PROVE  /\ OutputOf(n)' \in 1 .. serial'
               /\ executionTrace'[OutputOf(n)'].status = "completed"
    <3>1. CASE OutputOf(n)' = OutputOf(n)
      <4>1. OutputOf(n) \in 1 .. serial /\ executionTrace[OutputOf(n)].status = "completed"
        BY <2>5, <3>1 DEF CallsInv
      <4>2. QED
        BY <1>1, <1>3, <2>2, <3>1, <4>1
    <3>2. CASE OutputOf(n)' = serial' /\ status = "completed"
      BY <1>1, <1>3, <2>1, <2>2, <3>2
    <3>3. QED
      BY <1>3, <2>5, <3>1, <3>2
  <2>6. DistinctNames' = DistinctNames
    BY DEF DistinctNames, Named
  <2>7. serial' = Len(executionTrace')
    BY <1>3, <2>2
  <2>8. QED
    BY <2>3, <2>4, <2>5, <2>6, <2>7 DEF CallsInv
<1>4. pc = "DoIt" => CurrentNode \in Nodes
  BY DEF TypeOK, ControlTypeOK, CurrentNode
<1>5. CASE DoItSucceeds
  <2>1. /\ pc = "DoIt" /\ Trace("completed") /\ serial' = serial + 1 /\ executes' = executes
        /\ live' = live \cup {<<CurrentNode, serial'>>}
    BY <1>5 DEF DoItSucceeds
  <2>2. DistinctNames => \A n \in ActionNodes : OutputOf(n)' = OutputOf(n) \/ OutputOf(n)' = serial'
    BY <1>5, <2>1, OutputAfterDoIt
  <2>3. QED
    BY <1>3, <1>4, <2>1, <2>2
<1>6. CASE DoItFails
  <2>1. /\ pc = "DoIt" /\ Trace("failed") /\ serial' = serial + 1 /\ executes' = executes
        /\ live' \subseteq live \cup {<<CurrentNode, serial'>>} /\ UNCHANGED ancestorTree
    BY <1>6 DEF DoItFails
  <2>2. \A n : OutputOf(n)' = OutputOf(n)
    BY <2>1 DEF OutputOf
  <2>3. QED
    BY <1>3, <1>4, <2>1, <2>2
<1>7. CASE Within
  <2>1. executes = 0 => pc' = pc
    BY <1>7 DEF Within, CallsInv
  <2>2. QED
    BY <1>2, <1>7, <2>1 DEF Within, CallsInv
<1>8. CASE Execute
  BY <1>1, <1>2, <1>8 DEF Execute
<1>9. CASE Rollback
  BY <1>2, <1>9 DEF Rollback, CallsInv
<1>10. ASSUME pc # "idle", executes' = executes, UNCHANGED <<ancestorTree, executionTrace, serial>>,
              live' \subseteq live
       PROVE  CallsInv'
  BY <1>2, <1>10 DEF CallsInv
<1>11. CASE NodeCompleted
  BY <1>10, <1>11 DEF NodeCompleted
<1>12. CASE NodeFailed
  BY <1>10, <1>12 DEF NodeFailed
<1>13. CASE SagaCompleted
  BY <1>10, <1>13 DEF SagaCompleted
<1>14. CASE SkipUndo
  BY <1>10, <1>14 DEF SkipUndo
<1>15. CASE UndoItSucceeds
  BY <1>10, <1>15 DEF UndoItSucceeds
<1>16. CASE CompensationSucceeds
  BY <1>10, <1>16 DEF CompensationSucceeds
<1>17. CASE CompensationFails
  BY <1>10, <1>17 DEF CompensationFails
<1>18. QED
  BY <1>5, <1>6, <1>7, <1>8, <1>9, <1>11, <1>12, <1>13, <1>14, <1>15, <1>16, <1>17, RetrySteps

----------------------------------------------------------------------------
(* The part of the completed list that the last Execute made *)

LEMMA NextLastInv ==
  TypeOK /\ OrderInv /\ ForwardInv /\ CallsInv /\ LastInv /\ [Next]_vars => LastInv'
<1> SUFFICES ASSUME TypeOK, OrderInv, CallsInv, LastInv, [Next]_vars, DistinctNames
             PROVE  \E c \in Nat : Since(c)'
  BY DEF LastInv, DistinctNames, Named
<1> USE DEF Forward, Backward
<1>0. PICK b \in Nat : Since(b)
  BY DEF LastInv
<1>1. /\ completed \in Seq(Nodes) /\ order \in Seq(Nodes) /\ pos \in Nat /\ serial \in Nat
      /\ pc \in {"DoIt", "nodeDone", "nodeFailed"} => pos \in 1 .. Len(order)
      /\ \A r \in live : r[1] \in ActionNodes
  BY DEF TypeOK, ExecutorTypeOK, EnvironmentTypeOK, ControlTypeOK, OrderInv
<1>2. ASSUME UNCHANGED <<completed, order, ancestorTree>>, Successes' \subseteq Successes,
             pc' \in Forward => pc \in Forward /\ pos' = pos,
             \A r \in Successes' : pc = "nodeDone" /\ r[1] = order[pos] => pc' = "nodeDone",
             pc' \in Backward => \A r \in Successes' : \E i \in b + 1 .. pos' : completed[i] = r[1]
      PROVE  Since(b)'
  <2>1. \A n : OutputOf(n)' = OutputOf(n)
    BY <1>2 DEF OutputOf
  <2>2. \A r \in Successes' : r \in Successes
    BY <1>2
  <2>3. \A r \in Successes' :
          /\ r[2] = OutputOf(r[1])'
          /\ \/ \E i \in b + 1 .. Len(completed) : completed[i] = r[1]
             \/ pc' = "nodeDone" /\ r[1] = order'[pos']
    BY <1>0, <1>2, <2>1, <2>2 DEF Since
  <2>4. QED
    BY <1>0, <1>2, <2>3 DEF Since
<1>3. UNCHANGED <<live, executionTrace>> => Successes' = Successes
  BY SuccessSteps
<1>4. CASE Within
  BY <1>0, <1>2, <1>3, <1>4 DEF Within, Since
<1>5. CASE Execute
  <2>1. /\ UNCHANGED <<completed, ancestorTree>> /\ Successes' = {}
    BY <1>5, ExecuteFindsNothing DEF Execute, listVars, nodeVars
  <2>2. CASE UNCHANGED <<pc, order, pos>>
    BY <1>2, <1>5, <2>1, <2>2 DEF Execute
  <2>3. CASE pc' = "node" /\ pos' = 1
    <3>1. Len(completed) \in Nat /\ Since(Len(completed))'
      BY <1>1, <2>1, <2>3 DEF Since
    <3>2. QED
      BY <3>1
  <2>4. QED
    BY <1>5, <2>2, <2>3 DEF Execute
<1>6. CASE Rollback
  <2>1. /\ UNCHANGED <<completed, ancestorTree, order>> /\ Successes' = Successes /\ pc = "idle"
        /\ (UNCHANGED <<pc, pos>>) \/ (pc' = "undo" /\ pos' = Len(completed))
    BY <1>3, <1>6 DEF Rollback, listVars, nodeVars, worldVars
  <2>2. \A r \in Successes : \E i \in b + 1 .. Len(completed) : completed[i] = r[1]
    BY <1>0, <2>1 DEF Since
  <2>3. QED
    BY <1>2, <2>1, <2>2
<1>7. CASE DoItSucceeds
  <2>1. /\ UNCHANGED <<completed, order, pos>> /\ pc = "DoIt" /\ pc' = "nodeDone"
        /\ Successes' = Successes \cup {<<order[pos], serial + 1>>}
    BY <1>7, SuccessSteps DEF DoItSucceeds, Goto, listVars, CurrentNode
  <2>2. /\ order[pos] \in ActionNodes /\ OutputOf(order[pos])' = serial + 1
        /\ \A n \in ActionNodes : n # order[pos] => OutputOf(n)' = OutputOf(n)
    BY <1>7, OutputAfterDoIt DEF CurrentNode
  <2>3. order \in TopologicalOrders(edges)
    BY <2>1 DEF OrderInv
  <2>4. \A i \in b + 1 .. Len(completed) : completed[i] # order[pos]
    <3>1. SUFFICES ASSUME NEW i \in b + 1 .. Len(completed), completed[i] = order[pos] PROVE FALSE
      OBVIOUS
    <3>2. /\ i - b \in 1 .. Len(order) /\ pos \in 1 .. Len(order) /\ order[i - b] = order[pos]
          /\ Len(completed) - b = pos - 1
      BY <1>0, <1>1, <2>1, <3>1 DEF Since
    <3>3. i - b = pos
      BY <2>3, <3>2, OrderFacts
    <3>4. QED
      BY <1>1, <3>1, <3>2, <3>3
  <2>5. ASSUME NEW r \in Successes
        PROVE  /\ r[2] = OutputOf(r[1])'
               /\ \E i \in b + 1 .. Len(completed) : completed[i] = r[1]
    <3>1. /\ r[2] = OutputOf(r[1]) /\ r[1] \in ActionNodes
          /\ \E i \in b + 1 .. Len(completed) : completed[i] = r[1]
      BY <1>0, <1>1, <2>1 DEF Since, Successes
    <3>2. r[1] # order[pos]
      BY <2>4, <3>1
    <3>3. QED
      BY <2>2, <3>1, <3>2
  <2>6. ASSUME NEW r \in Successes'
        PROVE  /\ r[2] = OutputOf(r[1])'
               /\ \/ \E i \in b + 1 .. Len(completed) : completed[i] = r[1]
                  \/ r[1] = order[pos]
    BY <2>1, <2>2, <2>5
  <2>7. Since(b)'
    BY <1>0, <2>1, <2>6 DEF Since
  <2>8. QED
    BY <2>7
<1>8. CASE DoItFails
  BY <1>0, <1>2, <1>8, SuccessSteps DEF DoItFails, Goto, listVars, Since
<1>9. CASE NodeCompleted
  <2>1. /\ completed' = Append(completed, order[pos]) /\ order[pos] \in Nodes
        /\ UNCHANGED <<order, ancestorTree>> /\ Successes' = Successes
        /\ pc = "nodeDone" /\ pc' = "node" /\ pos' = pos + 1 /\ pos \in 1 .. Len(order)
    BY <1>1, <1>3, <1>9 DEF NodeCompleted, nodeVars, worldVars, CurrentNode
  <2>2. /\ Len(completed') = Len(completed) + 1 /\ completed'[Len(completed) + 1] = order[pos]
        /\ \A i \in 1 .. Len(completed) : completed'[i] = completed[i]
    BY <1>1, <2>1, AppendProperties
  <2>3. b <= Len(completed) /\ Len(completed) - b = pos - 1
    BY <1>0, <2>1 DEF Since
  <2>4. ASSUME NEW i \in b + 1 .. Len(completed')
        PROVE  i - b <= Len(order) /\ completed'[i] = order[i - b]
    <3>1. CASE i = Len(completed) + 1
      BY <1>1, <2>1, <2>2, <2>3, <3>1
    <3>2. CASE i # Len(completed) + 1
      <4>1. i \in b + 1 .. Len(completed) /\ i \in 1 .. Len(completed)
        BY <1>1, <2>2, <2>4, <3>2
      <4>2. QED
        BY <1>0, <2>2, <4>1 DEF Since
    <3>3. QED
      BY <3>1, <3>2
  <2>5. ASSUME NEW r \in Successes PROVE \E i \in b + 1 .. Len(completed') : completed'[i] = r[1]
    <3>1. CASE r[1] = order[pos]
      <4>1. Len(completed) + 1 \in b + 1 .. Len(completed')
        BY <1>1, <2>2, <2>3
      <4>2. QED
        BY <2>2, <3>1, <4>1
    <3>2. CASE r[1] # order[pos]
      <4>1. PICK i \in b + 1 .. Len(completed) : completed[i] = r[1]
        BY <1>0, <3>2 DEF Since
      <4>2. i \in b + 1 .. Len(completed') /\ i \in 1 .. Len(completed)
        BY <1>1, <2>2
      <4>3. QED
        BY <2>2, <4>1, <4>2
    <3>3. QED
      BY <3>1, <3>2
  <2>6. \A n : OutputOf(n)' = OutputOf(n)
    BY <2>1 DEF OutputOf
  <2>7. \A r \in Successes : r[2] = OutputOf(r[1])'
    BY <1>0, <2>6 DEF Since
  <2>8. Len(completed') - b = pos' - 1
    BY <1>1, <2>1, <2>2, <2>3
  <2>9. b <= Len(completed')
    BY <1>1, <2>2, <2>3
  <2>10. Since(b)'
    BY <2>1, <2>4, <2>5, <2>7, <2>8, <2>9 DEF Since
  <2>11. QED
    BY <2>10
<1>10. CASE NodeFailed
  <2>1. /\ UNCHANGED <<completed, order, ancestorTree>> /\ Successes' = Successes
        /\ pc = "nodeFailed" /\ pc' = "undo" /\ pos' = Len(completed)
    BY <1>3, <1>10 DEF NodeFailed, nodeVars, worldVars
  <2>2. \A r \in Successes : \E i \in b + 1 .. Len(completed) : completed[i] = r[1]
    BY <1>0, <2>1 DEF Since
  <2>3. QED
    BY <1>2, <2>1, <2>2
<1>11. CASE SagaCompleted
  BY <1>2, <1>3, <1>11 DEF SagaCompleted, Return, nodeVars, listVars, worldVars
<1>12. ASSUME UNCHANGED <<completed, order, ancestorTree>>, Successes' \subseteq Successes,
              pc \in Backward, pc' = "undo", pos' = pos - 1, pos \in 1 .. Len(completed),
              \A r \in Successes' : r[1] # completed[pos]
       PROVE  Since(b)'
  <2>1. ASSUME NEW r \in Successes' PROVE \E i \in b + 1 .. pos' : completed[i] = r[1]
    <3>1. PICK i \in b + 1 .. pos : completed[i] = r[1]
      BY <1>0, <1>12 DEF Since
    <3>2. i # pos
      BY <1>12, <3>1
    <3>3. i \in b + 1 .. pos'
      BY <1>1, <1>12, <3>2
    <3>4. QED
      BY <3>1, <3>3
  <2>2. QED
    BY <1>2, <1>12, <2>1
<1>13. CASE SkipUndo
  <2>1. /\ Successes' = Successes /\ UNCHANGED <<completed, order, ancestorTree>>
        /\ pc = "undo" /\ pc' = "undo" /\ pos' = pos - 1 /\ pos \in 1 .. Len(completed)
        /\ completed[pos] \notin ActionNodes
    BY <1>1, <1>3, <1>13 DEF SkipUndo, listVars, worldVars, NodeToUndo, TypeOK, ControlTypeOK
  <2>2. \A r \in Successes : r[1] \in ActionNodes
    BY <1>1 DEF Successes
  <2>3. QED
    BY <1>12, <2>1, <2>2
<1>14. CASE UndoItSucceeds
  <2>1. /\ Successes' = {r \in Successes : r[2] # OutputOf(completed[pos])}
        /\ UNCHANGED <<completed, order, ancestorTree>>
        /\ pc = "UndoIt" /\ pc' = "undo" /\ pos' = pos - 1 /\ pos \in 1 .. Len(completed)
    BY <1>14, SuccessSteps DEF UndoItSucceeds, listVars, NodeToUndo, TypeOK, ControlTypeOK
  <2>2. \A r \in Successes : r[2] = OutputOf(r[1])
    BY <1>0 DEF Since
  <2>3. \A r \in Successes' : r[1] # completed[pos]
    BY <2>1, <2>2
  <2>4. QED
    BY <1>12, <2>1, <2>3
<1>15. CASE CompensationSucceeds
  BY <1>2, <1>3, <1>15 DEF CompensationSucceeds, Return, nodeVars, listVars, worldVars
<1>16. CASE CompensationFails
  BY <1>2, <1>3, <1>16 DEF CompensationFails, Return, nodeVars, listVars, worldVars
<1>17. QED
  BY <1>4, <1>5, <1>6, <1>7, <1>8, <1>9, <1>10, <1>11, <1>13, <1>14, <1>15, <1>16, RetrySteps

----------------------------------------------------------------------------
(* What a compensation leaves, and what is on record *)

\* With its loop at the end, compensation has undone all that is in its part of the list.
LEMMA AllUndone ==
  ASSUME TypeOK, LastInv, DistinctNames, pc = "undo", pos = 0
  PROVE  Successes = {}
<1>1. PICK b \in Nat : Since(b)
  BY DEF LastInv
<1>2. \A r \in Successes : \E i \in b + 1 .. 0 : completed[i] = r[1]
  BY <1>1 DEF Since, Backward
<1>3. QED
  BY <1>2

LEMMA NextUndoneInv ==
  TypeOK /\ OrderInv /\ CallsInv /\ LastInv /\ UndoneInv /\ [Next]_vars => UndoneInv'
<1> SUFFICES ASSUME TypeOK, OrderInv, CallsInv, LastInv, UndoneInv, [Next]_vars, DistinctNames,
                    result' \in {"compensated", "rolledBack"}
             PROVE  pc' = "idle" /\ Successes' = {}
  BY DEF UndoneInv, DistinctNames, Named
<1>1. UNCHANGED <<live, executionTrace>> => Successes' = Successes
  BY SuccessSteps
<1>2. pc # "idle" => result = "none"
  BY DEF OrderInv
<1>3. CASE Within
  BY <1>1, <1>2, <1>3 DEF Within, UndoneInv
<1>4. CASE CompensationSucceeds
  BY <1>1, <1>4, AllUndone DEF CompensationSucceeds, Return, nodeVars, worldVars
<1>5. CASE Execute
  BY <1>5 DEF Execute
<1>6. CASE Rollback
  BY <1>6 DEF Rollback
<1>7. CASE DoItSucceeds \/ DoItFails
  BY <1>2, <1>7 DEF DoItSucceeds, DoItFails, Goto
<1>8. CASE NodeCompleted \/ NodeFailed \/ SkipUndo \/ UndoItSucceeds
  BY <1>2, <1>8 DEF NodeCompleted, NodeFailed, SkipUndo, UndoItSucceeds
<1>9. CASE SagaCompleted \/ CompensationFails
  BY <1>9 DEF SagaCompleted, CompensationFails, Return
<1>10. QED
  BY <1>3, <1>4, <1>5, <1>6, <1>7, <1>8, <1>9, RetrySteps

\* When the loop of Execute is at its end, every action is in place.
LEMMA AllMade ==
  ASSUME TypeOK, OrderInv, ForwardInv, CallsInv, DistinctNames, pc = "node", pos > Len(order)
  PROVE  Made = ActionNodes
<1>1. order \in TopologicalOrders(edges) /\ pos = Len(order) + 1 /\ order \in Seq(Nodes)
  BY DEF TypeOK, ControlTypeOK, OrderInv, Forward
<1>2. Made \subseteq ActionNodes
  BY DEF Made, OrderInv
<1>3. ASSUME NEW n \in ActionNodes PROVE n \in Made
  <2>1. PICK i \in 1 .. Len(order) : order[i] = n
    BY <1>1, OrderFacts, ActionNodesAssumption
  <2>2. Passed(order[i])
    BY <1>1 DEF ForwardInv, Forward
  <2>3. <<n, OutputOf(n)>> \in live
    BY <2>1, <2>2 DEF Passed
  <2>4. OutputOf(n) \in 1 .. serial
    BY <2>3 DEF CallsInv
  <2>5. executionTrace[OutputOf(n)].status = "completed"
    <3>1. serial \in Nat
      BY DEF TypeOK, EnvironmentTypeOK
    <3>2. OutputOf(n) # NoOutput
      BY <2>4, <3>1 DEF NoOutput
    <3>3. QED
      BY <3>2 DEF CallsInv
  <2> DEFINE r == <<n, OutputOf(n)>>
  <2>6. r \in {q \in live : executionTrace[q[2]].status = "completed"} /\ r[1] = n
    BY <2>3, <2>5
  <2>7. QED
    BY <2>6 DEF Made
<1>4. QED
  BY <1>2, <1>3

LEMMA NextFinalInv ==
  TypeOK /\ OrderInv /\ ForwardInv /\ CallsInv /\ LastInv /\ FinalInv /\ [Next]_vars => FinalInv'
<1> DEFINE Final == {"completed", "rolled_back"}
<1> SUFFICES ASSUME TypeOK, OrderInv, ForwardInv, CallsInv, LastInv, FinalInv, [Next]_vars,
                    DistinctNames, ~warned', store'.status \in Final
             PROVE  /\ pc' = "idle"
                    /\ store'.status = "completed" => Made' = ActionNodes
                    /\ store'.status = "rolled_back" => Made' = {}
  BY DEF FinalInv, DistinctNames, Named
<1>1. UNCHANGED <<live, executionTrace>> => Made' = Made
  BY DEF Made
<1>2. ~warned /\ store.status \in Final => pc = "idle"
  BY DEF FinalInv
<1>3. ASSUME UNCHANGED <<store, warned>>, pc # "idle" PROVE FALSE
  BY <1>2, <1>3
<1>4. ASSUME NEW status \in {"running", "failed", "rolling_back"}, NEW nodes, Persist(status, nodes)
      PROVE  FALSE
  BY <1>4, PersistStatus
<1>5. CASE Within
  <2>1. pc = "idle" /\ pc' = pc
    BY <1>3, <1>5 DEF Within
  <2>2. QED
    BY <1>1, <1>5, <2>1 DEF Within, FinalInv
<1>6. CASE Execute
  <2>1. /\ UNCHANGED <<warned, live, executionTrace>>
        /\ Saves("running", completed) \/ (SaveFails /\ UNCHANGED pc /\ pc = "idle")
    BY <1>6 DEF Execute, nodeVars, worldVars
  <2>2. ~Saves("running", completed)
    BY SavedStatus
  <2>3. store' = store
    BY <2>1, <2>2 DEF SaveFails, Torn
  <2>4. QED
    BY <1>1, <2>1, <2>2, <2>3 DEF FinalInv
<1>7. CASE Rollback
  <2>1. UNCHANGED <<store, warned, pc, live, executionTrace>> /\ pc = "idle"
    BY <1>4, <1>7 DEF Rollback, storeVars, nodeVars, worldVars
  <2>2. QED
    BY <1>1, <2>1 DEF FinalInv
<1>8. CASE DoItSucceeds \/ DoItFails \/ SkipUndo \/ UndoItSucceeds
  BY <1>3, <1>8 DEF DoItSucceeds, DoItFails, SkipUndo, UndoItSucceeds, storeVars
<1>9. CASE NodeCompleted
  BY <1>4, <1>9 DEF NodeCompleted
<1>10. CASE NodeFailed
  BY <1>4, <1>10 DEF NodeFailed
<1>11. CASE SagaCompleted
  <2>1. /\ Persist("completed", completed) /\ pc' = "idle" /\ UNCHANGED <<live, executionTrace>>
    BY <1>11 DEF SagaCompleted, Return, nodeVars, worldVars
  <2>2. Made = ActionNodes
    BY <1>11, AllMade DEF SagaCompleted
  <2>3. store'.status = "completed"
    BY <2>1, PersistStatus
  <2>4. QED
    BY <1>1, <2>1, <2>2, <2>3
<1>12. CASE CompensationSucceeds
  <2>1. /\ pc' = "idle" /\ UNCHANGED <<live, executionTrace>> /\ pc = "undo" /\ pos = 0
        /\ Persist("rolled_back", completed)
    BY <1>3, <1>12 DEF CompensationSucceeds, Return, nodeVars, worldVars, storeVars
  <2>2. Successes = {}
    BY <2>1, AllUndone
  <2>3. Made = {}
    BY <2>2 DEF Made, Successes
  <2>4. store'.status = "rolled_back"
    BY <2>1, PersistStatus
  <2>5. QED
    BY <1>1, <2>1, <2>3, <2>4
<1>13. CASE CompensationFails
  BY <1>3, <1>4, <1>13 DEF CompensationFails, storeVars
<1>14. QED
  BY <1>5, <1>6, <1>7, <1>8, <1>9, <1>10, <1>11, <1>12, <1>13, RetrySteps

\* The list that a save stores has all that is in place, when every node of it is
\* on the completed list.
LEMMA SavedRecord ==
  ASSUME TypeOK, OrderInv, DistinctNames, NEW b \in Nat, Since(b)', TypeOK', OrderInv',
         pc' # "nodeDone", UNCHANGED ancestorTree,
         NEW status, Persist(status, completed'), ~warned'
  PROVE  \A r \in Successes' : <<NameOf[r[1]], r[2]>> \in Pairs(store'.actions)
<1>1. ancestorTree \in [Names -> Nat] /\ completed' \in Seq(Nodes)
  BY DEF TypeOK, ExecutorTypeOK
<1>2. store'.actions = Listing(completed')
  BY <1>1, SavedListing
<1>3. ASSUME NEW r \in Successes' PROVE <<NameOf[r[1]], r[2]>> \in Pairs(Listing(completed'))
  <2>1. PICK i \in b + 1 .. Len(completed') : completed'[i] = r[1] /\ r[2] = OutputOf(r[1])'
    BY DEF Since
  <2>2. OutputOf(r[1])' = OutputOf(r[1])
    BY DEF OutputOf
  <2>3. r[1] \in ActionNodes /\ Named(r[1])
    BY DEF Successes, OrderInv, DistinctNames
  <2>4. i \in 1 .. Len(completed')
    OBVIOUS
  <2>5. /\ Named(completed'[i])
        /\ <<NameOf[r[1]], r[2]>> = <<NameOf[completed'[i]], OutputOf(completed'[i])>>
    BY <2>1, <2>2, <2>3
  <2>6. QED
    BY <1>1, <2>4, <2>5, ListedPairs
<1>4. QED
  BY <1>2, <1>3

LEMMA NextRecordInv ==
  /\ TypeOK /\ OrderInv /\ CallsInv /\ LastInv /\ RecordInv
  /\ TypeOK' /\ OrderInv' /\ LastInv' /\ [Next]_vars
  => RecordInv'
<1> SUFFICES ASSUME TypeOK, OrderInv, CallsInv, RecordInv, TypeOK', OrderInv', LastInv',
                    [Next]_vars, DistinctNames, ~warned', Readable'
             PROVE  \A r \in Successes' :
                      \/ <<NameOf[r[1]], r[2]>> \in Pairs(store'.actions)
                      \/ pc' = "nodeDone" /\ r[1] = CurrentNode'
  BY DEF RecordInv, DistinctNames, Named
<1>1. UNCHANGED <<live, executionTrace>> => Successes' = Successes
  BY SuccessSteps
<1>2. PICK b \in Nat : Since(b)'
  BY DEF LastInv, DistinctNames, Named
<1>3. ASSUME NEW status, Persist(status, completed'), pc' # "nodeDone", UNCHANGED ancestorTree
      PROVE  \A r \in Successes' : <<NameOf[r[1]], r[2]>> \in Pairs(store'.actions)
  BY <1>2, <1>3, SavedRecord
<1>4. ASSUME UNCHANGED <<store, warned>>, Successes' \subseteq Successes,
             pc = "nodeDone" => pc' = "nodeDone" /\ CurrentNode' = CurrentNode
      PROVE  \A r \in Successes' :
               \/ <<NameOf[r[1]], r[2]>> \in Pairs(store'.actions)
               \/ pc' = "nodeDone" /\ r[1] = CurrentNode'
  BY <1>4 DEF RecordInv, Readable
<1>5. CASE Within
  BY <1>1, <1>4, <1>5 DEF Within, CurrentNode
<1>6. CASE Execute
  BY <1>6, ExecuteFindsNothing
<1>7. CASE Rollback
  <2>1. CASE UNCHANGED <<storeVars, pc>>
    BY <1>1, <1>4, <1>7, <2>1 DEF Rollback, storeVars, worldVars, nodeVars
  <2>2. CASE Persist("rolling_back", completed) /\ pc' = "undo"
    BY <1>3, <1>7, <2>2 DEF Rollback, listVars, nodeVars
  <2>3. QED
    BY <1>7, <2>1, <2>2 DEF Rollback
<1>8. CASE DoItSucceeds
  <2>1. /\ UNCHANGED <<store, warned>> /\ pc = "DoIt" /\ pc' = "nodeDone"
        /\ CurrentNode' = CurrentNode
        /\ Successes' = Successes \cup {<<CurrentNode, serial + 1>>}
    BY <1>8, SuccessSteps, OutputAfterDoIt DEF DoItSucceeds, Goto, storeVars
  <2>2. \A r \in Successes : <<NameOf[r[1]], r[2]>> \in Pairs(store.actions)
    BY <2>1 DEF RecordInv, Readable
  <2>3. QED
    BY <2>1, <2>2
<1>9. CASE DoItFails
  BY <1>4, <1>9, SuccessSteps DEF DoItFails, storeVars
<1>10. CASE NodeCompleted
  BY <1>3, <1>10 DEF NodeCompleted, nodeVars
<1>11. CASE NodeFailed
  BY <1>3, <1>11 DEF NodeFailed, nodeVars
<1>12. CASE SagaCompleted
  BY <1>3, <1>12 DEF SagaCompleted, Return, nodeVars, listVars
<1>13. CASE SkipUndo
  BY <1>1, <1>4, <1>13 DEF SkipUndo, storeVars, worldVars
<1>14. CASE UndoItSucceeds
  BY <1>4, <1>14, SuccessSteps DEF UndoItSucceeds, storeVars
<1>15. CASE CompensationSucceeds
  <2>1. pc = "undo" /\ pc' = "idle" /\ UNCHANGED <<live, executionTrace, ancestorTree, completed>>
    BY <1>15 DEF CompensationSucceeds, Return, nodeVars, listVars, worldVars
  <2>2. UNCHANGED <<store, warned>> \/ Persist("rolled_back", completed)
    BY <1>15 DEF CompensationSucceeds, storeVars
  <2>3. QED
    BY <1>1, <1>3, <1>4, <2>1, <2>2
<1>16. CASE CompensationFails
  <2>1. pc = "undoFailed" /\ pc' = "idle"
        /\ UNCHANGED <<live, executionTrace, ancestorTree, completed>>
    BY <1>16 DEF CompensationFails, Return, nodeVars, listVars, worldVars
  <2>2. UNCHANGED <<store, warned>> \/ Persist("failed", completed)
    BY <1>16 DEF CompensationFails, storeVars
  <2>3. QED
    BY <1>1, <1>3, <1>4, <2>1, <2>2
<1>17. QED
  BY <1>5, <1>6, <1>7, <1>8, <1>9, <1>10, <1>11, <1>12, <1>13, <1>14, <1>15, <1>16, RetrySteps

LEMMA InitRetryInv == Init => RetryInv
<1> SUFFICES ASSUME Init PROVE RetryInv
  OBVIOUS
<1>1. TypeOK /\ OrderInv /\ ForwardInv
  BY InitIInv DEF IInv
<1>2. live = {} /\ Successes = {} /\ Made = {}
  BY DEF Init, Successes, Made
<1>3. CallsInv
  <2>1. \A n \in ActionNodes : Named(n) => OutputOf(n) = NoOutput
    BY DEF Init, FreshExecutor, NoOutputs, OutputOf, Named
  <2>2. QED
    BY <1>2, <2>1 DEF Init, FreshExecutor, CallsInv, DistinctNames
<1>4. Since(0)
  BY <1>2 DEF Init, FreshExecutor, Since, Forward, Backward
<1>5. LastInv /\ UndoneInv
  BY <1>4 DEF LastInv, UndoneInv, Init
<1>6. FinalInv /\ RecordInv
  BY <1>2 DEF Init, FinalInv, RecordInv, NoState
<1>7. QED
  BY <1>1, <1>3, <1>5, <1>6 DEF RetryInv

LEMMA NextRetryInv == RetryInv /\ [Next]_vars => RetryInv'
<1> SUFFICES ASSUME RetryInv, [Next]_vars PROVE RetryInv'
  OBVIOUS
<1>1. TypeOK' /\ OrderInv' /\ ForwardInv'
  BY NextTypeOK, NextOrderInv, NextForwardInv DEF RetryInv
<1>2. CallsInv' /\ LastInv'
  BY NextCallsInv, NextLastInv DEF RetryInv
<1>3. UndoneInv' /\ FinalInv' /\ RecordInv'
  BY <1>1, <1>2, NextUndoneInv, NextFinalInv, NextRecordInv DEF RetryInv
<1>4. QED
  BY <1>1, <1>2, <1>3 DEF RetryInv

\* A caller that calls Execute again only when nothing is left, any number of times,
\* finds each call undone in an order that respects the dependencies, and completely,
\* and what is on record true.
THEOREM RetryHolds == Spec => []RetryIsClean
<1>1. ASSUME RetryInv PROVE RetryIsClean
  <2> SUFFICES ASSUME DistinctNames PROVE RetryIsClean
    BY DEF RetryIsClean
  <2>1. result \in {"compensated", "rolledBack"} => Made = {}
    BY <1>1 DEF RetryInv, UndoneInv, Made, Successes
  <2>2. ASSUME pc = "UndoIt", NEW m \in Made PROVE <<NodeToUndo, m>> \notin edges
    <3>1. PICK b \in Nat : Since(b)
      BY <1>1 DEF RetryInv, LastInv
    <3>2. PICK r \in Successes : r[1] = m
      BY <2>2 DEF Made, Successes
    <3>3. PICK i \in b + 1 .. pos : completed[i] = m
      BY <2>2, <3>1, <3>2 DEF Since, Backward
    <3>4. pos \in 1 .. Len(completed) /\ completed \in Seq(Nodes) /\ order \in Seq(Nodes)
      BY <1>1, <2>2 DEF RetryInv, TypeOK, ControlTypeOK, ExecutorTypeOK
    <3>5. /\ i - b \in 1 .. Len(order) /\ m = order[i - b]
          /\ pos - b \in 1 .. Len(order) /\ NodeToUndo = order[pos - b]
      <4>1. i \in b + 1 .. Len(completed) /\ pos \in b + 1 .. Len(completed)
        BY <3>3, <3>4
      <4>2. \A k \in b + 1 .. Len(completed) : k - b <= Len(order) /\ completed[k] = order[k - b]
        BY <3>1 DEF Since
      <4>3. QED
        BY <3>3, <3>4, <4>1, <4>2 DEF NodeToUndo
    <3>6. order \in TopologicalOrders(edges)
      BY <1>1, <3>5 DEF RetryInv, OrderInv
    <3>7. <<NodeToUndo, m>> \in edges => pos - b < i - b
      BY <3>5, <3>6, OrderFacts
    <3>8. QED
      BY <3>3, <3>4, <3>7
  <2>3. ~warned => /\ store.status = "completed" => Made = ActionNodes
                   /\ store.status = "rolled_back" => Made = {}
    BY <1>1 DEF RetryInv, FinalInv
  <2>4. ASSUME ~warned, Readable, NEW r \in live, executionTrace[r[2]].status = "completed"
        PROVE  <<NameOf[r[1]], r[2]>> \in Recorded \/ (pc = "nodeDone" /\ r[1] = CurrentNode)
    <3>1. Recorded = Pairs(store.actions)
      BY DEF Recorded, Pairs
    <3>2. r \in Successes
      BY <2>4 DEF Successes
    <3>3. QED
      BY <1>1, <2>4, <3>1, <3>2 DEF RetryInv, RecordInv
  <2>5. QED
    BY <2>1, <2>2, <2>3, <2>4 DEF RetryIsClean
<1>2. QED
  BY <1>1, InitRetryInv, NextRetryInv, PTL DEF Spec

==============================================================================
