-------------------------- MODULE DagBuilderProofs --------------------------
(***************************************************************************)
(* Whatever is appended to a builder, in whatever order, with subsagas,    *)
(* refused stages and panics: its graph has no cycle.  And as long as no   *)
(* stage is refused halfway, the stages run one after the other, a copy of *)
(* a subsaga is whole, and the ends that Build returns are the real ones.  *)
(***************************************************************************)
EXTENDS DagBuilder, FiniteSetTheorems, SequenceTheorems, WellFoundedInduction, TLAPS

\* The nodes that edges may be drawn to later: no start node of a SagaDag.
Plain == {n \in Ids : nodes[n].kind # "start"}

\* The ids the builder, its loop over a stage and its last Dag hold.
EndsPlain == firstAdded \cup lastAdded \cup newNodes \cup built.firstNodes \cup built.lastNodes \subseteq Plain

\* During a walk the copies come after the node that will lead to the first of them.
CopiesPlain == pc = "walk" => \A m \in DOMAIN copy : copy[m] \in Plain /\ start < copy[m]

GraphInv == GraphTypeOK /\ GraphOrdered
IInv == GraphInv /\ BuilderTypeOK /\ ControlTypeOK /\ WalkTypeOK /\ EndsPlain /\ CopiesPlain

----------------------------------------------------------------------------
(* The graph only grows *)

\* What a step that adds nodes leaves as it was.
Grown ==
  /\ Ids \subseteq Ids'
  /\ Plain \subseteq Plain'
  /\ Len(nodes) \in Nat /\ Ids = 1 .. Len(nodes) /\ NextId \in Nat /\ NextId \notin Ids

\* A node that is no start node is added, with edges to it, and edges from one node
\* to others that come after it.
LEMMA Growth ==
  ASSUME GraphInv, stages \in Nat,
         NEW node \in InternalNodes, node.kind # "start", NEW from \in SUBSET Ids,
         NEW n, NEW to \in SUBSET Plain, \A m \in to : n \in Ids /\ n < m,
         nodes' = Append(nodes, node), stageOf' = Append(stageOf, stages + 1),
         edges' = edges \cup ({n} \X to) \cup (from \X {NextId})
  PROVE  GraphInv' /\ Grown /\ NextId \in Plain' /\ Ids' = Ids \cup {NextId}
  <1>1. /\ nodes \in Seq(InternalNodes) /\ Len(nodes) \in Nat /\ Ids = 1 .. Len(nodes)
        /\ stageOf \in Seq(Nat) /\ Len(stageOf) = Len(nodes)
    BY DEF GraphInv, GraphTypeOK, Ids
  <1>2. /\ nodes' \in Seq(InternalNodes) /\ Ids' = 1 .. Len(nodes) + 1
        /\ \A k \in Ids : nodes'[k] = nodes[k]
        /\ nodes'[NextId] = node /\ Len(nodes') = Len(nodes) + 1
    BY <1>1 DEF NextId, Ids
  <1>3. stageOf' \in Seq(Nat) /\ Len(stageOf') = Len(nodes')
    BY <1>1, <1>2
  <1>4. Ids' = Ids \cup {NextId} /\ NextId \in Nat /\ NextId \notin Ids
    BY <1>1, <1>2 DEF NextId
  <1>5. Plain' = Plain \cup {NextId}
    BY <1>2, <1>4 DEF Plain
  <1>6. edges \subseteq Ids \X Ids /\ to \subseteq Ids
    BY DEF GraphInv, GraphTypeOK, Plain
  <1>7. GraphTypeOK'
    <2>1. edges' \subseteq Ids' \X Ids'
      BY <1>4, <1>6
    <2> QED
      BY <2>1, <1>2, <1>3 DEF GraphTypeOK
  <1>8. ASSUME NEW e \in edges'
        PROVE  /\ e[1] < e[2] \/ nodes'[e[1]].kind = "start"
               /\ nodes'[e[2]].kind # "start"
    <2>1. CASE e \in edges
      BY <2>1, <1>2, <1>6 DEF GraphInv, GraphOrdered
    <2>2. CASE e \in from \X {NextId}
      <3>1. e[1] \in 1 .. Len(nodes) /\ e[2] = NextId
        BY <2>2, <1>1
      <3> QED
        BY <3>1, <1>1, <1>2 DEF NextId
    <2>3. CASE e \in {n} \X to
      BY <2>3, <1>2 DEF Plain
    <2> QED
      BY <2>1, <2>2, <2>3
  <1>9. GraphOrdered'
    BY <1>8 DEF GraphOrdered
  <1> QED
    BY <1>1, <1>4, <1>5, <1>7, <1>9 DEF GraphInv, Grown

\* AddNode, of a node that is no start node.
LEMMA AddNodeGrows ==
  ASSUME GraphInv, stages \in Nat,
         NEW node \in InternalNodes, node.kind # "start", NEW from \in SUBSET Ids, AddNode(node, from)
  PROVE  GraphInv' /\ Grown /\ NextId \in Plain' /\ Ids' = Ids \cup {NextId}
  <1> DEFINE to == {}
  <1>1. /\ nodes' = Append(nodes, node) /\ stageOf' = Append(stageOf, stages + 1)
        /\ edges' = edges \cup ({0} \X to) \cup (from \X {NextId})
    BY DEF AddNode
  <1>2. to \in SUBSET Plain /\ \A m \in to : 0 \in Ids /\ 0 < m
    OBVIOUS
  <1> HIDE DEF to
  <1> QED
    BY <1>1, <1>2, Growth

\* Edges from a node to others that come after it.
LEMMA AddEdgesKeeps ==
  ASSUME GraphInv, NEW n \in Ids, NEW to \in SUBSET Plain, \A m \in to : n < m,
         edges' = edges \cup ({n} \X to), UNCHANGED <<nodes, stageOf>>
  PROVE  GraphInv' /\ Ids' = Ids /\ Plain' = Plain
  <1>1. Ids' = Ids /\ Plain' = Plain
    BY DEF Ids, Plain
  <1>2. GraphTypeOK'
    BY <1>1 DEF GraphInv, GraphTypeOK, Plain
  <1>3. ASSUME NEW e \in edges'
        PROVE  /\ e[1] < e[2] \/ nodes'[e[1]].kind = "start"
               /\ nodes'[e[2]].kind # "start"
    <2>1. CASE e \in edges
      BY <2>1 DEF GraphInv, GraphOrdered
    <2>2. CASE e \in {n} \X to
      BY <2>2 DEF Plain
    <2> QED
      BY <2>1, <2>2
  <1> QED
    BY <1>1, <1>2, <1>3 DEF GraphInv, GraphOrdered

\* The ids kept stay ids of plain nodes while the graph grows.
LEMMA KeptIds ==
  ASSUME Ids \subseteq Ids', Plain \subseteq Plain', BuilderTypeOK, EndsPlain,
         UNCHANGED <<stages, firstAdded, lastAdded, built>>,
         nodeNames' \subseteq Labels, registry' \subseteq Labels,
         newNodes' \subseteq newNodes \cup Plain'
  PROVE  BuilderTypeOK' /\ EndsPlain'
  <1>1. EndsPlain'
    BY DEF EndsPlain
  <1>2. Plain' \subseteq Ids'
    BY DEF Plain
  <1>3. built \in [firstNodes : SUBSET Ids', lastNodes : SUBSET Ids']
    BY DEF BuilderTypeOK
  <1> QED
    BY <1>1, <1>2, <1>3 DEF BuilderTypeOK, EndsPlain

\* So do the ids of SagaDags.
LEMMA KeptSagaDags ==
  ASSUME Ids \subseteq Ids', sagaDags \in Seq([startNode : Ids, endNode : Ids])
  PROVE  sagaDags \in Seq([startNode : Ids', endNode : Ids'])
  <1>1. [startNode : Ids, endNode : Ids] \subseteq [startNode : Ids', endNode : Ids']
    OBVIOUS
  <1> QED
    BY <1>1, SeqMonotonic

\* A step that leaves the graph alone.
LEMMA SameGraph ==
  ASSUME GraphInv, UNCHANGED <<nodes, edges, stageOf>>
  PROVE  GraphInv' /\ Ids' = Ids /\ Plain' = Plain
  <1>1. Ids' = Ids /\ Plain' = Plain
    BY DEF Ids, Plain
  <1> QED
    BY <1>1 DEF GraphInv, GraphTypeOK, GraphOrdered

----------------------------------------------------------------------------
(* Initial states *)

LEMMA InitIInv == Init => IInv
  <1> SUFFICES ASSUME Init PROVE IInv
    OBVIOUS
  <1>1. GraphInv
    BY DEF Init, GraphInv, GraphTypeOK, GraphOrdered
  <1>2. BuilderTypeOK
    BY LabelsAssumption DEF Init, BuilderTypeOK, NoDag
  <1>3. ControlTypeOK
    <2>1. todo = <<>> /\ sagaDags = <<>> /\ calls = 0 /\ broken = FALSE /\ pc = "idle" /\ result = "none"
      BY DEF Init
    <2>2. todo \in Seq(UserNodes) /\ sagaDags \in Seq([startNode : Ids, endNode : Ids]) /\ Len(sagaDags) = 0
      BY <2>1, EmptySeq
    <2>3. calls \in 0 .. MaxCalls /\ Len(sagaDags) <= MaxSagaDags
      BY <2>1, <2>2, BuilderBoundsAssumption
    <2> QED
      BY <2>1, <2>2, <2>3 DEF ControlTypeOK
  <1>4. WalkTypeOK /\ CopiesPlain
    BY DEF Init, WalkTypeOK, CopiesPlain
  <1>5. EndsPlain
    BY DEF Init, EndsPlain, NoDag
  <1> QED
    BY <1>1, <1>2, <1>3, <1>4, <1>5 DEF IInv

----------------------------------------------------------------------------
(* Steps that leave the graph alone *)

LEMMA CallAppendIInv == ASSUME IInv, NEW stage \in Stages, CallAppend(stage) PROVE IInv'
  <1>1. UNCHANGED <<nodes, edges, stageOf>>
    BY DEF CallAppend, graphVars
  <1>2. GraphInv' /\ Ids' = Ids /\ Plain' = Plain
    BY <1>1, SameGraph DEF IInv
  <1>3. BuilderTypeOK' /\ EndsPlain'
    BY <1>2 DEF IInv, CallAppend, builderVars, BuilderTypeOK, EndsPlain
  <1>4. stage \in Seq(UserNodes)
    BY StagesAssumption
  <1>5. ControlTypeOK'
    BY <1>2, <1>4, BuilderBoundsAssumption DEF IInv, CallAppend, ControlTypeOK
  <1>6. pc' # "walk"
    BY DEF CallAppend
  <1> QED
    BY <1>2, <1>3, <1>5, <1>6 DEF IInv, WalkTypeOK, CopiesPlain

LEMMA NameTakenIInv == ASSUME IInv, NameTaken PROVE IInv'
  <1>1. UNCHANGED <<nodes, edges, stageOf>>
    BY DEF NameTaken, graphVars
  <1>2. GraphInv' /\ Ids' = Ids /\ Plain' = Plain
    BY <1>1, SameGraph DEF IInv
  <1>3. BuilderTypeOK' /\ EndsPlain'
    BY <1>2 DEF IInv, NameTaken, Fail, builderVars, BuilderTypeOK, EndsPlain
  <1>5. ControlTypeOK'
    BY <1>2 DEF IInv, NameTaken, Fail, ControlTypeOK
  <1>6. pc' # "walk"
    BY DEF NameTaken, Fail
  <1> QED
    BY <1>2, <1>3, <1>5, <1>6 DEF IInv, WalkTypeOK, CopiesPlain

LEMMA StageAddedIInv == ASSUME IInv, StageAdded PROVE IInv'
  <1>1. UNCHANGED <<nodes, edges, stageOf>>
    BY DEF StageAdded, graphVars
  <1>2. GraphInv' /\ Ids' = Ids /\ Plain' = Plain
    BY <1>1, SameGraph DEF IInv
  <1>3. BuilderTypeOK' /\ EndsPlain'
    BY <1>2 DEF IInv, StageAdded, stageVars, BuilderTypeOK, EndsPlain
  <1>5. ControlTypeOK'
    BY <1>2 DEF IInv, StageAdded, stageVars, ControlTypeOK
  <1>6. pc' # "walk"
    BY DEF StageAdded
  <1> QED
    BY <1>2, <1>3, <1>5, <1>6 DEF IInv, WalkTypeOK, CopiesPlain

\* What a user node brings: its name, and more depending on its kind.
LEMMA UserNodeFields ==
  ASSUME ControlTypeOK, todo # <<>>
  PROVE  /\ UserNode \in UserNodes /\ Tail(todo) \in Seq(UserNodes)
         /\ UserNode.name \in Labels
         /\ UserNode.kind = "action" => UserNode.action \in Labels
         /\ UserNode.kind = "subsaga" => UserNode.params \in Labels /\ UserNode.dag \in Subdags
  <1>1. UserNode \in UserNodes /\ Tail(todo) \in Seq(UserNodes)
    BY DEF ControlTypeOK, UserNode
  <1> QED
    BY <1>1 DEF UserNodes

LEMMA RejectSubsagaIInv == ASSUME IInv, RejectSubsaga PROVE IInv'
  <1>1. UNCHANGED <<nodes, edges, stageOf>>
    BY DEF RejectSubsaga, graphVars
  <1>2. GraphInv' /\ Ids' = Ids /\ Plain' = Plain
    BY <1>1, SameGraph DEF IInv
  <1>3. UserNode.name \in Labels
    BY UserNodeFields DEF IInv, RejectSubsaga, Adding
  <1>4. BuilderTypeOK' /\ EndsPlain'
    BY <1>2, <1>3 DEF IInv, RejectSubsaga, Fail, NamesNow, BuilderTypeOK, EndsPlain
  <1>5. ControlTypeOK'
    BY <1>2 DEF IInv, RejectSubsaga, Fail, ControlTypeOK
  <1>6. pc' # "walk"
    BY DEF RejectSubsaga, Fail
  <1> QED
    BY <1>2, <1>4, <1>5, <1>6 DEF IInv, WalkTypeOK, CopiesPlain

LEMMA BuildIInv == ASSUME IInv, Build PROVE IInv'
  <1>1. UNCHANGED <<nodes, edges, stageOf>>
    BY DEF Build, graphVars
  <1>2. GraphInv' /\ Ids' = Ids /\ Plain' = Plain
    BY <1>1, SameGraph DEF IInv
  <1>3. built' = NoDag \/ built' = [firstNodes |-> firstAdded, lastNodes |-> lastAdded]
    BY DEF Build
  <1>4. BuilderTypeOK' /\ EndsPlain'
    BY <1>2, <1>3 DEF IInv, Build, builderVars, stageVars, NoDag, BuilderTypeOK, EndsPlain
  <1>5. ControlTypeOK'
    BY <1>2 DEF IInv, Build, stageVars, ControlTypeOK
  <1>6. pc' # "walk"
    BY DEF Build
  <1> QED
    BY <1>2, <1>4, <1>5, <1>6 DEF IInv, WalkTypeOK, CopiesPlain

LEMMA WalkDequeueIInv == ASSUME IInv, WalkDequeue \/ UNCHANGED vars PROVE IInv'
  <1>1. /\ UNCHANGED <<nodes, edges, stageOf, nodeNames, firstAdded, lastAdded, registry, stages>>
        /\ UNCHANGED <<pc, todo, newNodes, start, copy, result, built, sagaDags, calls, broken>>
    BY DEF WalkDequeue, vars, graphVars, builderVars, stageVars, walkVars, resultVars
  <1>2. GraphInv' /\ Ids' = Ids /\ Plain' = Plain
    BY <1>1, SameGraph DEF IInv
  <1>3. BuilderTypeOK' /\ EndsPlain' /\ ControlTypeOK' /\ CopiesPlain'
    BY <1>1, <1>2 DEF IInv, BuilderTypeOK, EndsPlain, ControlTypeOK, CopiesPlain
  <1>4. UserNode' = UserNode /\ Subids' = Subids /\ (ValidSubgraph' <=> ValidSubgraph)
    BY <1>1 DEF UserNode, Subids, Subdag, ValidSubgraph
  <1>5. pc = "walk" /\ queue \in Seq(Subids) => queue' \in Seq(Subids)
    BY DEF WalkDequeue, vars, walkVars
  <1>6. WalkTypeOK'
    BY <1>1, <1>2, <1>4, <1>5 DEF IInv, WalkTypeOK
  <1> QED
    BY <1>2, <1>3, <1>6 DEF IInv

----------------------------------------------------------------------------
(* Steps that add a user node *)

\* What an action node and a constant have in common.
LEMMA StageNodeIInv ==
  ASSUME IInv, pc = "stage", todo # <<>>,
         NEW node \in InternalNodes, node.kind # "start", AddNode(node, lastAdded),
         nodeNames' \subseteq Labels, registry' \subseteq Labels,
         newNodes' = newNodes \cup {NextId}, todo' = Tail(todo),
         UNCHANGED <<firstAdded, lastAdded, stages, pc, built, sagaDags, result, calls, broken>>
  PROVE  IInv'
  <1>1. lastAdded \in SUBSET Ids /\ stages \in Nat
    BY DEF IInv, BuilderTypeOK
  <1>2. GraphInv' /\ Grown /\ NextId \in Plain'
    BY <1>1, AddNodeGrows DEF IInv
  <1>3. BuilderTypeOK' /\ EndsPlain'
    <2>1. newNodes' \subseteq newNodes \cup Plain'
      BY <1>2
    <2> QED
      BY <2>1, <1>2, KeptIds DEF IInv, Grown
  <1>4. sagaDags' \in Seq([startNode : Ids', endNode : Ids'])
    BY <1>2, KeptSagaDags DEF IInv, Grown, ControlTypeOK
  <1>5. todo' \in Seq(UserNodes)
    BY UserNodeFields DEF IInv
  <1>6. ControlTypeOK'
    BY <1>4, <1>5 DEF IInv, ControlTypeOK
  <1> QED
    BY <1>2, <1>3, <1>6 DEF IInv, WalkTypeOK, CopiesPlain

LEMMA AddActionIInv == ASSUME IInv, AddAction PROVE IInv'
  <1> DEFINE node == Internal("action", UserNode.name, UserNode.action)
  <1>1. pc = "stage" /\ todo # <<>> /\ UserNode.kind = "action"
    BY DEF AddAction, Adding
  <1>2. UserNode.name \in Labels /\ UserNode.action \in Labels
    BY <1>1, UserNodeFields DEF IInv
  <1>3. node \in InternalNodes /\ node.kind # "start"
    BY <1>2 DEF Internal, InternalNodes, Kinds
  <1>4. nodeNames' \subseteq Labels /\ registry' \subseteq Labels
    BY <1>2 DEF AddAction, IInv, BuilderTypeOK
  <1>5. /\ AddNode(node, lastAdded) /\ newNodes' = newNodes \cup {NextId} /\ todo' = Tail(todo)
        /\ UNCHANGED <<firstAdded, lastAdded, stages, pc, built, sagaDags, result, calls, broken>>
    BY DEF AddAction, resultVars
  <1> HIDE DEF node
  <1> QED
    BY <1>1, <1>3, <1>4, <1>5, StageNodeIInv

LEMMA AddConstantIInv == ASSUME IInv, AddConstant PROVE IInv'
  <1> DEFINE node == Internal("constant", UserNode.name, NoName)
  <1>1. pc = "stage" /\ todo # <<>>
    BY DEF AddConstant, Adding
  <1>2. UserNode.name \in Labels
    BY <1>1, UserNodeFields DEF IInv
  <1>3. node \in InternalNodes /\ node.kind # "start"
    BY <1>2, LabelsAssumption DEF Internal, InternalNodes, Kinds
  <1>4. nodeNames' \subseteq Labels /\ registry' \subseteq Labels
    BY <1>2 DEF AddConstant, IInv, BuilderTypeOK
  <1>5. /\ AddNode(node, lastAdded) /\ newNodes' = newNodes \cup {NextId} /\ todo' = Tail(todo)
        /\ UNCHANGED <<firstAdded, lastAdded, stages, pc, built, sagaDags, result, calls, broken>>
    BY DEF AddConstant, resultVars
  <1> HIDE DEF node
  <1> QED
    BY <1>1, <1>3, <1>4, <1>5, StageNodeIInv

----------------------------------------------------------------------------
(* Subsagas *)

LEMMA StartSubsagaIInv == ASSUME IInv, StartSubsaga PROVE IInv'
  <1> DEFINE node == Internal("subsagaStart", NoName, UserNode.params)
  <1>1. todo # <<>> /\ UserNode.kind = "subsaga" /\ ValidSubgraph /\ pc' = "walk"
    BY DEF StartSubsaga, Adding
  <1>2. UserNode.name \in Labels /\ UserNode.params \in Labels
    BY <1>1, UserNodeFields DEF IInv
  <1>3. node \in InternalNodes /\ node.kind # "start"
    BY <1>2, LabelsAssumption DEF Internal, InternalNodes, Kinds
  <1>4. lastAdded \in SUBSET Ids /\ stages \in Nat
    BY DEF IInv, BuilderTypeOK
  <1>5. AddNode(node, lastAdded)
    BY DEF StartSubsaga
  <1>6. GraphInv' /\ Grown /\ NextId \in Plain'
    <2> HIDE DEF node
    <2> QED
      BY <1>3, <1>4, <1>5, AddNodeGrows DEF IInv
  <1>7. /\ UNCHANGED <<firstAdded, lastAdded, registry, stages, todo, newNodes>>
        /\ UNCHANGED <<built, sagaDags, result, calls, broken>>
        /\ start' = NextId /\ copy' = <<>> /\ queue' = <<>>
        /\ nodeNames' \subseteq Labels
    BY <1>2 DEF StartSubsaga, stageVars, resultVars, NamesNow, IInv, BuilderTypeOK
  <1>8. BuilderTypeOK' /\ EndsPlain'
    <2>1. newNodes' \subseteq newNodes \cup Plain' /\ registry' \subseteq Labels
      BY <1>7 DEF IInv, BuilderTypeOK
    <2> QED
      BY <2>1, <1>6, <1>7, KeptIds DEF IInv, Grown
  <1>9. sagaDags' \in Seq([startNode : Ids', endNode : Ids'])
    BY <1>6, <1>7, KeptSagaDags DEF IInv, Grown, ControlTypeOK
  <1>10. ControlTypeOK'
    BY <1>1, <1>7, <1>9 DEF IInv, ControlTypeOK
  <1>11. UserNode' = UserNode /\ Subids' = Subids /\ (ValidSubgraph' <=> ValidSubgraph)
    BY <1>7 DEF UserNode, Subids, Subdag, ValidSubgraph
  <1>12. WalkTypeOK' /\ CopiesPlain'
    <2>1. DOMAIN copy' = {} /\ queue' \in Seq(Subids') /\ start' \in Ids'
      BY <1>6, <1>7, EmptySeq DEF Plain
    <2> QED
      BY <2>1, <1>1, <1>7, <1>11 DEF WalkTypeOK, CopiesPlain
  <1> QED
    BY <1>6, <1>8, <1>10, <1>12 DEF IInv

\* The nodes of a subsaga that passed validateSubgraph are no start nodes.
LEMMA SubgraphNodes ==
  ASSUME IInv, pc = "walk"
  PROVE  /\ \A m \in Subids : Subdag.nodes[m] \in InternalNodes /\ Subdag.nodes[m].kind # "start"
         /\ 1 \in Subids /\ todo # <<>> /\ UserNode.name \in Labels /\ Subdag \in Subdags
  <1>1. todo # <<>> /\ UserNode.kind = "subsaga" /\ ValidSubgraph
    BY DEF IInv, WalkTypeOK
  <1>2. Subdag \in Subdags /\ UserNode.name \in Labels
    BY <1>1, UserNodeFields DEF IInv, Subdag
  <1>3. Subdag.nodes \in Seq(InternalNodes) /\ Subdag.nodes # <<>>
    BY <1>2 DEF Subdags
  <1>4. \A m \in Subids : Subdag.nodes[m] \in InternalNodes
    BY <1>3 DEF Subids
  <1>5. 1 \in Subids
    BY <1>3 DEF Subids
  <1> QED
    BY <1>1, <1>2, <1>4, <1>5 DEF ValidSubgraph

\* What a visit does to the graph and the copies, whether or not it panics.
LEMMA VisitGrows ==
  ASSUME IInv, pc = "walk", NEW m \in Subids, NEW known \in SUBSET (DOMAIN copy),
         AddNode(Subdag.nodes[m], {copy[k] : k \in known}), Copied(m),
         pc' \in {"walk", "panicked"}
  PROVE  /\ GraphInv' /\ Grown /\ BuilderTypeOK' /\ EndsPlain' /\ ControlTypeOK'
         /\ DOMAIN copy' = DOMAIN copy \cup {m}
         /\ \A k \in DOMAIN copy' : copy'[k] \in Plain' /\ start' < copy'[k]
         /\ start \in Ids' /\ UNCHANGED <<start, todo>>
  <1> DEFINE from == {copy[k] : k \in known}
  <1>1. Subdag.nodes[m] \in InternalNodes /\ Subdag.nodes[m].kind # "start"
    BY SubgraphNodes
  <1>2. from \in SUBSET Ids /\ stages \in Nat /\ start \in Ids
    BY DEF IInv, WalkTypeOK, BuilderTypeOK
  <1>3. AddNode(Subdag.nodes[m], from)
    OBVIOUS
  <1>4. GraphInv' /\ Grown /\ NextId \in Plain' /\ Ids' = Ids \cup {NextId}
    <2> HIDE DEF from
    <2> QED
      BY <1>1, <1>2, <1>3, AddNodeGrows DEF IInv
  <1>5. /\ UNCHANGED <<nodeNames, firstAdded, lastAdded, registry, stages, todo, newNodes>>
        /\ UNCHANGED <<start, result, built, sagaDags, calls, broken>>
        /\ DOMAIN copy' = DOMAIN copy \cup {m}
        /\ \A k \in DOMAIN copy' : copy'[k] = IF k = m THEN NextId ELSE copy[k]
    BY DEF Copied, builderVars, stageVars, resultVars
  <1>6. BuilderTypeOK' /\ EndsPlain'
    <2>1. nodeNames' \subseteq Labels /\ registry' \subseteq Labels /\ newNodes' \subseteq newNodes \cup Plain'
      BY <1>5 DEF IInv, BuilderTypeOK
    <2> QED
      BY <2>1, <1>4, <1>5, KeptIds DEF IInv, Grown
  <1>7. ControlTypeOK'
    <2>1. sagaDags' \in Seq([startNode : Ids', endNode : Ids'])
      BY <1>4, <1>5, KeptSagaDags DEF IInv, Grown, ControlTypeOK
    <2> QED
      BY <2>1, <1>5 DEF IInv, ControlTypeOK
  <1>8. start < NextId
    BY <1>2, <1>4 DEF Grown, NextId
  <1>9. ASSUME NEW k \in DOMAIN copy' PROVE copy'[k] \in Plain' /\ start' < copy'[k]
    <2>1. CASE k = m
      BY <2>1, <1>4, <1>5, <1>8
    <2>2. CASE k # m
      <3>1. k \in DOMAIN copy /\ copy'[k] = copy[k]
        BY <2>2, <1>5
      <3>2. copy[k] \in Plain /\ start < copy[k]
        BY <3>1 DEF IInv, CopiesPlain
      <3> QED
        BY <3>1, <3>2, <1>4, <1>5 DEF Grown
    <2> QED
      BY <2>1, <2>2
  <1> QED
    BY <1>2, <1>4, <1>5, <1>6, <1>7, <1>9

LEMMA VisitIInv ==
  ASSUME IInv, pc = "walk", NEW m \in Subids, Visit(m) \/ VisitPanics(m)
  PROVE  IInv'
  <1>1. CASE Visit(m)
    <2>1. /\ Predecessors(m) \subseteq DOMAIN copy /\ Copied(m)
          /\ AddNode(Subdag.nodes[m], {copy[k] : k \in Predecessors(m)})
          /\ queue' = Append(queue, m) /\ pc' = "walk"
      BY <1>1 DEF Visit
    <2>2. /\ GraphInv' /\ Grown /\ BuilderTypeOK' /\ EndsPlain' /\ ControlTypeOK'
          /\ DOMAIN copy' = DOMAIN copy \cup {m}
          /\ \A k \in DOMAIN copy' : copy'[k] \in Plain' /\ start' < copy'[k]
          /\ start \in Ids' /\ UNCHANGED <<start, todo>>
      BY <2>1, VisitGrows
    <2>3. UserNode' = UserNode /\ Subids' = Subids /\ (ValidSubgraph' <=> ValidSubgraph)
      BY <2>2 DEF UserNode, Subids, Subdag, ValidSubgraph
    <2>4. /\ todo # <<>> /\ UserNode.kind = "subsaga" /\ ValidSubgraph
          /\ queue' \in Seq(Subids) /\ DOMAIN copy' \subseteq Subids
      BY <2>1, <2>2 DEF IInv, WalkTypeOK
    <2>5. \A k \in DOMAIN copy' : copy'[k] \in Ids'
      BY <2>2 DEF Plain
    <2>6. WalkTypeOK' /\ CopiesPlain'
      BY <2>2, <2>3, <2>4, <2>5 DEF WalkTypeOK, CopiesPlain
    <2> QED
      BY <2>2, <2>6 DEF IInv
  <1>2. CASE VisitPanics(m)
    <2>1. PICK known \in SUBSET (Predecessors(m) \cap DOMAIN copy) :
            AddNode(Subdag.nodes[m], {copy[k] : k \in known})
      BY <1>2 DEF VisitPanics
    <2>2. Copied(m) /\ pc' = "panicked" /\ known \in SUBSET (DOMAIN copy)
      BY <1>2, <2>1 DEF VisitPanics
    <2>3. GraphInv' /\ BuilderTypeOK' /\ EndsPlain' /\ ControlTypeOK'
      BY <2>1, <2>2, VisitGrows
    <2> QED
      BY <2>2, <2>3 DEF IInv, WalkTypeOK, CopiesPlain
  <1> QED
    BY <1>1, <1>2

LEMMA WalkIInv == ASSUME IInv, WalkFirst \/ WalkNext PROVE IInv'
  <1>1. pc = "walk"
    BY DEF WalkFirst, WalkNext
  <1>2. \E m \in Subids : Visit(m) \/ VisitPanics(m)
    <2>1. CASE WalkFirst
      BY <2>1, <1>1, SubgraphNodes DEF WalkFirst
    <2>2. CASE WalkNext
      BY <2>2 DEF WalkNext, Successors
    <2> QED
      BY <2>1, <2>2
  <1> QED
    BY <1>1, <1>2, VisitIInv

\* The edges to the roots of the subsaga, and the end node.
LEMMA AddEndGrows ==
  ASSUME IInv, pc = "walk", SubRoots \subseteq DOMAIN copy, NEW from \in SUBSET Ids, AddEnd(from)
  PROVE  GraphInv' /\ Grown /\ NextId \in Plain'
  <1> DEFINE node == Internal("subsagaEnd", UserNode.name, NoName)
             to == {copy[m] : m \in SubRoots}
  <1>1. node \in InternalNodes /\ node.kind # "start"
    BY SubgraphNodes, LabelsAssumption DEF Internal, InternalNodes, Kinds
  <1>2. to \in SUBSET Plain /\ \A m \in to : start \in Ids /\ start < m
    BY DEF IInv, CopiesPlain, WalkTypeOK
  <1>3. /\ nodes' = Append(nodes, node) /\ stageOf' = Append(stageOf, stages + 1)
        /\ edges' = edges \cup ({start} \X to) \cup (from \X {NextId})
    BY DEF AddEnd
  <1>4. GraphInv /\ stages \in Nat
    BY DEF IInv, BuilderTypeOK
  <1> HIDE DEF node, to
  <1> QED
    BY <1>1, <1>2, <1>3, <1>4, Growth

LEMMA SubsagaAddedIInv == ASSUME IInv, SubsagaAdded PROVE IInv'
  <1> DEFINE from == lastAdded \cup {copy[m] : m \in SubLeaves}
  <1>1. /\ pc = "walk" /\ pc' = "stage" /\ SubRoots \cup SubLeaves \subseteq DOMAIN copy
        /\ AddEnd(from) /\ newNodes' = newNodes \cup {NextId} /\ todo' = Tail(todo)
    BY DEF SubsagaAdded, SubsagaLoops
  <1>2. from \in SUBSET Ids
    BY <1>1 DEF IInv, WalkTypeOK, BuilderTypeOK
  <1>3. GraphInv' /\ Grown /\ NextId \in Plain'
    <2> HIDE DEF from
    <2> QED
      BY <1>1, <1>2, AddEndGrows
  <1>4. /\ UNCHANGED <<nodeNames, firstAdded, lastAdded, registry, stages>>
        /\ UNCHANGED <<result, built, sagaDags, calls, broken>>
    BY DEF SubsagaAdded, builderVars, resultVars
  <1>5. BuilderTypeOK' /\ EndsPlain'
    <2>1. nodeNames' \subseteq Labels /\ registry' \subseteq Labels /\ newNodes' \subseteq newNodes \cup Plain'
      BY <1>1, <1>3, <1>4 DEF IInv, BuilderTypeOK
    <2> QED
      BY <2>1, <1>3, <1>4, KeptIds DEF IInv, Grown
  <1>6. ControlTypeOK'
    <2>1. sagaDags' \in Seq([startNode : Ids', endNode : Ids'])
      BY <1>3, <1>4, KeptSagaDags DEF IInv, Grown, ControlTypeOK
    <2>2. todo' \in Seq(UserNodes)
      BY <1>1, SubgraphNodes, UserNodeFields DEF IInv
    <2> QED
      BY <2>1, <2>2, <1>1, <1>4 DEF IInv, ControlTypeOK
  <1> QED
    BY <1>1, <1>3, <1>5, <1>6 DEF IInv, WalkTypeOK, CopiesPlain

LEMMA SubsagaPanicsIInv == ASSUME IInv, SubsagaPanics PROVE IInv'
  <1>1. /\ pc = "walk" /\ pc' = "panicked"
        /\ UNCHANGED <<nodeNames, firstAdded, lastAdded, registry, stages, todo, newNodes>>
        /\ UNCHANGED <<result, built, sagaDags, calls, broken>>
    BY DEF SubsagaPanics, SubsagaLoops, builderVars, stageVars, resultVars
  <1>2. GraphInv' /\ Ids \subseteq Ids' /\ Plain \subseteq Plain'
    <2>1. CASE SubRoots \subseteq DOMAIN copy /\ AddEnd(lastAdded)
      <3>1. lastAdded \in SUBSET Ids
        BY DEF IInv, BuilderTypeOK
      <3> QED
        BY <2>1, <3>1, <1>1, AddEndGrows DEF Grown
    <2>2. ASSUME NEW m \in SubRoots, 1 .. m - 1 \subseteq DOMAIN copy,
                 edges' = edges \cup ({start} \X {copy[k] : k \in 1 .. m - 1}),
                 UNCHANGED <<nodes, stageOf>>
          PROVE  GraphInv' /\ Ids \subseteq Ids' /\ Plain \subseteq Plain'
      <3> DEFINE to == {copy[k] : k \in 1 .. m - 1}
      <3>1. to \in SUBSET Plain /\ (\A k \in to : start < k) /\ start \in Ids
        BY <1>1, <2>2 DEF IInv, CopiesPlain, WalkTypeOK
      <3>2. edges' = edges \cup ({start} \X to)
        BY <2>2
      <3> HIDE DEF to
      <3> QED
        BY <3>1, <3>2, <2>2, AddEdgesKeeps DEF IInv
    <2> QED
      BY <2>1, <2>2 DEF SubsagaPanics
  <1>3. BuilderTypeOK' /\ EndsPlain'
    <2>1. nodeNames' \subseteq Labels /\ registry' \subseteq Labels /\ newNodes' \subseteq newNodes \cup Plain'
      BY <1>1 DEF IInv, BuilderTypeOK
    <2> QED
      BY <2>1, <1>1, <1>2, KeptIds DEF IInv
  <1>4. ControlTypeOK'
    <2>1. sagaDags' \in Seq([startNode : Ids', endNode : Ids'])
      BY <1>1, <1>2, KeptSagaDags DEF IInv, ControlTypeOK
    <2> QED
      BY <2>1, <1>1 DEF IInv, ControlTypeOK
  <1> QED
    BY <1>1, <1>2, <1>3, <1>4 DEF IInv, WalkTypeOK, CopiesPlain

----------------------------------------------------------------------------
(* NewSagaDag *)

LEMMA NewSagaDagIInv == ASSUME IInv, NewSagaDag PROVE IInv'
  <1> DEFINE first == Internal("start", NoName, NoName)
             last == Internal("end", NoName, NoName)
             added == <<first, last>>
             N == Len(nodes)
  <1>1. /\ nodes' = nodes \o added /\ stageOf' = stageOf \o <<0, 0>>
        /\ edges' = edges \cup ({NextId} \X built.firstNodes) \cup (built.lastNodes \X {NextId + 1})
        /\ sagaDags' = Append(sagaDags, [startNode |-> NextId, endNode |-> NextId + 1])
        /\ Len(sagaDags) < MaxSagaDags /\ pc = "idle" /\ pc' = "idle"
        /\ UNCHANGED <<nodeNames, firstAdded, lastAdded, registry, stages, todo, newNodes>>
        /\ UNCHANGED <<result, built, calls, broken>>
    BY DEF NewSagaDag, builderVars, stageVars
  <1>2. /\ nodes \in Seq(InternalNodes) /\ N \in Nat /\ Ids = 1 .. N
        /\ stageOf \in Seq(Nat) /\ Len(stageOf) = N
        /\ edges \subseteq Ids \X Ids
        /\ built.firstNodes \subseteq Plain /\ built.lastNodes \subseteq Plain
    BY DEF IInv, GraphInv, GraphTypeOK, EndsPlain, Ids
  <1>3. /\ first \in InternalNodes /\ first.kind = "start"
        /\ last \in InternalNodes /\ last.kind = "end"
    BY LabelsAssumption DEF Internal, InternalNodes, Kinds
  <1> HIDE DEF first, last
  <1>4. added \in Seq(InternalNodes) /\ Len(added) = 2 /\ added[1] = first /\ added[2] = last
    BY <1>3
  <1>5. /\ nodes' \in Seq(InternalNodes) /\ Len(nodes') = N + 2
        /\ \A k \in 1 .. N : nodes'[k] = nodes[k]
        /\ nodes'[N + 1] = first /\ nodes'[N + 2] = last
    <2> HIDE DEF added
    <2>1. nodes' = nodes \o added /\ Len(nodes) = N /\ Len(added) = 2
      BY <1>1, <1>4
    <2>2. nodes \in Seq(InternalNodes) /\ added \in Seq(InternalNodes)
      BY <1>2, <1>4
    <2>3. /\ nodes \o added \in Seq(InternalNodes)
          /\ Len(nodes \o added) = Len(nodes) + Len(added)
          /\ \A k \in 1 .. Len(nodes) + Len(added) :
               (nodes \o added)[k] = IF k <= Len(nodes) THEN nodes[k] ELSE added[k - Len(nodes)]
      BY <2>2, ConcatProperties, Zenon
    <2>4. /\ nodes' \in Seq(InternalNodes) /\ Len(nodes') = N + 2
          /\ \A k \in 1 .. N + 2 : nodes'[k] = IF k <= N THEN nodes[k] ELSE added[k - N]
      BY <2>1, <2>3, Zenon
    <2>7. \A k \in 1 .. N : k \in 1 .. N + 2 /\ k <= N
      BY <1>2
    <2>5. /\ N + 1 \in 1 .. N + 2 /\ ~(N + 1 <= N) /\ N + 1 - N = 1
          /\ N + 2 \in 1 .. N + 2 /\ ~(N + 2 <= N) /\ N + 2 - N = 2
      BY <1>2
    <2>6. nodes'[N + 1] = added[N + 1 - N] /\ nodes'[N + 2] = added[N + 2 - N]
      BY <2>4, <2>5
    <2> QED
      BY <2>4, <2>7, <2>5, <2>6, <1>4
  <1>6. /\ Ids' = Ids \cup {N + 1, N + 2} /\ NextId = N + 1
        /\ Plain' = Plain \cup {N + 2}
    <2>1. Ids' = 1 .. N + 2
      BY <1>5 DEF Ids
    <2>2. Ids' = Ids \cup {N + 1, N + 2} /\ NextId = N + 1
      BY <2>1, <1>2 DEF NextId
    <2> QED
      BY <2>2, <1>2, <1>3, <1>5 DEF Plain
  <1>7. GraphTypeOK'
    <2>1. edges' \subseteq Ids' \X Ids'
      BY <1>1, <1>2, <1>6 DEF Plain
    <2>2. <<0, 0>> \in Seq(Nat) /\ Len(<<0, 0>>) = 2
      OBVIOUS
    <2>3. stageOf' \in Seq(Nat) /\ Len(stageOf') = N + 2
      BY <2>2, <1>1, <1>2, ConcatProperties
    <2> QED
      BY <2>1, <2>3, <1>5 DEF GraphTypeOK
  <1>8. ASSUME NEW e \in edges'
        PROVE  /\ e[1] < e[2] \/ nodes'[e[1]].kind = "start"
               /\ nodes'[e[2]].kind # "start"
    <2>1. CASE e \in edges
      BY <2>1, <1>2, <1>5 DEF IInv, GraphInv, GraphOrdered
    <2>2. CASE e \in {NextId} \X built.firstNodes
      BY <2>2, <1>2, <1>3, <1>5, <1>6 DEF Plain
    <2>3. CASE e \in built.lastNodes \X {NextId + 1}
      <3>1. e[1] \in 1 .. N /\ e[2] = N + 2
        BY <2>3, <1>2, <1>6 DEF Plain
      <3>2. nodes'[N + 2].kind # "start"
        BY <1>3, <1>5
      <3> QED
        BY <3>1, <3>2, <1>2
    <2> QED
      BY <2>1, <2>2, <2>3, <1>1
  <1>9. GraphInv'
    BY <1>7, <1>8 DEF GraphInv, GraphOrdered
  <1>10. BuilderTypeOK' /\ EndsPlain'
    <2>1. nodeNames' \subseteq Labels /\ registry' \subseteq Labels /\ newNodes' \subseteq newNodes \cup Plain'
      BY <1>1 DEF IInv, BuilderTypeOK
    <2> QED
      BY <2>1, <1>1, <1>6, KeptIds DEF IInv
  <1>11. ControlTypeOK'
    <2> DEFINE S == [startNode : Ids', endNode : Ids']
    <2>1. sagaDags \in Seq(S)
      BY <1>6, KeptSagaDags DEF IInv, ControlTypeOK
    <2>2. [startNode |-> NextId, endNode |-> NextId + 1] \in S
      BY <1>2, <1>6
    <2>3. sagaDags' \in Seq(S) /\ Len(sagaDags') = Len(sagaDags) + 1 /\ Len(sagaDags) \in Nat
      <3> HIDE DEF S
      <3> QED
        BY <2>1, <2>2, <1>1
    <2>4. Len(sagaDags') <= MaxSagaDags
      BY <2>3, <1>1, BuilderBoundsAssumption
    <2> QED
      BY <2>3, <2>4, <1>1 DEF IInv, ControlTypeOK
  <1> QED
    BY <1>1, <1>9, <1>10, <1>11 DEF IInv, WalkTypeOK, CopiesPlain

----------------------------------------------------------------------------
(* The theorems *)

LEMMA NextIInv == IInv /\ [Next]_vars => IInv'
  <1> SUFFICES ASSUME IInv, [Next]_vars PROVE IInv'
    OBVIOUS
  <1>1. CASE \E stage \in Stages : CallAppend(stage)
    BY <1>1, CallAppendIInv
  <1>2. CASE NameTaken \/ StageAdded \/ RejectSubsaga \/ Build \/ WalkDequeue \/ UNCHANGED vars
    BY <1>2, NameTakenIInv, StageAddedIInv, RejectSubsagaIInv, BuildIInv, WalkDequeueIInv
  <1>3. CASE AddAction \/ AddConstant \/ StartSubsaga
    BY <1>3, AddActionIInv, AddConstantIInv, StartSubsagaIInv
  <1>4. CASE WalkFirst \/ WalkNext \/ SubsagaAdded \/ SubsagaPanics \/ NewSagaDag
    BY <1>4, WalkIInv, SubsagaAddedIInv, SubsagaPanicsIInv, NewSagaDagIInv
  <1> QED
    BY <1>1, <1>2, <1>3, <1>4 DEF Next

LEMMA IInvHolds == Spec => []IInv
  BY InitIInv, NextIInv, PTL DEF Spec

\* Every id that the builder, its loops and its Dags keep is the id of a node.
THEOREM TypeCorrect == Spec => []TypeOK
  <1>1. IInv => TypeOK
    BY DEF IInv, GraphInv, TypeOK
  <1> QED
    BY IInvHolds, <1>1, PTL

\* Edges lead from older to newer nodes, but for those of a start node.
THEOREM EdgesAscend == Spec => []GraphOrdered
  <1>1. IInv => GraphOrdered
    BY DEF IInv, GraphInv
  <1> QED
    BY IInvHolds, <1>1, PTL

\* Any set of nodes holds one that no edge leads to from within the set.
Acyclic == \A S \in SUBSET Ids : S # {} => \E n \in S : \A m \in S : <<m, n>> \notin edges

LEMMA LeastElement ==
  ASSUME NEW S \in SUBSET Nat, S # {} PROVE \E n \in S : \A m \in S : ~(m < n)
  <1> DEFINE R == {ss \in Nat \X Nat : ss[1] < ss[2]}
  <1>1. IsWellFoundedOn(R, Nat)
    BY NatLessThanWellFounded DEF OpToRel
  <1>2. \E n \in S : \A m \in S : <<m, n>> \notin R
    <2> HIDE DEF R
    <2> QED
      BY <1>1, WFMin
  <1> QED
    BY <1>2

\* No call of the builder, in any order, with any subsaga, makes a cycle: an order of
\* execution exists for every SagaDag.
THEOREM NoCycle == Spec => []Acyclic
  <1>1. IInv => Acyclic
    <2> SUFFICES ASSUME IInv, NEW S \in SUBSET Ids, S # {}
                 PROVE  \E n \in S : \A m \in S : <<m, n>> \notin edges
      BY DEF Acyclic
    <2>1. \A e \in edges : e[1] < e[2] \/ nodes[e[1]].kind = "start"
      BY DEF IInv, GraphInv, GraphOrdered
    <2>2. \A e \in edges : nodes[e[2]].kind # "start"
      BY DEF IInv, GraphInv, GraphOrdered
    <2>3. CASE \E n \in S : nodes[n].kind = "start"
      BY <2>2, <2>3
    <2>4. CASE \A n \in S : nodes[n].kind # "start"
      <3>1. S \in SUBSET Nat
        BY DEF IInv, GraphInv, GraphTypeOK, Ids
      <3>2. PICK n \in S : \A m \in S : ~(m < n)
        BY <3>1, LeastElement
      <3>3. ASSUME NEW m \in S, <<m, n>> \in edges PROVE FALSE
        <4>1. m < n \/ nodes[m].kind = "start"
          BY <2>1, <3>3
        <4> QED
          BY <4>1, <3>2, <2>4
      <3> QED
        BY <3>3
    <2> QED
      BY <2>3, <2>4
  <1> QED
    BY IInvHolds, <1>1, PTL

----------------------------------------------------------------------------
(* Actions *)

\* The subsagas among these user nodes were built over the registry.
SubsagasRegistered(stage) ==
  \A i \in 1 .. Len(stage) : stage[i].kind = "subsaga" =>
    \A m \in DOMAIN stage[i].dag.nodes :
      stage[i].dag.nodes[m].kind = "action" => stage[i].dag.nodes[m].ref \in Registered

ActionsInv == ActionsRegistered /\ Registered \subseteq registry /\ SubsagasRegistered(todo)

\* A stage stays so while its nodes are taken from it.
LEMMA SubsagasToCome ==
  ASSUME IInv, SubsagasRegistered(todo),
         todo' \in {<<>>, todo} \/ (todo # <<>> /\ todo' = Tail(todo))
  PROVE  SubsagasRegistered(todo')
  <1>1. todo \in Seq(UserNodes)
    BY DEF IInv, ControlTypeOK
  <1>2. CASE todo' = <<>>
    BY <1>2 DEF SubsagasRegistered
  <1>3. CASE todo' = todo
    BY <1>3 DEF SubsagasRegistered
  <1>4. CASE todo # <<>> /\ todo' = Tail(todo)
    <2>1. /\ Len(todo') = Len(todo) - 1 /\ Len(todo) \in Nat
          /\ \A i \in 1 .. Len(todo) - 1 : todo'[i] = todo[i + 1]
      BY <1>1, <1>4
    <2> QED
      BY <2>1 DEF SubsagasRegistered
  <1> QED
    BY <1>2, <1>3, <1>4

\* The node that is added, whether the user's or a copy, has its action registered.
LEMMA AddedRegistered ==
  ASSUME IInv, ActionsRegistered, registry \subseteq registry',
         NEW node \in InternalNodes, node.kind = "action" => node.ref \in registry',
         nodes' = Append(nodes, node)
  PROVE  ActionsRegistered'
  <1>1. nodes \in Seq(InternalNodes)
    BY DEF IInv, GraphInv, GraphTypeOK
  <1>2. /\ DOMAIN nodes = 1 .. Len(nodes) /\ DOMAIN nodes' = 1 .. Len(nodes) + 1 /\ Len(nodes) \in Nat
        /\ \A n \in 1 .. Len(nodes) : nodes'[n] = nodes[n]
        /\ nodes'[Len(nodes) + 1] = node
    BY <1>1
  <1> QED
    BY <1>2 DEF ActionsRegistered, Ids

LEMMA SubsagaNode ==
  ASSUME IInv, ActionsInv, todo # <<>>, UserNode.kind = "subsaga", NEW m \in Subids
  PROVE  Subdag.nodes[m].kind = "action" => Subdag.nodes[m].ref \in registry
  <1>1. UserNode = todo[1] /\ 1 \in 1 .. Len(todo)
    BY DEF IInv, ControlTypeOK, UserNode
  <1> QED
    BY <1>1 DEF ActionsInv, SubsagasRegistered, Subids, Subdag

LEMMA NextActionsInv ==
  ASSUME \A stage \in Stages : SubsagasRegistered(stage), IInv, ActionsInv, [Next]_vars
  PROVE  ActionsInv'
  <1> USE DEF graphVars, builderVars, stageVars, walkVars, resultVars
  <1>0. /\ ActionsRegistered /\ Registered \subseteq registry
        /\ UNCHANGED <<nodes, registry>> => ActionsRegistered' /\ Registered \subseteq registry'
    BY DEF ActionsInv, ActionsRegistered, Ids
  <1>1. ASSUME NEW stage \in Stages, CallAppend(stage) PROVE ActionsInv'
    <2>1. UNCHANGED <<nodes, registry>> /\ todo' \in {todo, stage}
      BY <1>1 DEF CallAppend
    <2>2. SubsagasRegistered(todo')
      BY <2>1 DEF ActionsInv
    <2> QED
      BY <2>1, <2>2, <1>0 DEF ActionsInv, SubsagasRegistered
  <1>2. CASE NameTaken \/ StageAdded \/ RejectSubsaga \/ Build \/ WalkDequeue \/ UNCHANGED vars
    <2>1. UNCHANGED <<nodes, registry>> /\ todo' \in {<<>>, todo}
      BY <1>2 DEF NameTaken, StageAdded, RejectSubsaga, Build, WalkDequeue, Fail, vars
    <2> QED
      BY <2>1, <1>0, SubsagasToCome DEF ActionsInv, SubsagasRegistered
  <1>3. CASE AddAction \/ AddConstant \/ StartSubsaga
    <2>1. todo # <<>> /\ todo' \in {todo, Tail(todo)}
      BY <1>3 DEF AddAction, AddConstant, StartSubsaga, Adding
    <2>2. \E node \in InternalNodes :
            /\ nodes' = Append(nodes, node) /\ registry \subseteq registry'
            /\ node.kind = "action" => node.ref \in registry'
      <3>1. UserNode.name \in Labels /\ NoName \in Labels
        BY <2>1, UserNodeFields, LabelsAssumption DEF IInv
      <3>2. CASE AddAction
        BY <3>1, <3>2, <2>1, UserNodeFields
        DEF IInv, AddAction, Adding, AddNode, Internal, InternalNodes, Kinds
      <3>3. CASE AddConstant
        BY <3>1, <3>3 DEF AddConstant, AddNode, Internal, InternalNodes, Kinds
      <3>4. CASE StartSubsaga
        BY <3>1, <3>4, <2>1, UserNodeFields
        DEF IInv, StartSubsaga, Adding, AddNode, Internal, InternalNodes, Kinds
      <3> QED
        BY <1>3, <3>2, <3>3, <3>4
    <2>3. ActionsRegistered' /\ registry \subseteq registry'
      BY <2>2, <1>0, AddedRegistered
    <2> QED
      BY <2>1, <2>3, <1>0, SubsagasToCome DEF ActionsInv, SubsagasRegistered
  <1>4. CASE WalkFirst \/ WalkNext
    <2>1. pc = "walk" /\ UNCHANGED <<todo, registry>>
      BY <1>4 DEF WalkFirst, WalkNext, Visit, VisitPanics, Copied
    <2>2. PICK m \in Subids : nodes' = Append(nodes, Subdag.nodes[m])
      <3>1. CASE WalkFirst
        BY <3>1, <2>1, SubgraphNodes DEF WalkFirst, Visit, VisitPanics, AddNode
      <3>2. CASE WalkNext
        BY <3>2 DEF WalkNext, Visit, VisitPanics, AddNode, Successors
      <3> QED
        BY <1>4, <3>1, <3>2
    <2>3. Subdag.nodes[m] \in InternalNodes
      BY <2>1, SubgraphNodes
    <2>4. todo # <<>> /\ UserNode.kind = "subsaga"
      BY <2>1 DEF IInv, WalkTypeOK
    <2>5. ActionsRegistered'
      BY <2>1, <2>2, <2>3, <2>4, <1>0, SubsagaNode, AddedRegistered
    <2> QED
      BY <2>1, <2>5, <1>0, SubsagasToCome DEF ActionsInv, SubsagasRegistered
  <1>5. CASE SubsagaAdded \/ SubsagaPanics
    <2>1. pc = "walk" /\ todo # <<>> /\ todo' \in {todo, Tail(todo)} /\ UNCHANGED registry
      BY <1>5 DEF SubsagaAdded, SubsagaPanics, SubsagaLoops, IInv, WalkTypeOK
    <2>2. UNCHANGED nodes \/ nodes' = Append(nodes, Internal("subsagaEnd", UserNode.name, NoName))
      BY <1>5 DEF SubsagaAdded, SubsagaPanics, AddEnd
    <2>3. Internal("subsagaEnd", UserNode.name, NoName) \in InternalNodes
      BY <2>1, UserNodeFields, LabelsAssumption DEF IInv, Internal, InternalNodes, Kinds
    <2>4. Internal("subsagaEnd", UserNode.name, NoName).kind # "action"
      BY DEF Internal
    <2>5. ActionsRegistered'
      BY <2>1, <2>2, <2>3, <2>4, <1>0, AddedRegistered
    <2> QED
      BY <2>1, <2>5, <1>0, SubsagasToCome DEF ActionsInv, SubsagasRegistered
  <1>6. CASE NewSagaDag
    <2> DEFINE first == Internal("start", NoName, NoName)
               last == Internal("end", NoName, NoName)
               mid == Append(nodes, first)
    <2>1. UNCHANGED <<todo, registry>> /\ nodes' = nodes \o <<first, last>>
      BY <1>6 DEF NewSagaDag
    <2>2. nodes \in Seq(InternalNodes)
      BY DEF IInv, GraphInv, GraphTypeOK
    <2>3. /\ first \in InternalNodes /\ first.kind # "action"
          /\ last \in InternalNodes /\ last.kind # "action"
      BY LabelsAssumption DEF Internal, InternalNodes, Kinds
    <2> HIDE DEF first, last
    <2>4. nodes' = Append(mid, last) /\ Len(mid) = Len(nodes) + 1
      BY <2>1, <2>2, <2>3
    <2>5. \A n \in 1 .. Len(nodes') : nodes'[n] = IF n <= Len(nodes) THEN nodes[n]
                                                ELSE IF n = Len(nodes) + 1 THEN first ELSE last
      BY <2>2, <2>3, <2>4
    <2>6. DOMAIN nodes = 1 .. Len(nodes) /\ DOMAIN nodes' = 1 .. Len(nodes') /\ Len(nodes) \in Nat
      BY <2>2, <2>3, <2>4
    <2>7. ASSUME NEW n \in Ids', nodes'[n].kind = "action" PROVE nodes'[n].ref \in registry'
      <3>1. n \in 1 .. Len(nodes')
        BY <2>6, <2>7 DEF Ids
      <3>2. nodes'[n] # first /\ nodes'[n] # last
        BY <2>3, <2>7
      <3>3. n <= Len(nodes) /\ nodes'[n] = nodes[n]
        BY <2>5, <3>1, <3>2
      <3>4. n \in Ids
        BY <2>6, <3>1, <3>3 DEF Ids
      <3>5. nodes[n].kind = "action"
        BY <2>7, <3>3
      <3>6. nodes[n].ref \in registry
        BY <3>4, <3>5, <1>0 DEF ActionsRegistered
      <3> QED
        BY <2>1, <3>3, <3>6
    <2>8. ActionsRegistered'
      BY <2>7 DEF ActionsRegistered
    <2> QED
      BY <2>1, <2>8, <1>0, SubsagasToCome DEF ActionsInv, SubsagasRegistered
  <1> QED
    BY <1>1, <1>2, <1>3, <1>4, <1>5, <1>6 DEF Next

\* Provided that the subsagas were built over the registry the builder starts from, the
\* executor finds the action of every node there, also after refused stages and panics.
THEOREM ActionsAreRegistered ==
  ASSUME \A stage \in Stages : SubsagasRegistered(stage)
  PROVE  Spec => []ActionsRegistered
  <1>1. Init => ActionsInv
    BY DEF Init, ActionsInv, ActionsRegistered, SubsagasRegistered, Ids
  <1>2. IInv /\ ActionsInv /\ [Next]_vars => ActionsInv'
    BY NextActionsInv
  <1>3. ActionsInv => ActionsRegistered
    BY DEF ActionsInv
  <1> QED
    BY IInvHolds, <1>1, <1>2, <1>3, PTL DEF Spec

----------------------------------------------------------------------------
(* What the walk copies *)

\* The user nodes that the stages hold.
Given == UNION {{stage[i] : i \in 1 .. Len(stage)} : stage \in Stages}

\* The nodes of a subsaga that hang together with its first node.
Part(dag) ==
  {m \in DOMAIN dag.nodes :
     \A S \in SUBSET DOMAIN dag.nodes :
       /\ 1 \in S
       /\ \A j, k \in DOMAIN dag.nodes : <<j, k>> \in dag.edges => (j \in S <=> k \in S)
       => m \in S}

\* Those that validateSubgraph accepts.
Accepted(dag) ==
  \A m \in DOMAIN dag.nodes : dag.nodes[m].kind \notin {"start", "end", "subsagaStart", "subsagaEnd"}

\* When its leaves are among them, all of its nodes are.
HangsTogether(dag) == ToSet(dag.lastNodes) \subseteq Part(dag) => Part(dag) = DOMAIN dag.nodes

\* What is to come of a stage is of a stage that was given.
FromGiven == \A i \in 1 .. Len(todo) : todo[i] \in Given

\* The copies: with a node its predecessors have been copied, and its successors have
\* or will be, while it is in the queue.
WalkInv ==
  pc = "walk" =>
    /\ copy = <<>> \/ 1 \in DOMAIN copy
    /\ ToSet(queue) \subseteq DOMAIN copy /\ DOMAIN copy \subseteq Part(Subdag)
    /\ \A m \in DOMAIN copy :
         /\ Predecessors(m) \subseteq DOMAIN copy
         /\ Successors(m) \subseteq DOMAIN copy \/ m \in ToSet(queue)
    /\ \A j, k \in DOMAIN copy : copy[j] = copy[k] => j = k
    /\ \A j, k \in DOMAIN copy : <<copy[j], copy[k]>> \in edges <=> <<j, k>> \in Subdag.edges

LEMMA NextFromGiven == ASSUME IInv, FromGiven, [Next]_vars PROVE FromGiven'
<1> USE DEF graphVars, builderVars, stageVars, walkVars, resultVars
<1>1. todo \in Seq(UserNodes)
  BY DEF IInv, ControlTypeOK
<1>2. todo' \in {<<>>, todo} \/ (todo # <<>> /\ todo' = Tail(todo)) \/ todo' \in Stages
  <2>1. CASE \E stage \in Stages : CallAppend(stage)
    BY <2>1 DEF CallAppend
  <2>2. CASE NameTaken \/ RejectSubsaga
    BY <2>2 DEF NameTaken, RejectSubsaga, Fail
  <2>3. CASE AddAction \/ AddConstant \/ SubsagaAdded
    <3>1. pc = "walk" => todo # <<>>
      BY DEF IInv, WalkTypeOK
    <3>2. QED
      BY <2>3, <3>1 DEF AddAction, AddConstant, SubsagaAdded, SubsagaLoops, Adding
  <2>4. CASE StageAdded \/ StartSubsaga \/ WalkFirst \/ WalkNext \/ WalkDequeue \/ SubsagaPanics
    BY <2>4 DEF StageAdded, StartSubsaga, WalkFirst, WalkNext, Visit, VisitPanics, Copied,
                WalkDequeue, SubsagaPanics
  <2>5. CASE Build \/ NewSagaDag \/ UNCHANGED vars
    BY <2>5 DEF Build, NewSagaDag, vars
  <2>6. QED
    BY <2>1, <2>2, <2>3, <2>4, <2>5 DEF Next
<1>3. CASE todo' \in {<<>>, todo}
  BY <1>3 DEF FromGiven
<1>4. CASE todo # <<>> /\ todo' = Tail(todo)
  <2>1. /\ Len(todo') = Len(todo) - 1 /\ Len(todo) \in Nat
        /\ \A i \in 1 .. Len(todo) - 1 : todo'[i] = todo[i + 1]
    BY <1>1, <1>4
  <2>2. QED
    BY <2>1 DEF FromGiven
<1>5. CASE todo' \in Stages
  BY <1>5 DEF FromGiven, Given
<1>6. QED
  BY <1>2, <1>3, <1>4, <1>5

\* What a node that is added changes.
LEMMA Added ==
  ASSUME IInv, NEW node, nodes' = Append(nodes, node), stageOf' = Append(stageOf, stages + 1)
  PROVE  /\ Ids' = Ids \cup {NextId} /\ NextId \notin Ids /\ NextId \in Nat /\ Ids \subseteq Nat
         /\ \A n \in Ids : stageOf'[n] = stageOf[n] /\ n < NextId
         /\ stageOf'[NextId] = stages + 1 /\ stages \in Nat
<1>1. /\ nodes \in Seq(InternalNodes) /\ stageOf \in Seq(Nat) /\ Len(stageOf) = Len(nodes)
      /\ Ids = 1 .. Len(nodes) /\ Len(nodes) \in Nat /\ stages \in Nat
  BY DEF IInv, GraphInv, GraphTypeOK, BuilderTypeOK, Ids
<1>2. Ids' = 1 .. Len(nodes) + 1
  <2>1. DOMAIN Append(nodes, node) = 1 .. Len(nodes) + 1
    BY <1>1
  <2>2. QED
    BY <2>1 DEF Ids
<1>3. QED
  BY <1>1, <1>2 DEF NextId

\* The copy of a node with its edges.
LEMMA VisitCopies ==
  ASSUME IInv, WalkInv, pc = "walk", NEW m \in Part(Subdag), m \notin DOMAIN copy, Visit(m),
         copy = <<>> => m = 1
  PROVE  WalkInv'
<1> DEFINE from == {copy[k] : k \in Predecessors(m)}
<1>1. /\ Predecessors(m) \subseteq DOMAIN copy /\ pc' = "walk" /\ UNCHANGED <<todo, start>>
      /\ nodes' = Append(nodes, Subdag.nodes[m]) /\ stageOf' = Append(stageOf, stages + 1)
      /\ edges' = edges \cup (from \X {NextId})
      /\ copy' = [k \in DOMAIN copy \cup {m} |-> IF k = m THEN NextId ELSE copy[k]]
      /\ queue' = Append(queue, m)
  BY DEF Visit, AddNode, Copied, stageVars
<1>2. /\ queue \in Seq(Subids) /\ DOMAIN copy \subseteq Subids /\ m \in Subids
      /\ \A k \in DOMAIN copy : copy[k] \in Ids
      /\ edges \subseteq Ids \X Ids
  BY DEF IInv, WalkTypeOK, Part, Subids, GraphInv, GraphTypeOK
<1>3. NextId \notin Ids
  BY <1>1, Added
<1>4. /\ Subdag' = Subdag /\ Subids' = Subids
      /\ \A k : Predecessors(k)' = Predecessors(k) /\ Successors(k)' = Successors(k)
      /\ Part(Subdag)' = Part(Subdag)
  BY <1>1 DEF Subdag, UserNode, Subids, Predecessors, Successors, Part
<1>5. /\ DOMAIN copy' = DOMAIN copy \cup {m} /\ copy'[m] = NextId
      /\ \A k \in DOMAIN copy : copy'[k] = copy[k]
  BY <1>1
<1>6. ToSet(queue') = ToSet(queue) \cup {m}
  <2>1. /\ Len(queue') = Len(queue) + 1 /\ Len(queue) \in Nat
        /\ DOMAIN queue' = 1 .. Len(queue) + 1 /\ DOMAIN queue = 1 .. Len(queue)
        /\ \A i \in 1 .. Len(queue) : queue'[i] = queue[i]
        /\ queue'[Len(queue) + 1] = m
    BY <1>1, <1>2
  <2>2. QED
    BY <2>1 DEF ToSet
<1>7. copy' = <<>> \/ 1 \in DOMAIN copy'
  BY <1>5 DEF WalkInv
<1>8. \A k \in DOMAIN copy' :
        /\ Predecessors(k) \subseteq DOMAIN copy'
        /\ Successors(k) \subseteq DOMAIN copy' \/ k \in ToSet(queue')
  BY <1>1, <1>5, <1>6 DEF WalkInv
<1>9. ASSUME NEW j \in DOMAIN copy', NEW k \in DOMAIN copy'
      PROVE  copy'[j] = copy'[k] => j = k
  BY <1>2, <1>3, <1>5 DEF WalkInv
<1>10. ASSUME NEW j \in DOMAIN copy', NEW k \in DOMAIN copy'
       PROVE  <<copy'[j], copy'[k]>> \in edges' <=> <<j, k>> \in Subdag.edges
  <2>1. CASE k = m /\ j # m
    <3>1. j \in DOMAIN copy /\ copy'[j] = copy[j] /\ copy'[k] = NextId /\ j \in Subids
      BY <2>1, <1>2, <1>5
    <3>2. <<copy[j], NextId>> \in edges' <=> copy[j] \in from
      BY <1>1, <1>2, <1>3
    <3>3. copy[j] \in from <=> j \in Predecessors(m)
      BY <3>1, <1>1 DEF WalkInv
    <3>4. QED
      BY <2>1, <3>1, <3>2, <3>3 DEF Predecessors
  <2>2. CASE k # m
    <3>1. k \in DOMAIN copy /\ copy'[k] = copy[k] /\ copy[k] # NextId
      BY <2>2, <1>2, <1>3, <1>5
    <3>2. <<copy'[j], copy[k]>> \in edges' <=> <<copy'[j], copy[k]>> \in edges
      BY <3>1, <1>1
    <3>3. CASE j = m
      <4>1. <<copy'[j], copy[k]>> \notin edges
        BY <3>3, <1>2, <1>3, <1>5
      <4>2. <<j, k>> \notin Subdag.edges
        BY <3>1, <3>3, <1>2 DEF WalkInv, Predecessors
      <4>3. QED
        BY <3>1, <3>2, <4>1, <4>2
    <3>4. CASE j # m
      BY <3>1, <3>2, <3>4, <1>5 DEF WalkInv
    <3>5. QED
      BY <3>3, <3>4
  <2>3. CASE k = m /\ j = m
    <3>1. <<NextId, NextId>> \notin edges'
      <4>1. NextId \notin from
        BY <1>1, <1>2, <1>3
      <4>2. QED
        BY <4>1, <1>1, <1>2, <1>3
    <3>2. <<m, m>> \notin Subdag.edges
      BY <1>1, <1>2 DEF Predecessors
    <3>3. QED
      BY <2>3, <3>1, <3>2, <1>5
  <2>4. QED
    BY <2>1, <2>2, <2>3
<1>11. ToSet(queue') \subseteq DOMAIN copy' /\ DOMAIN copy' \subseteq Part(Subdag)
  BY <1>1, <1>5, <1>6 DEF WalkInv
<1>12. QED
  <2>1. \A k \in DOMAIN copy' :
          /\ Predecessors(k)' \subseteq DOMAIN copy'
          /\ Successors(k)' \subseteq DOMAIN copy' \/ k \in ToSet(queue')
    BY <1>4, <1>8 DEF Predecessors, Successors
  <2>2. DOMAIN copy' \subseteq Part(Subdag)'
    BY <1>4, <1>11
  <2>3. \A j, k \in DOMAIN copy' : <<copy'[j], copy'[k]>> \in edges' <=> <<j, k>> \in Subdag'.edges
    BY <1>4, <1>10
  <2>4. \A j, k \in DOMAIN copy' : copy'[j] = copy'[k] => j = k
    BY <1>9
  <2>5. QED
    BY <1>7, <1>11, <2>1, <2>2, <2>3, <2>4 DEF WalkInv

\* A walk that goes on has a node to visit that hangs together with the first.
LEMMA WalkStepCopies == ASSUME IInv, WalkInv, WalkFirst \/ WalkNext PROVE WalkInv'
<1>1. pc = "walk" /\ 1 \in Subids
  BY SubgraphNodes DEF WalkFirst, WalkNext
<1>2. CASE WalkFirst
  <2>1. 1 \in Part(Subdag) /\ 1 \notin DOMAIN copy
    BY <1>1, <1>2 DEF Part, Subids, WalkFirst
  <2>2. CASE Visit(1)
    BY <1>1, <2>1, <2>2, VisitCopies
  <2>3. CASE VisitPanics(1)
    BY <2>3 DEF VisitPanics, WalkInv
  <2>4. QED
    BY <1>2, <2>2, <2>3 DEF WalkFirst
<1>3. CASE WalkNext
  <2>1. PICK m \in Successors(Head(queue)) \ DOMAIN copy : Visit(m) \/ VisitPanics(m)
    BY <1>3 DEF WalkNext
  <2>2. CASE VisitPanics(m)
    BY <2>2 DEF VisitPanics, WalkInv
  <2>3. CASE Visit(m)
    <3> DEFINE h == Head(queue)
    <3>1. queue \in Seq(Subids) /\ queue # <<>>
      BY <1>1, <1>3 DEF WalkNext, IInv, WalkTypeOK
    <3>2. h \in ToSet(queue)
      BY <3>1 DEF ToSet
    <3>3. h \in DOMAIN copy /\ h \in Part(Subdag)
      BY <1>1, <3>2 DEF WalkInv
    <3>4. m \in Subids /\ <<h, m>> \in Subdag.edges /\ h \in Subids
      BY <2>1, <3>3 DEF Successors, Part, Subids
    <3>5. m \in Part(Subdag)
      <4> HIDE DEF h
      <4>1. QED
        BY <3>3, <3>4 DEF Part, Subids
    <3>6. copy # <<>>
      BY <3>3
    <3>7. QED
      BY <1>1, <2>1, <2>3, <3>5, <3>6, VisitCopies
  <2>4. QED
    BY <2>1, <2>2, <2>3
<1>4. QED
  BY <1>2, <1>3

LEMMA DequeueCopies == ASSUME IInv, WalkInv, WalkDequeue PROVE WalkInv'
<1>1. /\ pc = "walk" /\ queue # <<>> /\ queue \in Seq(Subids) /\ queue' = Tail(queue)
      /\ Successors(Head(queue)) \subseteq DOMAIN copy /\ UNCHANGED <<pc, copy, edges, todo>>
  BY DEF WalkDequeue, IInv, WalkTypeOK, graphVars, stageVars
<1>2. /\ Subdag' = Subdag /\ Subids' = Subids
      /\ \A k : Predecessors(k)' = Predecessors(k) /\ Successors(k)' = Successors(k)
      /\ Part(Subdag)' = Part(Subdag)
  BY <1>1 DEF Subdag, UserNode, Subids, Predecessors, Successors, Part
<1>3. ToSet(queue') \subseteq ToSet(queue) /\ ToSet(queue) \subseteq ToSet(queue') \cup {Head(queue)}
  <2>1. /\ Len(queue') = Len(queue) - 1 /\ Len(queue) \in Nat /\ Head(queue) = queue[1]
        /\ DOMAIN queue' = 1 .. Len(queue) - 1 /\ DOMAIN queue = 1 .. Len(queue)
        /\ \A i \in 1 .. Len(queue) - 1 : queue'[i] = queue[i + 1]
    BY <1>1
  <2>2. \A i \in 1 .. Len(queue) : i = 1 \/ (i - 1 \in 1 .. Len(queue) - 1 /\ queue'[i - 1] = queue[i])
    BY <2>1
  <2>3. \A i \in 1 .. Len(queue) - 1 : i + 1 \in 1 .. Len(queue)
    BY <2>1
  <2>4. ToSet(queue') \subseteq ToSet(queue)
    BY <2>1, <2>3 DEF ToSet
  <2>5. ToSet(queue) \subseteq ToSet(queue') \cup {Head(queue)}
    BY <2>1, <2>2 DEF ToSet
  <2>6. QED
    BY <2>4, <2>5
<1>4. \A k \in DOMAIN copy' :
        /\ Predecessors(k)' \subseteq DOMAIN copy'
        /\ Successors(k)' \subseteq DOMAIN copy' \/ k \in ToSet(queue')
  <2>1. \A k \in DOMAIN copy :
          /\ Predecessors(k) \subseteq DOMAIN copy
          /\ Successors(k) \subseteq DOMAIN copy \/ k \in ToSet(queue')
    BY <1>1, <1>3 DEF WalkInv
  <2>2. QED
    BY <1>1, <1>2, <2>1 DEF Predecessors, Successors
<1>5. DOMAIN copy' \subseteq Part(Subdag)' /\ ToSet(queue') \subseteq DOMAIN copy'
  BY <1>1, <1>2, <1>3 DEF WalkInv
<1>6. \A j, k \in DOMAIN copy' : <<copy'[j], copy'[k]>> \in edges' <=> <<j, k>> \in Subdag'.edges
  BY <1>1, <1>2 DEF WalkInv
<1>7. /\ copy' = <<>> \/ 1 \in DOMAIN copy'
      /\ \A j, k \in DOMAIN copy' : copy'[j] = copy'[k] => j = k
  BY <1>1 DEF WalkInv
<1>8. QED
  BY <1>4, <1>5, <1>6, <1>7 DEF WalkInv

LEMMA NextWalkInv == ASSUME IInv, WalkInv, [Next]_vars PROVE WalkInv'
<1> USE DEF graphVars, builderVars, stageVars, walkVars, resultVars
<1>1. CASE WalkFirst \/ WalkNext
  BY <1>1, WalkStepCopies
<1>2. CASE WalkDequeue
  BY <1>2, DequeueCopies
<1>3. CASE StartSubsaga
  <2>1. copy' = <<>> /\ queue' = <<>>
    BY <1>3 DEF StartSubsaga
  <2>2. DOMAIN copy' = {} /\ ToSet(queue') = {}
    BY <2>1 DEF ToSet
  <2>3. QED
    BY <2>1, <2>2 DEF WalkInv
<1>4. CASE UNCHANGED vars
  BY <1>4 DEF vars, WalkInv, Subdag, UserNode, Subids, Predecessors, Successors, Part
<1>5. CASE \E stage \in Stages : CallAppend(stage)
  BY <1>5 DEF CallAppend, WalkInv
<1>6. CASE NameTaken \/ RejectSubsaga \/ AddAction \/ AddConstant \/ StageAdded \/ SubsagaAdded \/ SubsagaPanics
  BY <1>6 DEF NameTaken, RejectSubsaga, AddAction, AddConstant, StageAdded, SubsagaAdded,
              SubsagaPanics, Adding, Fail, WalkInv
<1>7. CASE Build \/ NewSagaDag
  BY <1>7 DEF Build, NewSagaDag, WalkInv
<1>8. QED
  BY <1>1, <1>2, <1>3, <1>4, <1>5, <1>6, <1>7 DEF Next

\* The user node whose subsaga is walked is of a given stage.
LEMMA WalkedIsGiven ==
  ASSUME IInv, FromGiven, pc = "walk"
  PROVE  UserNode \in Given /\ UserNode.kind = "subsaga" /\ Accepted(Subdag)
<1>1. todo \in Seq(UserNodes) /\ todo # <<>> /\ UserNode.kind = "subsaga" /\ ValidSubgraph
  BY DEF IInv, ControlTypeOK, WalkTypeOK
<1>2. UserNode = todo[1] /\ 1 \in 1 .. Len(todo)
  BY <1>1 DEF UserNode
<1>3. QED
  BY <1>1, <1>2 DEF FromGiven, ValidSubgraph, Accepted, Subids

\* Provided that the nodes of an accepted subsaga hang together when its leaves are reached
\* at all, what a walk has copied when it ends is the whole of it.
SubsagasHangTogether == \A u \in Given : u.kind = "subsaga" /\ Accepted(u.dag) => HangsTogether(u.dag)

LEMMA WholeCopied ==
  ASSUME SubsagasHangTogether, IInv, WalkInv, FromGiven,
         pc = "walk", queue = <<>>, copy # <<>>, SubLeaves \subseteq DOMAIN copy
  PROVE  DOMAIN copy = Subids /\ Part(Subdag) = Subids
<1>1. HangsTogether(Subdag)
  BY WalkedIsGiven DEF Subdag, SubsagasHangTogether
<1>2. DOMAIN copy \subseteq Part(Subdag) /\ Part(Subdag) \subseteq Subids
  BY DEF WalkInv, Part, Subids
<1>3. Part(Subdag) \subseteq DOMAIN copy
  <2>1. ToSet(queue) = {}
    BY DEF ToSet
  <2>2. 1 \in DOMAIN copy /\ DOMAIN copy \in SUBSET Subids
    BY <1>2 DEF WalkInv
  <2>3. \A m \in DOMAIN copy : Predecessors(m) \subseteq DOMAIN copy /\ Successors(m) \subseteq DOMAIN copy
    BY <2>1 DEF WalkInv
  <2>4. \A j, k \in Subids : <<j, k>> \in Subdag.edges => (j \in DOMAIN copy <=> k \in DOMAIN copy)
    BY <2>2, <2>3 DEF Predecessors, Successors
  <2>5. QED
    BY <2>2, <2>4 DEF Part, Subids
<1>4. Part(Subdag) = Subids
  BY <1>1, <1>2 DEF HangsTogether, SubLeaves, Subids
<1>5. QED
  BY <1>2, <1>3, <1>4

\* A walk that ends without a panic has copied the subsaga whole: its nodes once each, and
\* among the copies the edges of its graph and no others.
THEOREM SubsagaIsCopied == ASSUME SubsagasHangTogether PROVE Spec => []SubsagaCopied
<1>1. ASSUME IInv, WalkInv, FromGiven
      PROVE  SubsagaCopied
  <2>1. SUFFICES ASSUME pc = "walk", queue = <<>>, copy # <<>>, SubLeaves \subseteq DOMAIN copy
                 PROVE  /\ DOMAIN copy = Subids /\ IsInjective(copy)
                        /\ \A j, k \in Subids : <<copy[j], copy[k]>> \in edges <=> <<j, k>> \in Subdag.edges
    BY DEF SubsagaCopied
  <2>2. DOMAIN copy = Subids
    BY <1>1, <2>1, WholeCopied
  <2>3. QED
    BY <1>1, <2>1, <2>2 DEF WalkInv, IsInjective
<1>2. Init => WalkInv /\ FromGiven
  BY DEF Init, WalkInv, FromGiven
<1>3. QED
  BY <1>1, <1>2, IInvHolds, NextWalkInv, NextFromGiven, PTL DEF Spec

----------------------------------------------------------------------------
(* What depends on what *)

\* Edges lead from m to n, directly or through others.
Leads(graph, m, n) ==
  \A S \in SUBSET {e[2] : e \in graph} :
    (\A e \in graph : e[1] = m \/ e[1] \in S => e[2] \in S) => n \in S

LEMMA EdgeLeads == ASSUME NEW graph, NEW m, NEW n, <<m, n>> \in graph PROVE Leads(graph, m, n)
BY DEF Leads

LEMMA LeadsOn ==
  ASSUME NEW graph, NEW m, NEW k, NEW n, Leads(graph, m, k), Leads(graph, k, n)
  PROVE  Leads(graph, m, n)
BY DEF Leads

LEMMA LeadsStill ==
  ASSUME NEW graph, NEW larger, graph \subseteq larger, NEW m, NEW n, Leads(graph, m, n)
  PROVE  Leads(larger, m, n)
<1>1. SUFFICES ASSUME NEW S \in SUBSET {e[2] : e \in larger},
                      \A e \in larger : e[1] = m \/ e[1] \in S => e[2] \in S
               PROVE  n \in S
  BY DEF Leads
<1> DEFINE T == S \cap {e[2] : e \in graph}
<1>2. \A e \in graph : e[1] = m \/ e[1] \in T => e[2] \in T
  BY <1>1
<1>3. T \in SUBSET {e[2] : e \in graph}
  OBVIOUS
<1>4. n \in T
  <2> HIDE DEF T
  <2>1. QED
    BY <1>2, <1>3 DEF Leads
<1>5. QED
  BY <1>4

\* Of a set of nodes that is not empty, one has no edge to another of the set.
LEMMA LastOfSet ==
  ASSUME IInv, NEW S \in SUBSET Ids, S # {}
  PROVE  \E m \in S : \A n \in S : <<m, n>> \notin edges
<1>1. /\ Ids = 1 .. Len(nodes) /\ Len(nodes) \in Nat
      /\ \A e \in edges : (e[1] < e[2] \/ nodes[e[1]].kind = "start") /\ nodes[e[2]].kind # "start"
  BY DEF IInv, GraphInv, GraphTypeOK, GraphOrdered, Ids
<1> DEFINE P == {m \in S : nodes[m].kind # "start"}
           R == {Len(nodes) - m : m \in P}
<1>2. CASE P = {}
  <2>1. \A n \in S : nodes[n].kind = "start"
    BY <1>2
  <2>2. QED
    BY <1>1, <2>1
<1>3. CASE P # {}
  <2>1. R \in SUBSET Nat /\ R # {}
    <3>1. \A m \in P : Len(nodes) - m \in Nat
      BY <1>1
    <3>2. QED
      BY <1>3, <3>1
  <2>2. PICK r \in R : \A q \in R : ~(q < r)
    <3> HIDE DEF R
    <3>1. QED
      BY <2>1, LeastElement
  <2>3. PICK m \in P : r = Len(nodes) - m
    OBVIOUS
  <2>4. ASSUME NEW n \in S, <<m, n>> \in edges
        PROVE  FALSE
    <3>1. m < n /\ n \in P
      BY <1>1, <2>3, <2>4
    <3>2. Len(nodes) - n \in R /\ m \in Nat /\ n \in Nat
      BY <1>1, <2>3, <3>1
    <3>3. Len(nodes) - n < r
      BY <1>1, <2>3, <3>1, <3>2
    <3>4. QED
      BY <2>2, <3>2, <3>3
  <2>5. QED
    BY <2>3, <2>4
<1>4. QED
  BY <1>2, <1>3

\* What the edges of a node lead to.
After(n) == {m \in Ids : <<n, m>> \in edges}

\* The function that Dependents takes is the one that its definition asks for.
LEMMA DependentsAre ==
  ASSUME edges \subseteq Ids \X Ids
  PROVE  Dependents = [n \in Ids |-> After(n) \cup UNION {Dependents[m] : m \in After(n)}]
<1> DEFINE Fits(f) == f = [n \in Ids |-> After(n) \cup (UNION {f[m] : m \in After(n)})]
           led == [n \in Ids |-> {m \in Ids : Leads(edges, n, m)}]
<1>1. Dependents = CHOOSE f : Fits(f)
  BY DEF Dependents, After
<1>2. Fits(led)
  <2>1. ASSUME NEW n \in Ids
        PROVE  led[n] = After(n) \cup (UNION {led[m] : m \in After(n)})
    <3>1. After(n) \subseteq led[n]
      BY EdgeLeads DEF After
    <3>2. ASSUME NEW m \in After(n)
          PROVE  led[m] \subseteq led[n]
      <4>1. m \in Ids /\ Leads(edges, n, m)
        BY EdgeLeads DEF After
      <4>2. QED
        BY <4>1, LeadsOn
    <3>3. ASSUME NEW k \in led[n]
          PROVE  k \in After(n) \cup (UNION {led[m] : m \in After(n)})
      <4> DEFINE S == After(n) \cup (UNION {led[m] : m \in After(n)})
      <4>1. \A m \in After(n) : m \in Ids /\ led[m] = {j \in Ids : Leads(edges, m, j)}
        BY DEF After
      <4>2. ASSUME NEW e \in edges, e[1] = n \/ e[1] \in S
            PROVE  e[2] \in S
        <5>1. e[1] \in Ids /\ e[2] \in Ids /\ <<e[1], e[2]>> \in edges
          OBVIOUS
        <5>2. CASE e[1] = n
          BY <5>1, <5>2 DEF After
        <5>3. CASE e[1] \in After(n)
          <6>1. e[2] \in led[e[1]]
            BY <4>1, <5>1, <5>3, EdgeLeads
          <6>2. QED
            BY <5>3, <6>1
        <5>4. ASSUME NEW m \in After(n), e[1] \in led[m]
              PROVE  e[2] \in S
          <6>1. Leads(edges, m, e[1]) /\ Leads(edges, e[1], e[2])
            BY <4>1, <5>1, <5>4, EdgeLeads
          <6>2. e[2] \in led[m]
            BY <4>1, <5>1, <6>1, LeadsOn
          <6>3. QED
            BY <5>4, <6>2
        <5>5. QED
          BY <4>2, <5>2, <5>3, <5>4
      <4>3. Leads(edges, n, k)
        OBVIOUS
      <4> DEFINE T == S \cap {e[2] : e \in edges}
      <4>4. \A e \in edges : e[1] = n \/ e[1] \in T => e[2] \in T
        <5> HIDE DEF S
        <5>1. QED
          BY <4>2
      <4>5. T \in SUBSET {e[2] : e \in edges}
        OBVIOUS
      <4>6. k \in T
        <5> HIDE DEF T
        <5>1. QED
          BY <4>3, <4>4, <4>5 DEF Leads
      <4>7. QED
        BY <4>6
    <3>4. QED
      BY <3>1, <3>2, <3>3
  <2>2. QED
    <3> HIDE DEF led
    <3>1. led = [n \in Ids |-> led[n]]
      BY DEF led
    <3>2. QED
      BY <2>1, <3>1
<1>3. Fits(Dependents)
  <2> HIDE DEF Fits, led
  <2>1. QED
    BY <1>1, <1>2
<1>4. QED
  BY <1>3

\* It holds for a node whatever edges lead to from it.
LEMMA LedAreDependents ==
  ASSUME IInv, NEW m \in Ids, NEW n, Leads(edges, m, n)
  PROVE  n \in Dependents[m]
<1>1. edges \subseteq Ids \X Ids
  BY DEF IInv, GraphInv, GraphTypeOK
<1>2. \A k \in Ids : Dependents[k] = After(k) \cup (UNION {Dependents[j] : j \in After(k)})
  BY <1>1, DependentsAre
<1> DEFINE Full(k) == \A e \in edges : e[1] = k \/ e[1] \in Dependents[k] => e[2] \in Dependents[k]
           Bad == {k \in Ids : ~Full(k)}
<1>3. ASSUME NEW k \in Ids, \A j \in After(k) : Full(j)
      PROVE  Full(k)
  <2>1. SUFFICES ASSUME NEW e \in edges, e[1] = k \/ e[1] \in Dependents[k]
                 PROVE  e[2] \in Dependents[k]
    OBVIOUS
  <2>2. e[1] \in Ids /\ e[2] \in Ids /\ <<e[1], e[2]>> \in edges /\ e[2] \in After(e[1])
    BY <1>1 DEF After
  <2>3. CASE e[1] = k
    BY <1>2, <2>2, <2>3
  <2>4. CASE e[1] \in After(k)
    <3>1. e[2] \in Dependents[e[1]]
      BY <1>2, <2>2
    <3>2. QED
      BY <1>2, <2>4, <3>1
  <2>5. ASSUME NEW j \in After(k), e[1] \in Dependents[j]
        PROVE  e[2] \in Dependents[k]
    <3>1. e[2] \in Dependents[j]
      BY <1>3, <2>5
    <3>2. QED
      BY <1>2, <3>1
  <2>6. QED
    BY <1>2, <2>1, <2>3, <2>4, <2>5
<1>4. Bad = {}
  <2>1. SUFFICES ASSUME Bad # {}
                 PROVE  FALSE
    OBVIOUS
  <2>2. PICK k \in Bad : \A j \in Bad : <<k, j>> \notin edges
    <3> HIDE DEF Full
    <3>1. Bad \in SUBSET Ids
      OBVIOUS
    <3> HIDE DEF Bad
    <3>2. QED
      BY <2>1, <3>1, LastOfSet
  <2>3. \A j \in After(k) : Full(j)
    <3> HIDE DEF Full
    <3>1. QED
      BY <2>2 DEF After
  <2>4. QED
    BY <1>3, <2>3
<1>5. Full(m)
  BY <1>4
<1> DEFINE S == Dependents[m] \cap {e[2] : e \in edges}
<1>6. \A e \in edges : e[1] = m \/ e[1] \in S => e[2] \in S
  BY <1>5
<1>7. S \in SUBSET {e[2] : e \in edges}
  OBVIOUS
<1>8. n \in S
  <2> HIDE DEF S
  <2>1. QED
    BY <1>6, <1>7 DEF Leads
<1>9. QED
  BY <1>8
----------------------------------------------------------------------------
(* Stages *)

\* What NewSagaDag changes.
LEMMA WrapAdds ==
  ASSUME IInv, NewSagaDag
  PROVE  /\ Ids' = Ids \cup {NextId, NextId + 1} /\ NextId \notin Ids /\ NextId + 1 \notin Ids
         /\ NextId # NextId + 1 /\ Ids \subseteq Nat /\ NextId \in Nat
         /\ \A n \in Ids : stageOf'[n] = stageOf[n]
         /\ stageOf'[NextId] = 0 /\ stageOf'[NextId + 1] = 0
<1> DEFINE N == Len(nodes)
           marks == <<0, 0>>
           ends == <<Internal("start", NoName, NoName), Internal("end", NoName, NoName)>>
<1>1. /\ nodes \in Seq(InternalNodes) /\ stageOf \in Seq(Nat) /\ Len(stageOf) = N
      /\ Ids = 1 .. N /\ N \in Nat
  BY DEF IInv, GraphInv, GraphTypeOK, Ids
<1>2. nodes' = nodes \o ends /\ stageOf' = stageOf \o marks
  BY DEF NewSagaDag
<1>3. marks \in Seq(Nat) /\ Len(marks) = 2 /\ marks[1] = 0 /\ marks[2] = 0
  OBVIOUS
<1>4. ends \in Seq(InternalNodes) /\ Len(ends) = 2
  <2>1. /\ Internal("start", NoName, NoName) \in InternalNodes
        /\ Internal("end", NoName, NoName) \in InternalNodes
    BY LabelsAssumption DEF Internal, InternalNodes, Kinds
  <2>2. QED
    BY <2>1
<1> HIDE DEF marks, ends
<1>5. /\ Len(stageOf \o marks) = N + 2
      /\ \A k \in 1 .. N + 2 : (stageOf \o marks)[k] = IF k <= N THEN stageOf[k] ELSE marks[k - N]
  <2>0. stageOf \in Seq(Nat) /\ marks \in Seq(Nat)
    BY <1>1, <1>3
  <2>1. /\ stageOf \o marks \in Seq(Nat)
        /\ Len(stageOf \o marks) = Len(stageOf) + Len(marks)
        /\ \A k \in 1 .. Len(stageOf) + Len(marks) :
             (stageOf \o marks)[k] = IF k <= Len(stageOf) THEN stageOf[k] ELSE marks[k - Len(stageOf)]
    BY <2>0, ConcatProperties, Zenon
  <2>2. Len(stageOf) = N /\ Len(marks) = 2
    BY <1>1, <1>3
  <2>3. QED
    BY <2>1, <2>2, Zenon
<1>6. Ids' = 1 .. N + 2
  <2>1. nodes \o ends \in Seq(InternalNodes) /\ Len(nodes \o ends) = N + Len(ends)
    BY <1>1, <1>4, ConcatProperties, Zenon
  <2>2. QED
    BY <1>2, <1>4, <2>1 DEF Ids
<1>7. /\ N + 1 \in 1 .. N + 2 /\ ~(N + 1 <= N) /\ N + 1 - N = 1
      /\ N + 2 \in 1 .. N + 2 /\ ~(N + 2 <= N) /\ N + 2 - N = 2
      /\ NextId = N + 1 /\ NextId + 1 = N + 2
  BY <1>1 DEF NextId
<1>8. stageOf'[N + 1] = 0 /\ stageOf'[N + 2] = 0
  <2>1. stageOf'[N + 1] = marks[1]
    BY <1>2, <1>5, <1>7
  <2>2. stageOf'[N + 2] = marks[2]
    BY <1>2, <1>5, <1>7
  <2>3. QED
    BY <1>3, <2>1, <2>2
<1>9. \A n \in Ids : stageOf'[n] = stageOf[n]
  <2>1. \A n \in Ids : n \in 1 .. N + 2 /\ n <= N
    BY <1>1
  <2>2. QED
    BY <1>2, <1>5, <2>1
<1>10. QED
  <2>1. Ids' = Ids \cup {N + 1, N + 2} /\ N + 1 \notin Ids /\ N + 2 \notin Ids /\ N + 1 # N + 2
    BY <1>1, <1>6
  <2>2. QED
    BY <1>1, <1>7, <1>8, <1>9, <2>1

\* Steps only add to the graph: nodes of the next stage, or the ends of a SagaDag.
LEMMA Grows ==
  ASSUME IInv, [Next]_vars
  PROVE  /\ edges \subseteq edges' /\ Ids \subseteq Ids'
         /\ \A n \in Ids : stageOf'[n] = stageOf[n]
         /\ \A n \in Ids' \ Ids : stageOf'[n] \in {0, stages + 1}
         /\ ~NewSagaDag => \A n \in Ids' \ Ids : stageOf'[n] = stages + 1
<1>1. CASE UNCHANGED <<nodes, edges, stageOf>>
  BY <1>1 DEF Ids
<1>2. CASE NewSagaDag
  <2>1. edges \subseteq edges'
    BY <1>2 DEF NewSagaDag
  <2>2. QED
    BY <1>2, <2>1, WrapAdds
<1>3. ASSUME edges \subseteq edges', stageOf' = Append(stageOf, stages + 1),
             \E node : nodes' = Append(nodes, node)
      PROVE  /\ Ids \subseteq Ids' /\ \A n \in Ids : stageOf'[n] = stageOf[n]
             /\ \A n \in Ids' \ Ids : stageOf'[n] = stages + 1
  BY <1>3, Added
<1>4. CASE AddAction \/ AddConstant \/ StartSubsaga
  BY <1>3, <1>4 DEF AddAction, AddConstant, StartSubsaga, AddNode
<1>5. CASE WalkFirst \/ WalkNext
  <2>1. PICK m : Visit(m) \/ VisitPanics(m)
    BY <1>5 DEF WalkFirst, WalkNext
  <2>2. QED
    BY <1>3, <2>1 DEF Visit, VisitPanics, AddNode
<1>6. CASE SubsagaAdded
  BY <1>3, <1>6 DEF SubsagaAdded, AddEnd
<1>7. CASE SubsagaPanics
  <2>1. edges \subseteq edges' /\ (AddEnd(lastAdded) \/ UNCHANGED <<nodes, stageOf>>)
    BY <1>7 DEF SubsagaPanics, AddEnd
  <2>2. CASE AddEnd(lastAdded)
    BY <1>3, <2>1, <2>2 DEF AddEnd
  <2>3. CASE UNCHANGED <<nodes, stageOf>>
    BY <2>1, <2>3 DEF Ids
  <2>4. QED
    BY <2>1, <2>2, <2>3
<1>8. CASE \/ \E stage \in Stages : CallAppend(stage)
           \/ NameTaken \/ StageAdded \/ RejectSubsaga \/ WalkDequeue \/ Build \/ UNCHANGED vars
  BY <1>1, <1>8 DEF CallAppend, NameTaken, StageAdded, RejectSubsaga, WalkDequeue, Build, vars, graphVars
<1>9. QED
  BY <1>2, <1>4, <1>5, <1>6, <1>7, <1>8 DEF Next

\* A node of a stage that is done; a node of the stage that is being added, but for the
\* subsaga that is being copied, whose nodes come last.
Done(n) == 0 < stageOf[n] /\ stageOf[n] <= stages
Settled(n) == stageOf[n] = stages + 1 /\ (pc = "walk" => n < start)

InStage == pc \in {"stage", "walk"}

\* Stages that are done follow each other.
DoneInv ==
  /\ \A n \in Ids : stageOf[n] <= stages + 1
  /\ \A n \in Ids : Done(n) => n \in lastAdded \/ \E l \in lastAdded : Leads(edges, n, l)
  /\ \A m, n \in Ids :
       0 < stageOf[m] /\ stageOf[m] < stageOf[n] /\ stageOf[n] <= stages => Leads(edges, m, n)

\* The stage that is being added comes after the last one, and its nodes lead to those
\* that the next one will come after.
StageInv ==
  InStage =>
    /\ \A n \in Ids : Settled(n) =>
         /\ \A l \in lastAdded : Leads(edges, l, n)
         /\ n \in newNodes \/ \E k \in newNodes : Leads(edges, n, k)
    /\ \A n \in newNodes : Settled(n)
    /\ todo = <<>> => newNodes # {}

\* A subsaga that is being copied comes after the last stage.
LinkInv ==
  pc = "walk" =>
    /\ stageOf[start] = stages + 1 /\ lastAdded \X {start} \subseteq edges
    /\ \A n \in Ids : start <= n => n = start \/ \E m \in DOMAIN copy : n = copy[m]

\* Between the calls no stage is half added.
IdleInv == pc = "idle" => \A n \in Ids : stageOf[n] <= stages

OrderInv == ~broken => DoneInv /\ StageInv /\ LinkInv /\ IdleInv

LEMMA DoneStays ==
  ASSUME IInv, DoneInv, [Next]_vars, UNCHANGED <<stages, lastAdded>>
  PROVE  DoneInv'
<1>1. /\ edges \subseteq edges' /\ Ids \subseteq Ids'
      /\ \A n \in Ids : stageOf'[n] = stageOf[n]
      /\ \A n \in Ids' \ Ids : stageOf'[n] \in {0, stages + 1}
  BY Grows
<1>2. stages \in Nat
  BY DEF IInv, BuilderTypeOK
<1>3. \A n \in Ids' : stageOf'[n] <= stages' + 1
  BY <1>1, <1>2 DEF DoneInv
<1>4. \A n \in Ids' : 0 < stageOf'[n] /\ stageOf'[n] <= stages => n \in Ids
  BY <1>1, <1>2
<1>5. ASSUME NEW n \in Ids', Done(n)'
      PROVE  n \in lastAdded' \/ \E l \in lastAdded' : Leads(edges', n, l)
  <2>1. n \in Ids /\ Done(n)
    BY <1>1, <1>4, <1>5 DEF Done
  <2>2. n \in lastAdded \/ \E l \in lastAdded : Leads(edges, n, l)
    BY <2>1 DEF DoneInv
  <2>3. QED
    BY <1>1, <2>2, LeadsStill
<1>6. ASSUME NEW m \in Ids', NEW n \in Ids',
             0 < stageOf'[m], stageOf'[m] < stageOf'[n], stageOf'[n] <= stages'
      PROVE  Leads(edges', m, n)
  <2>1. stageOf' \in Seq(Nat) /\ Len(stageOf') = Len(nodes') /\ Ids' = 1 .. Len(nodes')
    BY NextIInv DEF IInv, GraphInv, GraphTypeOK, Ids
  <2>2. stageOf'[m] \in Nat /\ stageOf'[n] \in Nat
    BY <2>1
  <2>3. m \in Ids /\ n \in Ids
    BY <1>2, <1>4, <1>6, <2>2
  <2>4. Leads(edges, m, n)
    BY <1>1, <1>6, <2>3 DEF DoneInv
  <2>5. QED
    BY <1>1, <2>4, LeadsStill
<1>7. QED
  BY <1>3, <1>5, <1>6 DEF DoneInv

\* The steps of a builder that has not failed, one by one.
LEMMA CallAppendOrder ==
  ASSUME IInv, OrderInv, ~broken, NEW stage \in Stages, CallAppend(stage)
  PROVE  DoneInv' /\ StageInv' /\ LinkInv' /\ IdleInv'
<1>1. /\ pc = "idle" /\ pc' \in {"idle", "stage"} /\ newNodes' = {}
      /\ pc' = "stage" => todo' # <<>>
      /\ UNCHANGED <<nodes, edges, stageOf, stages, lastAdded>>
  BY DEF CallAppend, graphVars, builderVars
<1>2. /\ \A n \in Ids : stageOf[n] <= stages
      /\ stages \in Nat /\ stageOf \in Seq(Nat) /\ Ids' = Ids /\ Ids = 1 .. Len(stageOf)
  BY <1>1 DEF OrderInv, IdleInv, IInv, BuilderTypeOK, GraphInv, GraphTypeOK, Ids
<1>3. DoneInv'
  BY <1>1, DoneStays DEF OrderInv, Next
<1>4. \A n \in Ids' : ~Settled(n)'
  BY <1>1, <1>2 DEF Settled
<1>5. StageInv'
  BY <1>1, <1>4 DEF StageInv, InStage
<1>6. QED
  BY <1>1, <1>2, <1>3, <1>5 DEF LinkInv, IdleInv

LEMMA FailOrder ==
  ASSUME IInv, OrderInv, ~broken', NameTaken \/ RejectSubsaga
  PROVE  DoneInv' /\ StageInv' /\ LinkInv' /\ IdleInv'
<1>1. /\ pc = "stage" /\ pc' = "idle" /\ ~broken /\ newNodes = {}
      /\ UNCHANGED <<nodes, edges, stageOf, stages, lastAdded>>
  BY DEF NameTaken, RejectSubsaga, Fail, Adding, graphVars, builderVars
<1>2. /\ stages \in Nat /\ stageOf \in Seq(Nat) /\ Ids' = Ids /\ Ids = 1 .. Len(stageOf)
  BY <1>1 DEF IInv, BuilderTypeOK, GraphInv, GraphTypeOK, Ids
<1>3. DoneInv'
  BY <1>1, DoneStays DEF OrderInv, Next
<1>4. \A n \in Ids : stageOf[n] # stages + 1
  BY <1>1 DEF OrderInv, StageInv, InStage, Settled
<1>5. \A n \in Ids : stageOf[n] <= stages
  BY <1>1, <1>2, <1>4 DEF OrderInv, DoneInv
<1>6. QED
  BY <1>1, <1>2, <1>3, <1>5 DEF StageInv, InStage, LinkInv, IdleInv

\* A node of the user.
LEMMA StageNodeOrder ==
  ASSUME IInv, OrderInv, ~broken, pc = "stage", pc' = "stage", NEW node, AddNode(node, lastAdded),
         newNodes' = newNodes \cup {NextId}, UNCHANGED <<stages, lastAdded>>
  PROVE  StageInv'
<1>1. /\ Ids' = Ids \cup {NextId} /\ NextId \notin Ids
      /\ \A n \in Ids : stageOf'[n] = stageOf[n]
      /\ stageOf'[NextId] = stages + 1
  BY Added DEF AddNode
<1>2. edges' = edges \cup (lastAdded \X {NextId})
  BY DEF AddNode
<1>3. newNodes \subseteq Ids
  BY DEF IInv, BuilderTypeOK
<1>4. ASSUME NEW n \in Ids', Settled(n)'
      PROVE  /\ \A l \in lastAdded' : Leads(edges', l, n)
             /\ n \in newNodes' \/ \E k \in newNodes' : Leads(edges', n, k)
  <2>1. CASE n = NextId
    BY <1>2, <2>1, EdgeLeads
  <2>2. CASE n \in Ids
    <3>1. Settled(n)
      BY <1>1, <1>4, <2>2 DEF Settled
    <3>2. /\ \A l \in lastAdded : Leads(edges, l, n)
          /\ n \in newNodes \/ \E k \in newNodes : Leads(edges, n, k)
      BY <2>2, <3>1 DEF OrderInv, StageInv, InStage
    <3>3. QED
      BY <1>2, <3>2, LeadsStill
  <2>3. QED
    BY <1>1, <2>1, <2>2
<1>5. ASSUME NEW n \in newNodes'
      PROVE  Settled(n)'
  <2>1. CASE n = NextId
    BY <1>1, <2>1 DEF Settled
  <2>2. CASE n \in newNodes
    BY <1>1, <1>3, <2>2 DEF Settled, OrderInv, StageInv, InStage
  <2>3. QED
    BY <2>1, <2>2
<1>6. QED
  BY <1>4, <1>5 DEF StageInv

LEMMA UserNodeOrder ==
  ASSUME IInv, OrderInv, ~broken, AddAction \/ AddConstant
  PROVE  DoneInv' /\ StageInv' /\ LinkInv' /\ IdleInv'
<1>1. /\ pc = "stage" /\ pc' = "stage" /\ newNodes' = newNodes \cup {NextId}
      /\ UNCHANGED <<stages, lastAdded>> /\ \E node : AddNode(node, lastAdded)
  BY DEF AddAction, AddConstant, Adding
<1>2. DoneInv'
  BY <1>1, DoneStays DEF OrderInv, Next
<1>3. QED
  BY <1>1, <1>2, StageNodeOrder DEF LinkInv, IdleInv

\* The stage is done.
LEMMA StageAddedOrder ==
  ASSUME IInv, OrderInv, ~broken, StageAdded
  PROVE  DoneInv' /\ StageInv' /\ LinkInv' /\ IdleInv'
<1>1. /\ pc = "stage" /\ pc' = "idle" /\ todo = <<>> /\ lastAdded' = newNodes /\ stages' = stages + 1
      /\ UNCHANGED <<nodes, edges, stageOf>>
  BY DEF StageAdded, graphVars
<1>2. /\ stages \in Nat /\ stageOf \in Seq(Nat) /\ Ids' = Ids /\ Ids = 1 .. Len(stageOf)
      /\ newNodes \subseteq Ids /\ lastAdded \subseteq Ids
  BY <1>1 DEF IInv, BuilderTypeOK, GraphInv, GraphTypeOK, Ids
<1>3. DoneInv /\ StageInv /\ InStage
  BY <1>1 DEF OrderInv, InStage
<1>4. PICK new \in newNodes : Settled(new)
  BY <1>1, <1>3 DEF StageInv
<1>5. ASSUME NEW n \in Ids, stageOf[n] = stages + 1
      PROVE  /\ \A l \in lastAdded : Leads(edges, l, n)
             /\ n \in newNodes \/ \E k \in newNodes : Leads(edges, n, k)
  BY <1>1, <1>3, <1>5 DEF StageInv, Settled
<1>6. \A n \in Ids : stageOf[n] \in Nat /\ stageOf[n] <= stages + 1
  BY <1>2, <1>3 DEF DoneInv
<1>7. ASSUME NEW m \in Ids, NEW n \in Ids, Done(m), stageOf[n] = stages + 1
      PROVE  Leads(edges, m, n)
  <2>1. m \in lastAdded \/ \E l \in lastAdded : Leads(edges, m, l)
    BY <1>3, <1>7 DEF DoneInv
  <2>2. QED
    BY <1>5, <1>7, <2>1, LeadsOn
<1>8. ASSUME NEW n \in Ids, Done(n)'
      PROVE  n \in newNodes \/ \E k \in newNodes : Leads(edges, n, k)
  <2>1. CASE stageOf[n] = stages + 1
    BY <1>5, <2>1
  <2>2. CASE stageOf[n] # stages + 1
    <3>1. Done(n)
      BY <1>1, <1>2, <1>6, <1>8, <2>2 DEF Done
    <3>2. new \in Ids /\ stageOf[new] = stages + 1
      BY <1>2, <1>4 DEF Settled
    <3>3. QED
      BY <1>7, <3>1, <3>2
  <2>3. QED
    BY <2>1, <2>2
<1>9. ASSUME NEW m \in Ids, NEW n \in Ids,
             0 < stageOf[m], stageOf[m] < stageOf[n], stageOf[n] <= stages + 1
      PROVE  Leads(edges, m, n)
  <2>1. CASE stageOf[n] = stages + 1
    BY <1>2, <1>6, <1>7, <1>9, <2>1 DEF Done
  <2>2. CASE stageOf[n] # stages + 1
    <3>1. stageOf[n] <= stages
      BY <1>2, <1>6, <2>2
    <3>2. QED
      BY <1>3, <1>9, <3>1 DEF DoneInv
  <2>3. QED
    BY <2>1, <2>2
<1>10. DoneInv'
  <2>1. \A n \in Ids' : stageOf'[n] <= stages' + 1
    BY <1>1, <1>2, <1>6
  <2>2. QED
    BY <1>1, <1>2, <1>8, <1>9, <2>1 DEF DoneInv
<1>11. QED
  BY <1>1, <1>2, <1>6, <1>10 DEF StageInv, InStage, LinkInv, IdleInv

\* A subsaga's start node comes after the last stage.
LEMMA StartSubsagaOrder ==
  ASSUME IInv, OrderInv, ~broken, StartSubsaga
  PROVE  DoneInv' /\ StageInv' /\ LinkInv' /\ IdleInv'
<1>1. /\ pc = "stage" /\ pc' = "walk" /\ start' = NextId /\ todo # <<>>
      /\ UNCHANGED <<stages, lastAdded, newNodes, todo>>
      /\ \E node : AddNode(node, lastAdded)
  BY DEF StartSubsaga, Adding, stageVars
<1>2. /\ Ids' = Ids \cup {NextId} /\ NextId \notin Ids /\ NextId \in Nat
      /\ \A n \in Ids : stageOf'[n] = stageOf[n] /\ n < NextId
      /\ stageOf'[NextId] = stages + 1 /\ edges' = edges \cup (lastAdded \X {NextId})
  BY <1>1, Added DEF AddNode
<1>3. DoneInv'
  BY <1>1, DoneStays DEF OrderInv, Next
<1>4. \A n \in Ids' : Settled(n)' => n \in Ids /\ Settled(n)
  BY <1>1, <1>2 DEF Settled
<1>5. newNodes \subseteq Ids
  BY DEF IInv, BuilderTypeOK
<1>6. \A n \in newNodes' : Settled(n)'
  BY <1>1, <1>2, <1>5 DEF Settled, OrderInv, StageInv, InStage
<1>7. ASSUME NEW n \in Ids', Settled(n)'
      PROVE  /\ \A l \in lastAdded' : Leads(edges', l, n)
             /\ n \in newNodes' \/ \E k \in newNodes' : Leads(edges', n, k)
  <2>1. /\ \A l \in lastAdded : Leads(edges, l, n)
        /\ n \in newNodes \/ \E k \in newNodes : Leads(edges, n, k)
    BY <1>1, <1>4, <1>7 DEF OrderInv, StageInv, InStage
  <2>2. QED
    BY <1>1, <1>2, <2>1, LeadsStill
<1>8. StageInv'
  BY <1>1, <1>6, <1>7 DEF StageInv
<1>9. LinkInv'
  <2>1. \A n \in Ids' : start' <= n => n = start'
    BY <1>1, <1>2, Added DEF AddNode, Ids
  <2>2. QED
    BY <1>1, <1>2, <2>1 DEF LinkInv
<1>10. QED
  BY <1>1, <1>3, <1>8, <1>9 DEF IdleInv

\* What is copied is not settled yet.
LEMMA VisitOrder ==
  ASSUME IInv, OrderInv, ~broken, NEW m \in Subids, Visit(m), pc = "walk", m \notin DOMAIN copy
  PROVE  StageInv' /\ LinkInv'
<1>1. /\ pc' = "walk" /\ UNCHANGED <<stages, lastAdded, newNodes, todo, start>>
      /\ AddNode(Subdag.nodes[m], {copy[k] : k \in Predecessors(m)})
      /\ copy' = [k \in DOMAIN copy \cup {m} |-> IF k = m THEN NextId ELSE copy[k]]
  BY DEF Visit, Copied, builderVars, stageVars
<1>2. /\ Ids' = Ids \cup {NextId} /\ NextId \notin Ids /\ NextId \in Nat /\ Ids \subseteq Nat
      /\ \A n \in Ids : stageOf'[n] = stageOf[n] /\ n < NextId
      /\ stageOf'[NextId] = stages + 1 /\ edges \subseteq edges'
  BY <1>1, Added DEF AddNode
<1>3. start \in Ids /\ newNodes \subseteq Ids
  BY DEF IInv, WalkTypeOK, BuilderTypeOK
<1>4. \A n \in Ids' : Settled(n)' => n \in Ids /\ Settled(n)
  BY <1>1, <1>2, <1>3 DEF Settled
<1>5. \A n \in newNodes' : Settled(n)'
  BY <1>1, <1>2, <1>3 DEF Settled, OrderInv, StageInv, InStage
<1>6. ASSUME NEW n \in Ids', Settled(n)'
      PROVE  /\ \A l \in lastAdded' : Leads(edges', l, n)
             /\ n \in newNodes' \/ \E k \in newNodes' : Leads(edges', n, k)
  <2>1. /\ \A l \in lastAdded : Leads(edges, l, n)
        /\ n \in newNodes \/ \E k \in newNodes : Leads(edges, n, k)
    BY <1>1, <1>4, <1>6 DEF OrderInv, StageInv, InStage
  <2>2. QED
    BY <1>1, <1>2, <2>1, LeadsStill
<1>7. StageInv'
  <2>1. todo' = <<>> => newNodes' # {}
    BY <1>1 DEF OrderInv, StageInv, InStage
  <2>2. QED
    BY <1>5, <1>6, <2>1 DEF StageInv
<1>8. \A n \in Ids' : start' <= n => n = start' \/ \E k \in DOMAIN copy' : n = copy'[k]
  <2>1. /\ DOMAIN copy' = DOMAIN copy \cup {m} /\ copy'[m] = NextId
        /\ \A k \in DOMAIN copy : copy'[k] = copy[k]
    BY <1>1
  <2>2. QED
    BY <1>1, <1>2, <2>1 DEF OrderInv, LinkInv
<1>9. stageOf'[start'] = stages' + 1 /\ lastAdded' \X {start'} \subseteq edges'
  BY <1>1, <1>2, <1>3 DEF OrderInv, LinkInv
<1>10. QED
  BY <1>7, <1>8, <1>9 DEF LinkInv

LEMMA WalkOrder ==
  ASSUME IInv, OrderInv, ~broken, WalkFirst \/ WalkNext \/ WalkDequeue \/ SubsagaPanics
  PROVE  DoneInv' /\ StageInv' /\ LinkInv' /\ IdleInv'
<1>1. pc = "walk" /\ UNCHANGED <<stages, lastAdded>>
  BY DEF WalkFirst, WalkNext, WalkDequeue, SubsagaPanics, SubsagaLoops, Visit, VisitPanics, Copied, builderVars
<1>2. DoneInv'
  BY <1>1, DoneStays DEF OrderInv, Next
<1>3. CASE WalkFirst \/ WalkNext
  <2>1. PICK m \in Subids \ DOMAIN copy : Visit(m) \/ VisitPanics(m)
    <3>1. CASE WalkFirst
      <4>1. 1 \in Subids /\ 1 \notin DOMAIN copy
        BY <1>1, <3>1, SubgraphNodes DEF WalkFirst
      <4>2. QED
        BY <3>1, <4>1 DEF WalkFirst
    <3>2. CASE WalkNext
      BY <3>2 DEF WalkNext, Successors
    <3>3. QED
      BY <1>3, <3>1, <3>2
  <2>2. CASE Visit(m)
    <3>1. pc' = "walk"
      BY <1>1, <2>2 DEF Visit
    <3>2. QED
      BY <1>1, <1>2, <2>1, <2>2, <3>1, VisitOrder DEF IdleInv
  <2>3. CASE VisitPanics(m)
    BY <1>2, <2>3 DEF VisitPanics, StageInv, InStage, LinkInv, IdleInv
  <2>4. QED
    BY <2>1, <2>2, <2>3
<1>4. CASE WalkDequeue
  <2>1. UNCHANGED <<nodes, edges, stageOf, stages, lastAdded, newNodes, todo, pc, start, copy>>
    BY <1>4 DEF WalkDequeue, graphVars, builderVars, stageVars
  <2>2. QED
    BY <1>1, <1>2, <2>1 DEF OrderInv, StageInv, InStage, LinkInv, IdleInv, Settled, Ids
<1>5. CASE SubsagaPanics
  BY <1>2, <1>5 DEF SubsagaPanics, StageInv, InStage, LinkInv, IdleInv
<1>6. QED
  BY <1>3, <1>4, <1>5

\* In a subsaga whose first and last nodes are reached at all, the first lead to all of its
\* nodes, and all of them to the last.
LeadsThrough(dag) ==
  LET ids == DOMAIN dag.nodes
      roots == DOMAIN dag.firstNodes
      leaves == ToSet(dag.lastNodes)
  IN  roots \cup leaves \subseteq Part(dag) =>
        /\ \A S \in SUBSET ids :
             /\ roots \subseteq S
             /\ \A j, k \in ids : <<j, k>> \in dag.edges /\ j \in S => k \in S
             => S = ids
        /\ \A S \in SUBSET ids :
             /\ leaves \subseteq S
             /\ \A j, k \in ids : <<j, k>> \in dag.edges /\ k \in S => j \in S
             => S = ids

SubsagasLeadThrough == \A u \in Given : u.kind = "subsaga" /\ Accepted(u.dag) => LeadsThrough(u.dag)

\* With its end node, the start node of a subsaga leads to its copies and they to the end.
LEMMA CopiesBetween ==
  ASSUME SubsagasHangTogether, SubsagasLeadThrough, IInv, WalkInv, FromGiven, SubsagaAdded
  PROVE  /\ DOMAIN copy = Subids /\ SubRoots \subseteq Subids /\ SubLeaves \subseteq Subids
         /\ \A m \in Subids : Leads(edges', start, copy[m]) /\ Leads(edges', copy[m], NextId)
<1>1. /\ pc = "walk" /\ queue = <<>> /\ copy # <<>> /\ SubRoots \cup SubLeaves \subseteq DOMAIN copy
      /\ edges' = edges \cup ({start} \X {copy[m] : m \in SubRoots})
                        \cup ((lastAdded \cup {copy[m] : m \in SubLeaves}) \X {NextId})
  BY DEF SubsagaAdded, SubsagaLoops, AddEnd
<1>2. DOMAIN copy = Subids /\ Part(Subdag) = Subids
  BY <1>1, WholeCopied
<1>3. LeadsThrough(Subdag)
  BY <1>1, WalkedIsGiven DEF Subdag, SubsagasLeadThrough
<1>4. /\ \A S \in SUBSET Subids :
           /\ SubRoots \subseteq S
           /\ \A j, k \in Subids : <<j, k>> \in Subdag.edges /\ j \in S => k \in S
           => S = Subids
      /\ \A S \in SUBSET Subids :
           /\ SubLeaves \subseteq S
           /\ \A j, k \in Subids : <<j, k>> \in Subdag.edges /\ k \in S => j \in S
           => S = Subids
  BY <1>1, <1>2, <1>3 DEF LeadsThrough, Subids, SubRoots, SubLeaves
<1>5. \A j, k \in Subids : <<j, k>> \in Subdag.edges => Leads(edges', copy[j], copy[k])
  <2>1. \A j, k \in Subids : <<j, k>> \in Subdag.edges => <<copy[j], copy[k]>> \in edges'
    BY <1>1, <1>2 DEF WalkInv
  <2>2. QED
    BY <2>1, EdgeLeads
<1> DEFINE From == {m \in Subids : Leads(edges', start, copy[m])}
           To == {m \in Subids : Leads(edges', copy[m], NextId)}
<1>6. From = Subids
  <2>1. SubRoots \subseteq From
    <3>1. \A m \in SubRoots : m \in Subids /\ <<start, copy[m]>> \in edges'
      BY <1>1, <1>2
    <3>2. QED
      BY <3>1, EdgeLeads
  <2>2. \A j, k \in Subids : <<j, k>> \in Subdag.edges /\ j \in From => k \in From
    BY <1>5, LeadsOn
  <2>3. From \in SUBSET Subids
    OBVIOUS
  <2> HIDE DEF From
  <2>4. QED
    BY <1>4, <2>1, <2>2, <2>3
<1>7. To = Subids
  <2>1. SubLeaves \subseteq To
    <3>1. \A m \in SubLeaves : m \in Subids /\ <<copy[m], NextId>> \in edges'
      BY <1>1, <1>2
    <3>2. QED
      BY <3>1, EdgeLeads
  <2>2. \A j, k \in Subids : <<j, k>> \in Subdag.edges /\ k \in To => j \in To
    BY <1>5, LeadsOn
  <2>3. To \in SUBSET Subids
    OBVIOUS
  <2> HIDE DEF To
  <2>4. QED
    BY <1>4, <2>1, <2>2, <2>3
<1>8. QED
  BY <1>1, <1>2, <1>6, <1>7

LEMMA SubsagaAddedOrder ==
  ASSUME SubsagasHangTogether, SubsagasLeadThrough, IInv, WalkInv, FromGiven, OrderInv, ~broken, SubsagaAdded
  PROVE  DoneInv' /\ StageInv' /\ LinkInv' /\ IdleInv'
<1>1. /\ pc = "walk" /\ pc' = "stage" /\ newNodes' = newNodes \cup {NextId}
      /\ edges' = edges \cup ({start} \X {copy[m] : m \in SubRoots})
                        \cup ((lastAdded \cup {copy[m] : m \in SubLeaves}) \X {NextId})
      /\ UNCHANGED <<stages, lastAdded>>
      /\ \E node : nodes' = Append(nodes, node)
      /\ stageOf' = Append(stageOf, stages + 1)
  BY DEF SubsagaAdded, SubsagaLoops, AddEnd, builderVars
<1>2. /\ Ids' = Ids \cup {NextId} /\ NextId \notin Ids /\ NextId \in Nat /\ Ids \subseteq Nat
      /\ \A n \in Ids : stageOf'[n] = stageOf[n]
      /\ stageOf'[NextId] = stages + 1
  BY <1>1, Added
<1>3. DoneInv'
  BY <1>1, DoneStays DEF OrderInv, Next
<1>4. /\ StageInv /\ LinkInv /\ InStage /\ newNodes \subseteq Ids /\ start \in Ids
  BY <1>1 DEF OrderInv, InStage, IInv, BuilderTypeOK, WalkTypeOK
<1>5. /\ DOMAIN copy = Subids
      /\ \A m \in Subids : Leads(edges', start, copy[m]) /\ Leads(edges', copy[m], NextId)
  BY CopiesBetween
<1>6. \A l \in lastAdded : Leads(edges', l, start) /\ Leads(edges', l, NextId)
  <2>1. \A l \in lastAdded : <<l, start>> \in edges' /\ <<l, NextId>> \in edges'
    BY <1>1, <1>4 DEF LinkInv
  <2>2. QED
    BY <2>1, EdgeLeads
<1>7. Leads(edges', start, NextId)
  <2>1. 1 \in Subids
    BY <1>1, SubgraphNodes
  <2>2. QED
    BY <1>5, <2>1, LeadsOn
<1>8. ASSUME NEW n \in Ids', Settled(n)'
      PROVE  /\ \A l \in lastAdded' : Leads(edges', l, n)
             /\ n \in newNodes' \/ \E k \in newNodes' : Leads(edges', n, k)
  <2>1. CASE n = NextId
    BY <1>1, <1>6, <2>1
  <2>2. CASE n \in Ids /\ n < start
    <3>1. Settled(n)
      BY <1>1, <1>2, <1>8, <2>2 DEF Settled
    <3>2. /\ \A l \in lastAdded : Leads(edges, l, n)
          /\ n \in newNodes \/ \E k \in newNodes : Leads(edges, n, k)
      BY <1>4, <2>2, <3>1 DEF StageInv
    <3>3. edges \subseteq edges'
      BY <1>1
    <3>4. QED
      BY <1>1, <3>2, <3>3, LeadsStill
  <2>3. CASE n \in Ids /\ ~(n < start)
    <3>1. start <= n
      BY <1>2, <1>4, <2>3
    <3>2. n = start \/ \E m \in DOMAIN copy : n = copy[m]
      BY <1>1, <1>4, <2>3, <3>1 DEF LinkInv
    <3>3. CASE n = start
      BY <1>1, <1>6, <1>7, <3>3
    <3>4. ASSUME NEW m \in Subids, n = copy[m]
          PROVE  /\ \A l \in lastAdded' : Leads(edges', l, n)
                 /\ n \in newNodes' \/ \E k \in newNodes' : Leads(edges', n, k)
      <4>1. \A l \in lastAdded : Leads(edges', l, n)
        BY <1>5, <1>6, <3>4, LeadsOn
      <4>2. QED
        BY <1>1, <1>5, <3>4, <4>1
    <3>5. QED
      BY <1>5, <3>2, <3>3, <3>4
  <2>4. QED
    BY <1>2, <2>1, <2>2, <2>3
<1>9. \A n \in newNodes' : Settled(n)'
  BY <1>1, <1>2, <1>4 DEF Settled, StageInv
<1>10. StageInv'
  BY <1>1, <1>8, <1>9 DEF StageInv
<1>11. QED
  BY <1>1, <1>3, <1>10 DEF LinkInv, IdleInv

LEMMA NextOrderInv ==
  ASSUME SubsagasHangTogether, SubsagasLeadThrough, IInv, WalkInv, FromGiven, OrderInv, [Next]_vars
  PROVE  OrderInv'
<1> USE DEF graphVars, builderVars, stageVars, walkVars, resultVars
<1>1. SUFFICES ASSUME ~broken'
               PROVE  DoneInv' /\ StageInv' /\ LinkInv' /\ IdleInv'
  BY DEF OrderInv
<1>2. CASE NameTaken \/ RejectSubsaga
  BY <1>1, <1>2, FailOrder
<1>3. ASSUME ~NameTaken, ~RejectSubsaga
      PROVE  ~broken
  BY <1>1, <1>3 DEF Next, CallAppend, AddAction, AddConstant, StageAdded, StartSubsaga, WalkFirst,
     WalkNext, Visit, VisitPanics, Copied, WalkDequeue, SubsagaAdded, SubsagaPanics, Build, NewSagaDag, vars
<1>4. ASSUME NEW stage \in Stages, CallAppend(stage), ~broken
      PROVE  DoneInv' /\ StageInv' /\ LinkInv' /\ IdleInv'
  BY <1>4, CallAppendOrder
<1>5. ASSUME AddAction \/ AddConstant \/ StageAdded \/ StartSubsaga, ~broken
      PROVE  DoneInv' /\ StageInv' /\ LinkInv' /\ IdleInv'
  BY <1>5, UserNodeOrder, StageAddedOrder, StartSubsagaOrder
<1>6. ASSUME WalkFirst \/ WalkNext \/ WalkDequeue \/ SubsagaPanics \/ SubsagaAdded, ~broken
      PROVE  DoneInv' /\ StageInv' /\ LinkInv' /\ IdleInv'
  BY <1>6, WalkOrder, SubsagaAddedOrder
<1>7. ASSUME Build \/ UNCHANGED vars, ~broken
      PROVE  DoneInv' /\ StageInv' /\ LinkInv' /\ IdleInv'
  <2>1. UNCHANGED <<nodes, edges, stageOf, stages, lastAdded, newNodes, todo, pc, start, copy>>
    BY <1>7 DEF Build, vars
  <2>2. DoneInv'
    BY <1>7, <2>1, DoneStays DEF OrderInv, Next
  <2>3. QED
    BY <1>7, <2>1, <2>2 DEF OrderInv, StageInv, InStage, LinkInv, IdleInv, Settled, Ids
<1>8. ASSUME NewSagaDag, ~broken
      PROVE  DoneInv' /\ StageInv' /\ LinkInv' /\ IdleInv'
  <2>1. pc = "idle" /\ pc' = "idle" /\ UNCHANGED <<stages, lastAdded>>
    BY <1>8 DEF NewSagaDag
  <2>2. DoneInv'
    BY <1>8, <2>1, DoneStays DEF OrderInv, Next
  <2>3. /\ Ids' = Ids \cup {NextId, NextId + 1} /\ \A n \in Ids : stageOf'[n] = stageOf[n]
        /\ stageOf'[NextId] = 0 /\ stageOf'[NextId + 1] = 0 /\ stages \in Nat
    BY <1>8, WrapAdds DEF IInv, BuilderTypeOK
  <2>4. \A n \in Ids' : stageOf'[n] <= stages'
    BY <1>8, <2>1, <2>3 DEF OrderInv, IdleInv
  <2>5. QED
    BY <2>1, <2>2, <2>4 DEF StageInv, InStage, LinkInv, IdleInv
<1>9. QED
  BY <1>2, <1>3, <1>4, <1>5, <1>6, <1>7, <1>8 DEF Next

AllInv == IInv /\ WalkInv /\ FromGiven /\ OrderInv

LEMMA OrderHolds ==
  ASSUME SubsagasHangTogether, SubsagasLeadThrough
  PROVE  Spec => []AllInv
<1>1. Init => AllInv
  BY InitIInv DEF Init, AllInv, WalkInv, FromGiven, OrderInv, DoneInv, StageInv, InStage, LinkInv, IdleInv, Ids
<1>2. AllInv /\ [Next]_vars => AllInv'
  BY NextIInv, NextWalkInv, NextFromGiven, NextOrderInv DEF AllInv
<1>3. QED
  BY <1>1, <1>2, PTL DEF Spec

\* A stage begins when everything in the stages before it is done, also when one of its
\* nodes is in a subsaga or something before it is, as long as no stage was refused halfway.
THEOREM StagesAreInOrder ==
  ASSUME SubsagasHangTogether, SubsagasLeadThrough
  PROVE  Spec => []StagesInOrder
<1>1. ASSUME AllInv
      PROVE  StagesInOrder
  <2>1. SUFFICES ASSUME ~broken, pc \in {"idle", "stage"}, NEW m \in Ids, NEW n \in Ids,
                        0 < stageOf[m], stageOf[m] < stageOf[n]
                 PROVE  n \in Dependents[m]
    BY DEF StagesInOrder
  <2>2. /\ IInv /\ DoneInv /\ StageInv /\ IdleInv
        /\ stages \in Nat /\ stageOf[m] \in Nat /\ stageOf[n] \in Nat /\ stageOf[n] <= stages + 1
    BY <1>1, <2>1 DEF AllInv, OrderInv, IInv, GraphInv, GraphTypeOK, BuilderTypeOK, DoneInv, Ids
  <2>3. CASE stageOf[n] <= stages
    <3>1. Leads(edges, m, n)
      BY <2>1, <2>2, <2>3 DEF DoneInv
    <3>2. QED
      BY <2>2, <3>1, LedAreDependents
  <2>4. CASE ~(stageOf[n] <= stages)
    <3>1. stageOf[n] = stages + 1 /\ pc = "stage" /\ Done(m)
      BY <2>1, <2>2, <2>4 DEF IdleInv, Done
    <3>2. \A l \in lastAdded : Leads(edges, l, n)
      BY <2>2, <3>1 DEF StageInv, InStage, Settled
    <3>3. m \in lastAdded \/ \E l \in lastAdded : Leads(edges, m, l)
      BY <2>2, <3>1 DEF DoneInv
    <3>4. Leads(edges, m, n)
      BY <3>2, <3>3, LeadsOn
    <3>5. QED
      BY <2>2, <3>4, LedAreDependents
  <2>5. QED
    BY <2>3, <2>4
<1>2. QED
  BY <1>1, OrderHolds, PTL
----------------------------------------------------------------------------
(* First and last nodes *)

\* What is led to has an edge to it, and what leads an edge from it.
LEMMA LeadsByEdges ==
  ASSUME NEW graph, NEW m, NEW n, Leads(graph, m, n)
  PROVE  (\E e \in graph : e[2] = n) /\ (\E e \in graph : e[1] = m)
<1>1. \E e \in graph : e[2] = n
  <2> DEFINE S == {e[2] : e \in graph}
  <2>1. n \in S
    BY DEF Leads
  <2>2. QED
    BY <2>1
<1>2. \E e \in graph : e[1] = m
  <2>1. SUFFICES ASSUME \A e \in graph : e[1] # m
                 PROVE  FALSE
    OBVIOUS
  <2>2. \A e \in graph : e[1] = m \/ e[1] \in {} => e[2] \in {}
    BY <2>1
  <2>3. {} \in SUBSET {e[2] : e \in graph}
    OBVIOUS
  <2>4. n \in {}
    BY <2>2, <2>3, Zenon DEF Leads
  <2>5. QED
    BY <2>4
<1>3. QED
  BY <1>1, <1>2

\* The first stage, before which nothing can be added to the graph, holds no subsaga, as long
\* as no stage was refused halfway.  The code takes one there only when the name of its
\* parameters node is its own, is that of a node before it in the stage, or was left by a
\* subsaga that was refused.
SubsagasComeLater == ~broken /\ pc = "walk" => 0 < stages

\* Until a stage is done there is no edge.
NoneYet ==
  stages = 0 =>
    /\ firstAdded = {} /\ lastAdded = {} /\ edges = {}
    /\ pc = "stage" => newNodes = Ids
    /\ pc = "idle" => Ids = {}

\* From then on firstAdded holds the first stage, and the start nodes of SagaDags lead to
\* it; no other node but the ends of SagaDags is of no stage.
FirstAreFirst ==
  /\ 0 < stages => firstAdded = {n \in Ids : stageOf[n] = 1} /\ firstAdded # {} /\ lastAdded # {}
  /\ \A n \in lastAdded : Done(n)
  /\ built # NoDag => built.firstNodes = firstAdded /\ firstAdded # {}
  /\ sagaDags # <<>> => firstAdded # {}
  /\ \A i \in 1 .. Len(sagaDags) : {sagaDags[i].startNode} \X firstAdded \subseteq edges
  /\ \A n \in Ids : stageOf[n] = 0 =>
       \E i \in 1 .. Len(sagaDags) : n \in {sagaDags[i].startNode, sagaDags[i].endNode}

\* Without a SagaDag no edge leads to the first stage, from the last only one to the stage
\* that is being added, and from what will be the last none at all.
EdgesBetween ==
  /\ pc = "walk" => \A m \in DOMAIN copy : stageOf[copy[m]] = stages + 1
  /\ pc # "panicked" /\ sagaDags = <<>> =>
       \A e \in edges :
         /\ stageOf[e[2]] # 1
         /\ e[1] \in lastAdded => stageOf[e[2]] = stages + 1
         /\ InStage => e[1] \notin newNodes

EndsInv == ~broken => NoneYet /\ FirstAreFirst /\ EdgesBetween

\* A step that adds to a stage which is not the first.
LEMMA FirstKept ==
  ASSUME IInv, FirstAreFirst, 0 < stages, [Next]_vars, ~NewSagaDag, ~Build, ~StageAdded
  PROVE  NoneYet' /\ FirstAreFirst'
<1>1. /\ edges \subseteq edges' /\ Ids \subseteq Ids'
      /\ \A n \in Ids : stageOf'[n] = stageOf[n]
      /\ \A n \in Ids' \ Ids : stageOf'[n] = stages + 1
      /\ UNCHANGED <<stages, firstAdded, lastAdded, built, sagaDags>>
  <2> USE DEF graphVars, builderVars, stageVars, walkVars, resultVars
  <2>1. UNCHANGED <<stages, firstAdded, lastAdded, built, sagaDags>>
    BY DEF Next, CallAppend, NameTaken, AddAction, AddConstant, RejectSubsaga, StartSubsaga, WalkFirst,
       WalkNext, Visit, VisitPanics, Copied, WalkDequeue, SubsagaAdded, SubsagaPanics, vars
  <2>2. QED
    BY <2>1, Grows
<1>2. firstAdded' = {n \in Ids' : stageOf'[n] = 1} /\ firstAdded' # {} /\ lastAdded' # {}
  <2>1. stages \in Nat
    BY DEF IInv, BuilderTypeOK
  <2>2. QED
    BY <1>1, <2>1 DEF FirstAreFirst
<1>3. \A n \in lastAdded' : Done(n)'
  BY <1>1 DEF FirstAreFirst, Done, IInv, BuilderTypeOK
<1>4. \A n \in Ids' : stageOf'[n] = 0 =>
        \E i \in 1 .. Len(sagaDags') : n \in {sagaDags'[i].startNode, sagaDags'[i].endNode}
  <2>1. \A n \in Ids' : stageOf'[n] = 0 => n \in Ids /\ stageOf[n] = 0
    BY <1>1 DEF IInv, BuilderTypeOK
  <2>2. \A n \in Ids : stageOf[n] = 0 =>
          \E i \in 1 .. Len(sagaDags) : n \in {sagaDags[i].startNode, sagaDags[i].endNode}
    BY DEF FirstAreFirst
  <2>3. QED
    BY <1>1, <2>1, <2>2
<1>5. \A i \in 1 .. Len(sagaDags') : {sagaDags'[i].startNode} \X firstAdded' \subseteq edges'
  <2>1. \A i \in 1 .. Len(sagaDags) : {sagaDags[i].startNode} \X firstAdded \subseteq edges'
    BY <1>1, Zenon DEF FirstAreFirst
  <2>2. QED
    BY <1>1, <2>1
<1>6. QED
  BY <1>1, <1>2, <1>3, <1>4, <1>5 DEF FirstAreFirst, NoneYet

\* The steps that leave the graph alone, and those of the first stage.
LEMMA QuietEnds ==
  ASSUME IInv, EndsInv, ~broken', OrderInv,
         \/ \E stage \in Stages : CallAppend(stage)
         \/ NameTaken \/ RejectSubsaga \/ Build \/ WalkDequeue \/ UNCHANGED vars
  PROVE  NoneYet' /\ FirstAreFirst' /\ EdgesBetween'
<1> USE DEF graphVars, builderVars, stageVars, walkVars, resultVars
<1>1. /\ UNCHANGED <<nodes, edges, stageOf, stages, firstAdded, lastAdded, sagaDags>>
      /\ ~broken
      /\ pc' = "walk" => pc = "walk" /\ UNCHANGED copy
  <2>1. CASE \E stage \in Stages : CallAppend(stage)
    BY <2>1 DEF CallAppend
  <2>2. CASE NameTaken \/ RejectSubsaga
    BY <2>2 DEF NameTaken, RejectSubsaga, Fail
  <2>3. CASE Build \/ WalkDequeue \/ UNCHANGED vars
    BY <2>3 DEF Build, WalkDequeue, vars
  <2>4. QED
    BY <2>1, <2>2, <2>3
<1>2. NoneYet /\ FirstAreFirst /\ EdgesBetween /\ Ids' = Ids /\ newNodes \subseteq Ids
  BY <1>1 DEF EndsInv, Ids, IInv, BuilderTypeOK
<1>3. built' \in {built, NoDag} \/ (built' = [firstNodes |-> firstAdded, lastNodes |-> lastAdded] /\ firstAdded # {})
  BY DEF CallAppend, NameTaken, RejectSubsaga, Build, WalkDequeue, vars
<1>4. FirstAreFirst'
  <2>1. built' # NoDag => built'.firstNodes = firstAdded /\ firstAdded # {}
    BY <1>2, <1>3 DEF FirstAreFirst
  <2>2. \A n \in lastAdded' : Done(n)'
    BY <1>1, <1>2 DEF FirstAreFirst, Done
  <2>3. QED
    BY <1>1, <1>2, <2>1, <2>2 DEF FirstAreFirst
<1>5. \/ newNodes' = {} /\ newNodes = {} /\ pc = "stage" /\ pc' = "idle"
      \/ newNodes' = {} /\ pc = "idle" /\ pc' \in {"idle", "stage"}
      \/ newNodes' = newNodes /\ pc' = pc
  BY <1>1 DEF CallAppend, NameTaken, RejectSubsaga, Fail, Adding, Build, WalkDequeue, vars
<1>6. NoneYet'
  BY <1>1, <1>2, <1>5 DEF NoneYet
<1>7. EdgesBetween'
  BY <1>1, <1>2, <1>5 DEF EdgesBetween, InStage
<1>8. QED
  BY <1>4, <1>6, <1>7

LEMMA UserNodeEnds ==
  ASSUME IInv, EndsInv, OrderInv, ~broken, AddAction \/ AddConstant
  PROVE  NoneYet' /\ FirstAreFirst' /\ EdgesBetween'
<1>1. /\ pc = "stage" /\ pc' = "stage" /\ newNodes' = newNodes \cup {NextId}
      /\ UNCHANGED <<stages, firstAdded, lastAdded, built, sagaDags>>
      /\ edges' = edges \cup (lastAdded \X {NextId})
      /\ stageOf' = Append(stageOf, stages + 1) /\ \E node : nodes' = Append(nodes, node)
  BY DEF AddAction, AddConstant, Adding, AddNode, resultVars
<1>2. /\ Ids' = Ids \cup {NextId} /\ NextId \notin Ids
      /\ \A n \in Ids : stageOf'[n] = stageOf[n]
      /\ stageOf'[NextId] = stages + 1 /\ stages \in Nat
  BY <1>1, Added
<1>3. /\ NoneYet /\ FirstAreFirst /\ EdgesBetween
      /\ edges \subseteq Ids \X Ids /\ newNodes \subseteq Ids /\ lastAdded \subseteq Ids
      /\ \A n \in newNodes : stageOf[n] = stages + 1
      /\ \A n \in Ids : stageOf[n] \in Nat
  BY <1>1 DEF EndsInv, IInv, GraphInv, GraphTypeOK, BuilderTypeOK, OrderInv, StageInv, InStage, Settled, Ids
<1>4. NoneYet' /\ FirstAreFirst'
  <2>1. CASE stages = 0
    <3>1. /\ firstAdded = {} /\ lastAdded = {} /\ edges = {} /\ newNodes = Ids
          /\ sagaDags = <<>> /\ built = NoDag
      BY <1>1, <1>3, <2>1 DEF NoneYet, FirstAreFirst
    <3>2. NoneYet'
      BY <1>1, <1>2, <2>1, <3>1 DEF NoneYet
    <3>3. \A n \in Ids' : stageOf'[n] # 0
      BY <1>2, <1>3, <2>1, <3>1
    <3>4. sagaDags' = <<>> /\ 1 .. Len(sagaDags') = {} /\ lastAdded' = {} /\ ~(0 < stages')
      BY <1>1, <2>1, <3>1
    <3>5. QED
      BY <1>1, <3>1, <3>2, <3>3, <3>4 DEF FirstAreFirst
  <2>2. CASE 0 < stages
    <3>1. ~NewSagaDag /\ ~Build /\ ~StageAdded
      BY DEF AddAction, AddConstant, Adding, NewSagaDag, Build, StageAdded
    <3>2. QED
      BY <1>3, <2>2, <3>1, FirstKept DEF Next
  <2>3. QED
    BY <1>2, <2>1, <2>2
<1>5. EdgesBetween'
  <2>1. ASSUME sagaDags' = <<>>, NEW e \in edges'
        PROVE  /\ stageOf'[e[2]] # 1
               /\ e[1] \in lastAdded' => stageOf'[e[2]] = stages' + 1
               /\ e[1] \notin newNodes'
    <3>1. CASE e \in edges
      BY <1>1, <1>2, <1>3, <2>1, <3>1 DEF EdgesBetween, InStage
    <3>2. CASE e \in lastAdded \X {NextId}
      <4>1. e[1] \in lastAdded /\ e[2] = NextId /\ Done(e[1])
        BY <1>3, <3>2 DEF FirstAreFirst
      <4>2. stages # 0 /\ stageOf[e[1]] # stages + 1
        BY <1>2, <1>3, <4>1 DEF Done
      <4>3. stageOf'[e[2]] = stages + 1 /\ stages + 1 # 1
        BY <1>2, <4>1, <4>2
      <4>4. e[1] # NextId /\ e[1] \notin newNodes
        BY <1>2, <1>3, <4>1, <4>2
      <4>5. QED
        BY <1>1, <4>3, <4>4
    <3>3. QED
      BY <1>1, <3>1, <3>2
  <2>2. QED
    BY <1>1, <2>1 DEF EdgesBetween
<1>6. QED
  BY <1>4, <1>5

LEMMA StageAddedEnds ==
  ASSUME IInv, EndsInv, OrderInv, ~broken, StageAdded
  PROVE  NoneYet' /\ FirstAreFirst' /\ EdgesBetween'
<1>1. /\ pc = "stage" /\ pc' = "idle" /\ todo = <<>> /\ lastAdded' = newNodes /\ stages' = stages + 1
      /\ firstAdded' = IF firstAdded = {} THEN newNodes ELSE firstAdded
      /\ UNCHANGED <<nodes, edges, stageOf, built, sagaDags>>
  BY DEF StageAdded, graphVars
<1>2. /\ NoneYet /\ FirstAreFirst /\ EdgesBetween /\ Ids' = Ids /\ newNodes \subseteq Ids
      /\ stages \in Nat /\ newNodes # {} /\ \A n \in newNodes : stageOf[n] = stages + 1
  BY <1>1 DEF EndsInv, IInv, BuilderTypeOK, OrderInv, StageInv, InStage, Settled, Ids
<1>3. firstAdded' = {n \in Ids : stageOf[n] = 1} /\ firstAdded' # {}
  <2>1. CASE stages = 0
    BY <1>1, <1>2, <2>1 DEF NoneYet
  <2>2. CASE 0 < stages
    BY <1>1, <1>2, <2>2 DEF FirstAreFirst
  <2>3. QED
    BY <1>2, <2>1, <2>2
<1>4. \A n \in lastAdded' : Done(n)'
  BY <1>1, <1>2 DEF Done
<1>5. FirstAreFirst'
  <2>1. firstAdded # {} => firstAdded' = firstAdded
    BY <1>1
  <2>2. built' # NoDag => built'.firstNodes = firstAdded' /\ firstAdded' # {}
    BY <1>1, <1>2, <2>1 DEF FirstAreFirst
  <2>3. \A i \in 1 .. Len(sagaDags') : {sagaDags'[i].startNode} \X firstAdded' \subseteq edges'
    <3>1. sagaDags = <<>> => 1 .. Len(sagaDags) = {}
      OBVIOUS
    <3>2. QED
      BY <1>1, <1>2, <2>1, <3>1 DEF FirstAreFirst
  <2>4. QED
    BY <1>1, <1>2, <1>3, <1>4, <2>2, <2>3 DEF FirstAreFirst
<1>6. EdgesBetween'
  BY <1>1, <1>2 DEF EdgesBetween, InStage
<1>7. NoneYet'
  BY <1>1, <1>2 DEF NoneYet
<1>8. QED
  BY <1>5, <1>6, <1>7

\* A subsaga that is not of the first stage.
LEMMA WalkingEnds ==
  ASSUME IInv, EndsInv, OrderInv, ~broken, 0 < stages, ~broken',
         StartSubsaga \/ WalkFirst \/ WalkNext \/ SubsagaAdded \/ SubsagaPanics
  PROVE  NoneYet' /\ FirstAreFirst' /\ EdgesBetween'
<1> USE DEF graphVars, builderVars, stageVars, walkVars, resultVars
<1>1. NoneYet' /\ FirstAreFirst'
  <2>1. ~NewSagaDag /\ ~Build /\ ~StageAdded
    BY DEF StartSubsaga, Adding, WalkFirst, WalkNext, SubsagaAdded, SubsagaPanics, SubsagaLoops,
           NewSagaDag, Build, StageAdded
  <2>2. QED
    BY <2>1, FirstKept DEF EndsInv, Next
<1>2. /\ FirstAreFirst /\ EdgesBetween /\ InStage
      /\ edges \subseteq Ids \X Ids /\ newNodes \subseteq Ids /\ lastAdded \subseteq Ids /\ Ids \subseteq Nat
      /\ stages \in Nat /\ \A n \in Ids : stageOf[n] \in Nat
      /\ \A n \in newNodes : Settled(n)
      /\ \A n \in lastAdded : stageOf[n] # stages + 1
  <2>1. /\ FirstAreFirst /\ EdgesBetween /\ InStage /\ StageInv
    BY DEF EndsInv, OrderInv, InStage, StartSubsaga, Adding, WalkFirst, WalkNext, SubsagaAdded,
           SubsagaPanics, SubsagaLoops
  <2>2. /\ edges \subseteq Ids \X Ids /\ newNodes \subseteq Ids /\ lastAdded \subseteq Ids /\ Ids \subseteq Nat
        /\ stages \in Nat /\ \A n \in Ids : stageOf[n] \in Nat
    BY DEF IInv, GraphInv, GraphTypeOK, BuilderTypeOK, Ids
  <2>3. \A n \in lastAdded : stageOf[n] # stages + 1
    BY <2>1, <2>2 DEF FirstAreFirst, Done
  <2>4. \A n \in newNodes : Settled(n)
    BY <2>1 DEF StageInv
  <2>5. QED
    BY <2>1, <2>2, <2>3, <2>4
<1>3. CASE StartSubsaga
  <2>1. /\ UNCHANGED <<stages, lastAdded, newNodes, sagaDags>> /\ copy' = <<>>
        /\ edges' = edges \cup (lastAdded \X {NextId})
        /\ stageOf' = Append(stageOf, stages + 1) /\ \E node : nodes' = Append(nodes, node)
        /\ pc = "stage"
    BY <1>3 DEF StartSubsaga, Adding, AddNode
  <2>2. /\ NextId \notin Ids /\ \A n \in Ids : stageOf'[n] = stageOf[n]
        /\ stageOf'[NextId] = stages + 1
    BY <2>1, Added
  <2>3. ASSUME sagaDags' = <<>>, NEW e \in edges'
        PROVE  /\ stageOf'[e[2]] # 1
               /\ e[1] \in lastAdded' => stageOf'[e[2]] = stages' + 1
               /\ InStage' => e[1] \notin newNodes'
    <3>1. CASE e \in edges
      BY <1>2, <2>1, <2>2, <2>3, <3>1 DEF EdgesBetween
    <3>2. CASE e \in lastAdded \X {NextId}
      <4>1. e[1] \in lastAdded /\ e[2] = NextId /\ stageOf[e[1]] # stages + 1
        BY <1>2, <3>2
      <4>2. e[1] \notin newNodes
        BY <1>2, <4>1 DEF Settled
      <4>3. e[1] # NextId
        BY <1>2, <2>2, <4>1
      <4>4. stages + 1 # 1
        BY <1>2
      <4>5. QED
        BY <2>1, <2>2, <4>1, <4>2, <4>3, <4>4
    <3>3. QED
      BY <2>1, <3>1, <3>2
  <2>4. \A m \in DOMAIN copy' : stageOf'[copy'[m]] = stages' + 1
    BY <2>1
  <2>5. QED
    BY <1>1, <2>3, <2>4 DEF EdgesBetween
<1>4. ASSUME pc = "walk"
      PROVE  /\ start \in Ids /\ stageOf[start] = stages + 1
             /\ start \notin lastAdded /\ start \notin newNodes
             /\ \A k \in DOMAIN copy : /\ copy[k] \in Ids /\ stageOf[copy[k]] = stages + 1
                                       /\ copy[k] \notin lastAdded /\ copy[k] \notin newNodes
  <2>1. /\ start \in Ids /\ stageOf[start] = stages + 1
        /\ \A k \in DOMAIN copy : copy[k] \in Ids /\ start < copy[k] /\ stageOf[copy[k]] = stages + 1
    BY <1>2, <1>4 DEF EdgesBetween, IInv, WalkTypeOK, CopiesPlain, OrderInv, LinkInv
  <2>2. \A n \in newNodes : n < start
    BY <1>2, <1>4 DEF Settled
  <2>3. ASSUME NEW n \in Ids, start <= n
        PROVE  n \notin newNodes
    <3>1. SUFFICES ASSUME n < start
                   PROVE  FALSE
      BY <2>2
    <3>2. n \in Nat /\ start \in Nat
      BY <1>2, <2>1
    <3>3. QED
      BY <2>3, <3>1, <3>2
  <2>4. \A k \in DOMAIN copy : start <= copy[k]
    <3>1. \A k \in DOMAIN copy : copy[k] \in Nat /\ start \in Nat
      BY <1>2, <2>1
    <3>2. QED
      BY <2>1, <3>1
  <2>5. start <= start
    BY <1>2, <2>1
  <2>6. start \notin newNodes /\ \A k \in DOMAIN copy : copy[k] \notin newNodes
    BY <2>1, <2>3, <2>4, <2>5
  <2>7. QED
    BY <1>2, <2>1, <2>6
<1>5. stages + 1 # 1
  BY <1>2
<1>6. CASE WalkFirst \/ WalkNext
  <2>1. PICK m : pc = "walk" /\ (Visit(m) \/ VisitPanics(m))
    BY <1>6 DEF WalkFirst, WalkNext
  <2>2. /\ Copied(m)
        /\ \E known \in SUBSET (DOMAIN copy) : AddNode(Subdag.nodes[m], {copy[k] : k \in known})
    BY <2>1 DEF Visit, VisitPanics
  <2>3. PICK known \in SUBSET (DOMAIN copy) : AddNode(Subdag.nodes[m], {copy[k] : k \in known})
    BY <2>2
  <2>4. /\ UNCHANGED <<stages, lastAdded, newNodes, sagaDags>>
        /\ edges' = edges \cup ({copy[k] : k \in known} \X {NextId})
        /\ stageOf' = Append(stageOf, stages + 1) /\ \E node : nodes' = Append(nodes, node)
        /\ copy' = [k \in DOMAIN copy \cup {m} |-> IF k = m THEN NextId ELSE copy[k]]
    BY <2>2, <2>3 DEF AddNode, Copied
  <2>5. /\ NextId \notin Ids /\ \A n \in Ids : stageOf'[n] = stageOf[n]
        /\ stageOf'[NextId] = stages + 1
    BY <2>4, Added
  <2>6. ASSUME sagaDags' = <<>>, NEW e \in edges'
        PROVE  /\ stageOf'[e[2]] # 1
               /\ e[1] \in lastAdded' => stageOf'[e[2]] = stages' + 1
               /\ e[1] \notin newNodes'
    <3>1. CASE e \in edges
      <4>1. /\ e[1] \in Ids /\ e[2] \in Ids /\ stageOf[e[2]] # 1 /\ e[1] \notin newNodes
            /\ e[1] \in lastAdded => stageOf[e[2]] = stages + 1
        BY <1>2, <2>1, <2>4, <2>6, <3>1 DEF EdgesBetween
      <4>2. QED
        BY <2>4, <2>5, <4>1
    <3>2. CASE e \in {copy[k] : k \in known} \X {NextId}
      <4>1. e[2] = NextId /\ \E k \in DOMAIN copy : e[1] = copy[k]
        BY <3>2
      <4>2. e[1] \notin newNodes
        BY <1>4, <2>1, <4>1
      <4>3. QED
        BY <1>5, <2>4, <2>5, <4>1, <4>2
    <3>3. QED
      BY <2>4, <3>1, <3>2
  <2>7. \A k \in DOMAIN copy' : stageOf'[copy'[k]] = stages' + 1
    BY <1>4, <2>1, <2>4, <2>5
  <2>8. QED
    BY <1>1, <2>6, <2>7 DEF EdgesBetween
<1>7. CASE SubsagaAdded
  <2>1. /\ pc = "walk" /\ pc' = "stage" /\ SubRoots \cup SubLeaves \subseteq DOMAIN copy
        /\ edges' = edges \cup ({start} \X {copy[k] : k \in SubRoots})
                          \cup ((lastAdded \cup {copy[k] : k \in SubLeaves}) \X {NextId})
        /\ UNCHANGED <<stages, lastAdded, sagaDags, copy>> /\ newNodes' = newNodes \cup {NextId}
        /\ stageOf' = Append(stageOf, stages + 1) /\ \E node : nodes' = Append(nodes, node)
    BY <1>7 DEF SubsagaAdded, SubsagaLoops, AddEnd
  <2>2. /\ NextId \notin Ids /\ \A n \in Ids : stageOf'[n] = stageOf[n]
        /\ stageOf'[NextId] = stages + 1
    BY <2>1, Added
  <2>3. ASSUME sagaDags' = <<>>, NEW e \in edges'
        PROVE  /\ stageOf'[e[2]] # 1
               /\ e[1] \in lastAdded' => stageOf'[e[2]] = stages' + 1
               /\ e[1] \notin newNodes'
    <3>1. CASE e \in edges
      BY <1>2, <2>1, <2>2, <2>3, <3>1 DEF EdgesBetween
    <3>2. CASE e \in {start} \X {copy[k] : k \in SubRoots}
      <4>1. e[1] = start /\ \E k \in DOMAIN copy : e[2] = copy[k]
        BY <2>1, <3>2
      <4>2. stageOf'[e[2]] = stages + 1
        BY <1>4, <2>1, <2>2, <4>1
      <4>3. start \notin newNodes /\ start # NextId
        BY <1>4, <2>1, <2>2
      <4>4. QED
        BY <1>5, <2>1, <4>1, <4>2, <4>3
    <3>3. CASE e \in (lastAdded \cup {copy[k] : k \in SubLeaves}) \X {NextId}
      <4>1. e[2] = NextId /\ (e[1] \in lastAdded \/ \E k \in DOMAIN copy : e[1] = copy[k])
        BY <2>1, <3>3
      <4>2. \A n \in lastAdded : n \notin newNodes /\ n # NextId
        BY <1>2, <2>2 DEF Settled
      <4>3. \A k \in DOMAIN copy : copy[k] \notin newNodes /\ copy[k] # NextId
        BY <1>4, <2>1, <2>2
      <4>4. QED
        BY <1>5, <2>1, <2>2, <4>1, <4>2, <4>3
    <3>4. QED
      BY <2>1, <3>1, <3>2, <3>3
  <2>4. QED
    BY <1>1, <2>1, <2>3 DEF EdgesBetween
<1>8. CASE SubsagaPanics
  BY <1>1, <1>8 DEF SubsagaPanics, EdgesBetween
<1>9. QED
  BY <1>3, <1>6, <1>7, <1>8

LEMMA WrapEnds ==
  ASSUME IInv, EndsInv, ~broken, NewSagaDag
  PROVE  NoneYet' /\ FirstAreFirst' /\ EdgesBetween'
<1> DEFINE ends == [startNode |-> NextId, endNode |-> NextId + 1]
           L == Len(sagaDags)
<1>1. /\ pc = "idle" /\ pc' = "idle" /\ built # NoDag
      /\ UNCHANGED <<stages, firstAdded, lastAdded, built, newNodes>>
      /\ sagaDags' = Append(sagaDags, ends)
      /\ edges \subseteq edges' /\ {NextId} \X built.firstNodes \subseteq edges'
  BY DEF NewSagaDag, builderVars, stageVars
<1>2. /\ Ids' = Ids \cup {NextId, NextId + 1} /\ \A n \in Ids : stageOf'[n] = stageOf[n]
      /\ stageOf'[NextId] = 0 /\ stageOf'[NextId + 1] = 0
  BY WrapAdds
<1>3. /\ NoneYet /\ FirstAreFirst /\ lastAdded \subseteq Ids /\ stages \in Nat
      /\ built.firstNodes = firstAdded /\ firstAdded # {}
  BY <1>1 DEF EndsInv, FirstAreFirst, IInv, BuilderTypeOK
<1>4. 0 < stages
  BY <1>3 DEF NoneYet
<1>5. /\ L \in Nat /\ 1 .. Len(sagaDags') = 1 .. L + 1 /\ sagaDags' # <<>>
      /\ \A i \in 1 .. L : sagaDags'[i] = sagaDags[i] /\ i \in 1 .. L + 1
      /\ sagaDags'[L + 1] = ends /\ L + 1 \in 1 .. L + 1
      /\ \A i \in 1 .. L + 1 : i \in 1 .. L \/ i = L + 1
  <2>1. sagaDags \in Seq([startNode : Ids, endNode : Ids])
    BY DEF IInv, ControlTypeOK
  <2> HIDE DEF ends
  <2>2. QED
    BY <1>1, <2>1
<1>6. ends.startNode = NextId /\ ends.endNode = NextId + 1
  OBVIOUS
<1> HIDE DEF ends, L
<1>7. firstAdded' = {n \in Ids' : stageOf'[n] = 1} /\ firstAdded' # {} /\ lastAdded' # {}
  BY <1>1, <1>2, <1>3, <1>4 DEF FirstAreFirst
<1>8. \A n \in lastAdded' : Done(n)'
  BY <1>1, <1>2, <1>3 DEF FirstAreFirst, Done
<1>9. ASSUME NEW i \in 1 .. L + 1
      PROVE  {sagaDags'[i].startNode} \X firstAdded \subseteq edges'
  <2>1. CASE i \in 1 .. L
    <3>1. {sagaDags[i].startNode} \X firstAdded \subseteq edges
      BY <1>3, <2>1 DEF FirstAreFirst, L
    <3>2. QED
      BY <1>1, <1>5, <2>1, <3>1
  <2>2. CASE i = L + 1
    BY <1>1, <1>3, <1>5, <1>6, <2>2
  <2>3. QED
    BY <1>5, <2>1, <2>2
<1>10. ASSUME NEW n \in Ids', stageOf'[n] = 0
       PROVE  \E i \in 1 .. L + 1 : n \in {sagaDags'[i].startNode, sagaDags'[i].endNode}
  <2>1. CASE n \in Ids
    <3>1. PICK i \in 1 .. L : n \in {sagaDags[i].startNode, sagaDags[i].endNode}
      BY <1>2, <1>3, <1>10, <2>1 DEF FirstAreFirst, L
    <3>2. QED
      BY <1>5, <3>1
  <2>2. CASE n \in {NextId, NextId + 1}
    BY <1>5, <1>6, <2>2
  <2>3. QED
    BY <1>2, <2>1, <2>2
<1>11. FirstAreFirst'
  BY <1>1, <1>3, <1>5, <1>7, <1>8, <1>9, <1>10 DEF FirstAreFirst
<1>12. QED
  BY <1>1, <1>4, <1>5, <1>11 DEF NoneYet, EdgesBetween

LEMMA NextEndsInv ==
  ASSUME IInv, OrderInv, EndsInv, SubsagasComeLater, SubsagasComeLater', [Next]_vars
  PROVE  EndsInv'
<1> USE DEF graphVars, builderVars, stageVars, walkVars, resultVars
<1>1. SUFFICES ASSUME ~broken'
               PROVE  NoneYet' /\ FirstAreFirst' /\ EdgesBetween'
  BY DEF EndsInv
<1>2. CASE \/ \E stage \in Stages : CallAppend(stage)
           \/ NameTaken \/ RejectSubsaga \/ Build \/ WalkDequeue \/ UNCHANGED vars
  BY <1>1, <1>2, QuietEnds
<1>3. CASE AddAction \/ AddConstant
  <2>1. ~broken
    BY <1>1, <1>3 DEF AddAction, AddConstant
  <2>2. QED
    BY <1>3, <2>1, UserNodeEnds
<1>4. CASE StageAdded
  <2>1. ~broken
    BY <1>1, <1>4 DEF StageAdded
  <2>2. QED
    BY <1>4, <2>1, StageAddedEnds
<1>5. CASE StartSubsaga
  <2>1. ~broken /\ 0 < stages
    BY <1>1, <1>5 DEF StartSubsaga, SubsagasComeLater
  <2>2. QED
    BY <1>1, <1>5, <2>1, WalkingEnds
<1>6. CASE WalkFirst \/ WalkNext \/ SubsagaAdded \/ SubsagaPanics
  <2>1. ~broken
    BY <1>1, <1>6 DEF WalkFirst, WalkNext, Visit, VisitPanics, Copied, SubsagaAdded, SubsagaPanics
  <2>2. 0 < stages
    BY <1>6, <2>1 DEF WalkFirst, WalkNext, SubsagaAdded, SubsagaPanics, SubsagaLoops, SubsagasComeLater
  <2>3. QED
    BY <1>1, <1>6, <2>1, <2>2, WalkingEnds
<1>7. CASE NewSagaDag
  <2>1. ~broken
    BY <1>1, <1>7 DEF NewSagaDag
  <2>2. QED
    BY <1>7, <2>1, WrapEnds
<1>8. QED
  BY <1>2, <1>3, <1>4, <1>5, <1>6, <1>7 DEF Next

LEMMA EndsHold ==
  ASSUME SubsagasHangTogether, SubsagasLeadThrough
  PROVE  Spec /\ []SubsagasComeLater => [](AllInv /\ EndsInv)
<1>1. Init => EndsInv
  BY DEF Init, EndsInv, NoneYet, FirstAreFirst, EdgesBetween, Ids
<1>2. AllInv /\ EndsInv /\ SubsagasComeLater /\ SubsagasComeLater' /\ [Next]_vars => EndsInv'
  BY NextEndsInv DEF AllInv
<1>3. QED
  BY <1>1, <1>2, OrderHolds, PTL DEF Spec

\* What holds of every node between calls, as long as none has failed halfway.
LEMMA AtRest ==
  ASSUME AllInv, EndsInv, ~broken, pc = "idle", NEW n \in Ids
  PROVE  /\ stageOf[n] \in Nat /\ stageOf[n] <= stages /\ (stageOf[n] # 0 => Done(n))
         /\ Done(n) => n \in firstAdded \/ \E f \in firstAdded : Leads(edges, f, n)
         /\ Done(n) => n \in lastAdded \/ \E l \in lastAdded : Leads(edges, n, l)
<1>1. DoneInv /\ IdleInv /\ NoneYet /\ FirstAreFirst /\ stages \in Nat /\ \A m \in Ids : stageOf[m] \in Nat
  BY DEF AllInv, OrderInv, EndsInv, IInv, GraphInv, GraphTypeOK, BuilderTypeOK, Ids
<1>2. stageOf[n] \in Nat /\ stageOf[n] <= stages /\ (stageOf[n] # 0 => Done(n))
  BY <1>1 DEF IdleInv, Done
<1>3. ASSUME Done(n), n \notin firstAdded
      PROVE  \E f \in firstAdded : Leads(edges, f, n)
  <2>1. 0 < stages /\ stageOf[n] # 1 /\ 0 < stageOf[n]
    BY <1>1, <1>2, <1>3 DEF Done, FirstAreFirst
  <2>2. PICK f \in firstAdded : f \in Ids /\ stageOf[f] = 1
    BY <1>1, <2>1 DEF FirstAreFirst
  <2>3. Leads(edges, f, n)
    BY <1>1, <1>2, <2>1, <2>2 DEF DoneInv
  <2>4. QED
    BY <2>3
<1>4. QED
  BY <1>1, <1>2, <1>3 DEF DoneInv

\* Between calls of which none failed halfway the builder knows the nodes that depend on
\* none and those that none depends on: firstAdded and lastAdded are the ends of its graph,
\* as long as the first stage holds no subsaga, and no SagaDag was made from it.
THEOREM EndsAreKnown ==
  ASSUME SubsagasHangTogether, SubsagasLeadThrough
  PROVE  Spec /\ []SubsagasComeLater => []EndsKnown
<1>1. ASSUME AllInv, EndsInv
      PROVE  EndsKnown
  <2>1. SUFFICES ASSUME ~broken, pc = "idle", sagaDags = <<>>
                 PROVE  /\ firstAdded = {n \in Ids : \A m \in Ids : <<m, n>> \notin edges}
                        /\ lastAdded = {n \in Ids : \A m \in Ids : <<n, m>> \notin edges}
    BY DEF EndsKnown
  <2>2. /\ FirstAreFirst /\ EdgesBetween /\ NoneYet /\ IdleInv
        /\ stages \in Nat /\ edges \subseteq Ids \X Ids /\ firstAdded \subseteq Ids /\ lastAdded \subseteq Ids
    BY <1>1, <2>1 DEF AllInv, OrderInv, EndsInv, IInv, GraphInv, GraphTypeOK, BuilderTypeOK
  <2>3. ASSUME NEW n \in Ids
        PROVE  /\ n \in firstAdded <=> \A m \in Ids : <<m, n>> \notin edges
               /\ n \in lastAdded <=> \A m \in Ids : <<n, m>> \notin edges
    <3>1. Done(n) /\ 0 < stages
      <4>1. 1 .. Len(sagaDags) = {}
        BY <2>1
      <4>2. stageOf[n] # 0
        BY <2>2, <4>1 DEF FirstAreFirst
      <4>3. Done(n)
        BY <1>1, <2>1, <4>2, AtRest
      <4>4. stages # 0
        BY <2>1, <2>2 DEF NoneYet
      <4>5. QED
        BY <2>2, <4>3, <4>4
    <3>2. ASSUME n \in firstAdded, NEW m \in Ids, <<m, n>> \in edges
          PROVE  FALSE
      BY <2>1, <2>2, <3>1, <3>2 DEF FirstAreFirst, EdgesBetween
    <3>3. ASSUME n \notin firstAdded
          PROVE  \E m \in Ids : <<m, n>> \in edges
      <4>1. PICK f \in firstAdded : Leads(edges, f, n)
        BY <1>1, <2>1, <3>1, <3>3, AtRest
      <4>2. PICK e \in edges : e[2] = n
        BY <4>1, LeadsByEdges
      <4>3. QED
        BY <2>2, <4>2
    <3>4. ASSUME n \in lastAdded, NEW m \in Ids, <<n, m>> \in edges
          PROVE  FALSE
      <4>1. stageOf[m] = stages + 1
        BY <2>1, <2>2, <3>4 DEF EdgesBetween
      <4>2. stageOf[m] <= stages
        BY <2>1, <2>2, <3>4 DEF IdleInv
      <4>3. QED
        BY <2>2, <4>1, <4>2
    <3>5. ASSUME n \notin lastAdded
          PROVE  \E m \in Ids : <<n, m>> \in edges
      <4>1. PICK l \in lastAdded : Leads(edges, n, l)
        BY <1>1, <2>1, <3>1, <3>5, AtRest
      <4>2. PICK e \in edges : e[1] = n
        BY <4>1, LeadsByEdges
      <4>3. QED
        BY <2>2, <4>2
    <3>6. QED
      BY <3>2, <3>3, <3>4, <3>5
  <2>4. QED
    BY <2>2, <2>3
<1>2. QED
  BY <1>1, EndsHold, PTL

\* Every node of a SagaDag lies between its start and its end node, as long as the first
\* stage holds no subsaga, no stage was refused halfway, and none added after the Build.
THEOREM WrappedAreWhole ==
  ASSUME SubsagasHangTogether, SubsagasLeadThrough
  PROVE  Spec /\ []SubsagasComeLater => []WrappedWhole
<1>1. ASSUME AllInv, EndsInv
      PROVE  WrappedWhole
  <2> DEFINE s == sagaDags[1]
  <2>1. SUFFICES ASSUME ~broken, pc = "idle", Len(sagaDags) = 1, lastAdded \X {s.endNode} \subseteq edges,
                        NEW n \in Ids \ {s.startNode, s.endNode}
                 PROVE  n \in Dependents[s.startNode] /\ s.endNode \in Dependents[n]
    BY DEF WrappedWhole
  <2>2. /\ FirstAreFirst /\ IInv
        /\ s.startNode \in Ids
    <3>1. FirstAreFirst /\ IInv
      BY <1>1, <2>1 DEF AllInv, EndsInv
    <3>2. sagaDags \in Seq([startNode : Ids, endNode : Ids])
      BY <3>1 DEF IInv, ControlTypeOK
    <3>3. 1 \in 1 .. Len(sagaDags)
      BY <2>1
    <3>4. s \in [startNode : Ids, endNode : Ids]
      BY <3>2, <3>3, ElementOfSeq, Zenon
    <3>5. QED
      BY <3>1, <3>4
  <2>3. Done(n)
    <3>1. stageOf[n] # 0
      BY <2>1, <2>2 DEF FirstAreFirst
    <3>2. QED
      BY <1>1, <2>1, <3>1, AtRest
  <2>4. \A f \in firstAdded : Leads(edges, s.startNode, f)
    <3>1. \A f \in firstAdded : <<s.startNode, f>> \in edges
      BY <2>1, <2>2 DEF FirstAreFirst
    <3>2. QED
      BY <3>1, EdgeLeads
  <2>5. \A l \in lastAdded : Leads(edges, l, s.endNode)
    <3>1. \A l \in lastAdded : <<l, s.endNode>> \in edges
      BY <2>1
    <3>2. QED
      BY <3>1, EdgeLeads
  <2>6. Leads(edges, s.startNode, n)
    <3>1. n \in firstAdded \/ \E f \in firstAdded : Leads(edges, f, n)
      BY <1>1, <2>1, <2>3, AtRest
    <3>2. QED
      BY <2>4, <3>1, LeadsOn
  <2>7. Leads(edges, n, s.endNode)
    <3>1. n \in lastAdded \/ \E l \in lastAdded : Leads(edges, n, l)
      BY <1>1, <2>1, <2>3, AtRest
    <3>2. QED
      BY <2>5, <3>1, LeadsOn
  <2>8. QED
    BY <2>1, <2>2, <2>6, <2>7, LedAreDependents
<1>2. QED
  BY <1>1, EndsHold, PTL
----------------------------------------------------------------------------
(* What Build returns can be appended to another builder *)

\* A set that the edges do not leave keeps what one of its members leads to.
LEMMA LeadsInside ==
  ASSUME NEW graph, NEW m, NEW n, Leads(graph, m, n), NEW S, m \in S,
         \A e \in graph : e[1] \in S => e[2] \in S
  PROVE  n \in S
<1> DEFINE T == {e[2] : e \in graph} \cap S
<1>1. T \in SUBSET {e[2] : e \in graph}
  OBVIOUS
<1>2. \A e \in graph : e[1] = m \/ e[1] \in T => e[2] \in T
  OBVIOUS
<1>3. n \in T
  BY <1>1, <1>2 DEF Leads
<1>4. QED
  BY <1>3

\* The nodes of the first stage are the oldest ones.
FirstAreOldest == ~broken /\ firstAdded # {} => \E k \in Nat : firstAdded = 1 .. k

LEMMA NextFirstAreOldest ==
  ASSUME IInv, EndsInv, FirstAreOldest, [Next]_vars
  PROVE  FirstAreOldest'
<1> USE DEF graphVars, builderVars, stageVars, walkVars, resultVars
<1>1. SUFFICES ASSUME ~broken', firstAdded' # {}
               PROVE  \E k \in Nat : firstAdded' = 1 .. k
  BY DEF FirstAreOldest
<1>2. ~broken
  BY <1>1 DEF Next, CallAppend, NameTaken, RejectSubsaga, Fail, AddAction, AddConstant, StageAdded,
              StartSubsaga, WalkFirst, WalkNext, Visit, VisitPanics, Copied, WalkDequeue,
              SubsagaAdded, SubsagaPanics, Build, NewSagaDag, vars
<1>3. CASE StageAdded /\ firstAdded = {}
  <2>1. newNodes = Ids
    BY <1>2, <1>3 DEF EndsInv, NoneYet, FirstAreFirst, StageAdded, IInv, BuilderTypeOK
  <2>2. Ids = 1 .. Len(nodes) /\ Len(nodes) \in Nat
    BY DEF IInv, GraphInv, GraphTypeOK, Ids
  <2>3. QED
    BY <1>3, <2>1, <2>2 DEF StageAdded
<1>4. CASE firstAdded' = firstAdded
  BY <1>1, <1>2, <1>4 DEF FirstAreOldest
<1>5. StageAdded => firstAdded' = firstAdded \/ firstAdded = {}
  BY DEF StageAdded
<1>6. ~StageAdded => firstAdded' = firstAdded
  BY DEF Next, CallAppend, NameTaken, RejectSubsaga, Fail, AddAction, AddConstant,
         StartSubsaga, WalkFirst, WalkNext, Visit, VisitPanics, Copied, WalkDequeue,
         SubsagaAdded, SubsagaPanics, Build, NewSagaDag, vars
<1>7. QED
  BY <1>3, <1>4, <1>5, <1>6

\* A Dag as Build returns it, when nothing was added to its graph since: the nodes hang
\* together, and lie between its first and its last nodes.
BuiltFits ==
  ~broken /\ pc = "idle" /\ sagaDags = <<>> /\ built # NoDag /\ built.lastNodes = lastAdded =>
    \A first, last \in Seq(Ids) :
      /\ ToSet(first) = built.firstNodes /\ Len(first) = Cardinality(built.firstNodes)
      /\ ToSet(last) = built.lastNodes
      => LET dag == [nodes |-> nodes, edges |-> edges, firstNodes |-> first, lastNodes |-> last]
         IN  HangsTogether(dag) /\ LeadsThrough(dag)

\* What StagesAreInOrder and the theorems after it ask of a subsaga holds of every Dag
\* that Build returns, and so of what is appended to a builder, as long as no stage was
\* refused halfway and the first one holds no subsaga: the code takes the positions of
\* the subsaga's first nodes for their ids, and then these are the same.
THEOREM BuiltCanBeAppended ==
  ASSUME SubsagasHangTogether, SubsagasLeadThrough
  PROVE  Spec /\ []SubsagasComeLater => []BuiltFits
<1>1. ASSUME AllInv, EndsInv, FirstAreOldest
      PROVE  BuiltFits
  <2>1. SUFFICES ASSUME ~broken, pc = "idle", sagaDags = <<>>, built # NoDag, built.lastNodes = lastAdded,
                        NEW first \in Seq(Ids), NEW last \in Seq(Ids),
                        ToSet(first) = built.firstNodes, Len(first) = Cardinality(built.firstNodes),
                        ToSet(last) = built.lastNodes
                 PROVE  LET dag == [nodes |-> nodes, edges |-> edges,
                                    firstNodes |-> first, lastNodes |-> last]
                        IN  HangsTogether(dag) /\ LeadsThrough(dag)
    BY Zenon DEF BuiltFits
  <2> DEFINE dag == [nodes |-> nodes, edges |-> edges, firstNodes |-> first, lastNodes |-> last]
  <2>2. DOMAIN dag.nodes = Ids /\ dag.edges = edges /\ ToSet(dag.lastNodes) = lastAdded
    BY <2>1 DEF Ids
  <2>3. DOMAIN dag.firstNodes = firstAdded
    <3>1. built.firstNodes = firstAdded /\ firstAdded # {}
      BY <1>1, <2>1 DEF EndsInv, FirstAreFirst
    <3>2. PICK k \in Nat : firstAdded = 1 .. k
      BY <1>1, <2>1, <3>1 DEF FirstAreOldest
    <3>3. Cardinality(1 .. k) = k
      BY FS_Interval
    <3>4. DOMAIN first = 1 .. k
      BY <2>1, <3>1, <3>2, <3>3
    <3>5. QED
      BY <3>2, <3>4
  <2>4. edges \subseteq Ids \X Ids
    BY <1>1 DEF AllInv, IInv, GraphInv, GraphTypeOK
  <2>5. \A n \in Ids : Done(n)
    <3>1. FirstAreFirst
      BY <1>1, <2>1 DEF EndsInv
    <3>2. \A n \in Ids : stageOf[n] # 0
      BY <2>1, <3>1 DEF FirstAreFirst
    <3>3. QED
      BY <1>1, <2>1, <3>2, AtRest
  <2> HIDE DEF dag
  <2>6. ASSUME NEW S \in SUBSET Ids, firstAdded \subseteq S,
               \A j, k \in Ids : <<j, k>> \in edges /\ j \in S => k \in S
        PROVE  S = Ids
    <3>1. \A e \in edges : e[1] \in S => e[2] \in S
      BY <2>4, <2>6
    <3>2. ASSUME NEW n \in Ids, n \notin firstAdded
          PROVE  n \in S
      <4>1. PICK f \in firstAdded : Leads(edges, f, n)
        BY <1>1, <2>1, <2>5, <3>2, AtRest
      <4>2. f \in S
        BY <2>6
      <4>3. QED
        BY <3>1, <4>1, <4>2, LeadsInside
    <3>3. QED
      BY <2>6, <3>2
  <2>7. ASSUME NEW S \in SUBSET Ids, lastAdded \subseteq S,
               \A j, k \in Ids : <<j, k>> \in edges /\ k \in S => j \in S
        PROVE  S = Ids
    <3>1. \A e \in edges : e[1] \in Ids \ S => e[2] \in Ids \ S
      BY <2>4, <2>7
    <3>2. ASSUME NEW n \in Ids \ S
          PROVE  FALSE
      <4>1. PICK l \in lastAdded : Leads(edges, n, l)
        BY <1>1, <2>1, <2>5, <2>7, <3>2, AtRest
      <4>2. \A T : n \in T /\ (\A e \in edges : e[1] \in T => e[2] \in T) => l \in T
        BY <4>1, LeadsInside
      <4>3. l \in Ids \ S
        BY <3>1, <3>2, <4>2, Zenon
      <4>4. QED
        BY <2>7, <4>3
    <3>3. QED
      BY <2>7, <3>2
  <2>8. LeadsThrough(dag)
    BY <2>2, <2>3, <2>6, <2>7 DEF LeadsThrough
  <2>9. HangsTogether(dag)
    <3>1. SUFFICES ASSUME lastAdded \subseteq Part(dag)
                   PROVE  Part(dag) = Ids
      BY <2>2 DEF HangsTogether
    <3>2. ASSUME NEW S \in SUBSET Ids, 1 \in S,
                 \A j, k \in Ids : <<j, k>> \in edges => (j \in S <=> k \in S)
          PROVE  S = Ids
      <4>1. lastAdded \subseteq S
        BY <2>2, <3>1, <3>2 DEF Part
      <4>2. QED
        BY <2>7, <3>2, <4>1
    <3>3. QED
      BY <2>2, <3>2 DEF Part
  <2>10. QED
    BY <2>8, <2>9 DEF dag
<1>2. Init => FirstAreOldest
  BY DEF Init, FirstAreOldest
<1>3. AllInv /\ EndsInv /\ FirstAreOldest /\ [Next]_vars => FirstAreOldest'
  BY NextFirstAreOldest DEF AllInv
<1>4. QED
  BY <1>1, <1>2, <1>3, EndsHold, PTL DEF Spec
=============================================================================
