----------------------------- MODULE DagBuilder -----------------------------
(***************************************************************************)
(* dag_builder.go with dag.go and sagadag.go: one goroutine that appends   *)
(* stages of nodes to a builder, builds a Dag and makes a SagaDag from it. *)
(* The Dag and the SagaDag share the builder's graph.  A step is one pass  *)
(* of a loop of the code: a user's node of a stage, a node of a subsaga    *)
(* that the breadth-first walk visits.                                     *)
(*                                                                         *)
(* The id of a node is its index in nodes: ids count from 1 here, from 0   *)
(* in the code.  A Dag is a record of nodes, edges, firstNodes, lastNodes. *)
(***************************************************************************)
EXTENDS Integers, FiniteSets, SequencesExt, Functions

CONSTANTS
  Stages,      \* the sequences of user nodes that Append and AppendParallel get
  Registered,  \* the actions registered before the builder is used
  Labels,      \* the names of nodes, and those of actions
  NoName,      \* the name of a node that has none
  MaxCalls,    \* bound: calls of Append and AppendParallel
  MaxSagaDags  \* bound: calls of NewSagaDag

Kinds == {"action", "constant", "subsagaStart", "subsagaEnd", "start", "end"}
InternalNodes == [kind : Kinds, name : Labels, ref : Labels]

\* What the user appends; a subsaga's Dag has a node, or Build had not returned it.
Subdags ==
  {dag \in [nodes : Seq(InternalNodes), edges : SUBSET (Nat \X Nat),
            firstNodes : Seq(Nat), lastNodes : Seq(Nat)] : dag.nodes # <<>>}
UserNodes ==
  [kind : {"action"}, name : Labels, action : Labels]
    \cup [kind : {"constant"}, name : Labels]
    \cup [kind : {"subsaga"}, name : Labels, params : Labels, dag : Subdags]

ASSUME StagesAssumption == Stages \subseteq Seq(UserNodes)
ASSUME LabelsAssumption == NoName \in Labels /\ Registered \subseteq Labels
ASSUME BuilderBoundsAssumption == MaxCalls \in Nat /\ MaxSagaDags \in Nat

VARIABLES
  nodes, edges,          \* b.dag: the nodes by id, the edges of its graph
  nodeNames,             \* b.nodeNames
  firstAdded, lastAdded, \* b.firstAdded, b.lastAdded
  registry,              \* the actions b.registry holds
  pc,                    \* the loop the goroutine is in, "idle", or "panicked"
  todo, newNodes,        \* the loop over a stage: user nodes to come, newNodes
  start, copy, queue,    \* a subsaga: its start node, subsagaIDToSagaID, the walk's queue
  result,                \* what the last call returned: "none", "ok" or "error"
  built,                 \* the first and last nodes of the last Dag built, or NoDag
  sagaDags,              \* the start and end nodes of the SagaDags made
  calls,                 \* calls so far, for the bound
  stages, stageOf,       \* history: stages added so far, the stage of each node
  broken                 \* history: an Append has failed with nodes already added

graphVars == <<nodes, edges, stageOf>>
builderVars == <<nodeNames, firstAdded, lastAdded, registry, stages>>
stageVars == <<todo, newNodes>>
walkVars == <<start, copy, queue>>
resultVars == <<result, built, sagaDags>>
vars == <<graphVars, builderVars, pc, stageVars, walkVars, resultVars, calls, broken>>

NoDag == [firstNodes |-> {}, lastNodes |-> {}]

Init ==
  /\ nodes = <<>> /\ edges = {} /\ stageOf = <<>>
  /\ nodeNames = {} /\ firstAdded = {} /\ lastAdded = {} /\ registry = Registered
  /\ pc = "idle" /\ todo = <<>> /\ newNodes = {}
  /\ start = 0 /\ copy = <<>> /\ queue = <<>>
  /\ result = "none" /\ built = NoDag /\ sagaDags = <<>>
  /\ calls = 0 /\ stages = 0 /\ broken = FALSE

Ids == DOMAIN nodes
NextId == Len(nodes) + 1
Internal(kind, name, ref) == [kind |-> kind, name |-> name, ref |-> ref]

\* Mutant: the edges lead to the id after that of the new node.
AddNodeOffByOne(node, from) ==
  /\ nodes' = Append(nodes, node)
  /\ edges' = edges \cup (from \X {NextId + 1})
  /\ stageOf' = Append(stageOf, stages + 1)

\* AddNode, and AddEdge from each of these nodes to the new one.
AddNode(node, from) ==
  /\ nodes' = Append(nodes, node)
  /\ edges' = edges \cup (from \X {NextId})
  /\ stageOf' = Append(stageOf, stages + 1)

----------------------------------------------------------------------------
(* Append and AppendParallel *)

CallAppend(stage) ==
  /\ pc = "idle" /\ calls < MaxCalls
  /\ calls' = calls + 1
  /\ \/ stage = <<>> /\ result' = "error" /\ UNCHANGED <<pc, todo>>
     \/ stage # <<>> /\ result' = "none" /\ pc' = "stage" /\ todo' = stage
  /\ newNodes' = {}
  /\ UNCHANGED <<graphVars, builderVars, walkVars, built, sagaDags, broken>>

UserNode == Head(todo)
Adding(kind) == pc = "stage" /\ todo # <<>> /\ UserNode.kind = kind

\* The call returns an error in the middle of its stage; what it has added so far
\* stays in the graph, and lastAdded does not learn of it.
Fail ==
  /\ result' = "error"
  /\ pc' = "idle" /\ todo' = <<>> /\ newNodes' = {}
  /\ broken' = (broken \/ newNodes # {})

NameTaken ==
  /\ pc = "stage" /\ todo # <<>> /\ UserNode.name \in nodeNames
  /\ Fail
  /\ UNCHANGED <<graphVars, builderVars, walkVars, built, sagaDags, calls>>

\* Mutants: no edges from the last stage; the action is not registered.
AddActionIndependent ==
  /\ Adding("action") /\ UserNode.name \notin nodeNames
  /\ nodeNames' = nodeNames \cup {UserNode.name}
  /\ registry' = registry \cup {UserNode.action}
  /\ AddNode(Internal("action", UserNode.name, UserNode.action), {})
  /\ newNodes' = newNodes \cup {NextId} /\ todo' = Tail(todo)
  /\ UNCHANGED <<firstAdded, lastAdded, stages, pc, walkVars, resultVars, calls, broken>>
AddActionUnregistered ==
  /\ Adding("action") /\ UserNode.name \notin nodeNames
  /\ nodeNames' = nodeNames \cup {UserNode.name}
  /\ AddNode(Internal("action", UserNode.name, UserNode.action), lastAdded)
  /\ newNodes' = newNodes \cup {NextId} /\ todo' = Tail(todo)
  /\ UNCHANGED <<registry, firstAdded, lastAdded, stages, pc, walkVars, resultVars, calls, broken>>

\* An action node; its action is registered unless one of its name is.
AddAction ==
  /\ Adding("action") /\ UserNode.name \notin nodeNames
  /\ nodeNames' = nodeNames \cup {UserNode.name}
  /\ registry' = registry \cup {UserNode.action}
  /\ AddNode(Internal("action", UserNode.name, UserNode.action), lastAdded)
  /\ newNodes' = newNodes \cup {NextId} /\ todo' = Tail(todo)
  /\ UNCHANGED <<firstAdded, lastAdded, stages, pc, walkVars, resultVars, calls, broken>>

AddConstant ==
  /\ Adding("constant") /\ UserNode.name \notin nodeNames
  /\ nodeNames' = nodeNames \cup {UserNode.name}
  /\ AddNode(Internal("constant", UserNode.name, NoName), lastAdded)
  /\ newNodes' = newNodes \cup {NextId} /\ todo' = Tail(todo)
  /\ UNCHANGED <<firstAdded, lastAdded, registry, stages, pc, walkVars, resultVars, calls, broken>>

\* Mutant: of the stage only the last node is remembered.
StageAddedLastOnly ==
  /\ pc = "stage" /\ todo = <<>>
  /\ firstAdded' = IF firstAdded = {} THEN newNodes ELSE firstAdded
  /\ lastAdded' = {CHOOSE n \in newNodes : \A m \in newNodes : m <= n}
  /\ stages' = stages + 1
  /\ pc' = "idle" /\ result' = "ok"
  /\ UNCHANGED <<graphVars, nodeNames, registry, stageVars, walkVars, built, sagaDags, calls, broken>>

StageAdded ==
  /\ pc = "stage" /\ todo = <<>>
  /\ firstAdded' = IF firstAdded = {} THEN newNodes ELSE firstAdded
  /\ lastAdded' = newNodes
  /\ stages' = stages + 1
  /\ pc' = "idle" /\ result' = "ok"
  /\ UNCHANGED <<graphVars, nodeNames, registry, stageVars, walkVars, built, sagaDags, calls, broken>>

----------------------------------------------------------------------------
(* Subsagas: addSubsagaNode, with the walk of appendSubgraph *)

Subdag == UserNode.dag
Subids == DOMAIN Subdag.nodes

\* validateSubgraph: no start or end nodes, of a saga or of a subsaga.
ValidSubgraph ==
  \A m \in Subids : Subdag.nodes[m].kind \notin {"start", "end", "subsagaStart", "subsagaEnd"}

\* The name of the node itself is in nodeNames by then, and so are the names of the
\* nodes before it in the same stage.
NamesNow == nodeNames \cup {UserNode.name}

RejectSubsaga ==
  /\ Adding("subsaga") /\ UserNode.name \notin nodeNames
  /\ UserNode.params \notin NamesNow \/ ~ValidSubgraph
  /\ nodeNames' = NamesNow
  /\ Fail
  /\ UNCHANGED <<graphVars, firstAdded, lastAdded, registry, stages, walkVars, built, sagaDags, calls>>

StartSubsaga ==
  /\ Adding("subsaga") /\ UserNode.name \notin nodeNames
  /\ UserNode.params \in NamesNow /\ ValidSubgraph
  /\ nodeNames' = NamesNow
  /\ AddNode(Internal("subsagaStart", NoName, UserNode.params), lastAdded)
  /\ start' = NextId /\ copy' = <<>> /\ queue' = <<>>
  /\ pc' = "walk"
  /\ UNCHANGED <<firstAdded, lastAdded, registry, stages, stageVars, resultVars, calls, broken>>

Predecessors(m) == {k \in Subids : <<k, m>> \in Subdag.edges}
Successors(m) == {k \in Subids : <<m, k>> \in Subdag.edges}

Copied(m) ==
  /\ copy' = [k \in DOMAIN copy \cup {m} |-> IF k = m THEN NextId ELSE copy[k]]
  /\ UNCHANGED <<builderVars, stageVars, start, resultVars, calls, broken>>

\* Mutants: the edges are copied the wrong way round, or not at all.
VisitSwapped(m) ==
  /\ Predecessors(m) \subseteq DOMAIN copy
  /\ nodes' = Append(nodes, Subdag.nodes[m])
  /\ stageOf' = Append(stageOf, stages + 1)
  /\ edges' = edges \cup ({NextId} \X {copy[k] : k \in Predecessors(m)})
  /\ Copied(m) /\ queue' = Append(queue, m) /\ UNCHANGED pc
VisitUnlinked(m) ==
  /\ Predecessors(m) \subseteq DOMAIN copy
  /\ AddNode(Subdag.nodes[m], {})
  /\ Copied(m) /\ queue' = Append(queue, m) /\ UNCHANGED pc

\* newNodeVisitor: copy a node, with its incoming edges.
Visit(m) ==
  /\ Predecessors(m) \subseteq DOMAIN copy
  /\ AddNode(Subdag.nodes[m], {copy[k] : k \in Predecessors(m)})
  /\ Copied(m) /\ queue' = Append(queue, m) /\ UNCHANGED pc

\* A predecessor has not been visited: the node is copied, with some of its edges,
\* before the visitor panics, "this is a bug in the framework".
VisitPanics(m) ==
  /\ ~(Predecessors(m) \subseteq DOMAIN copy)
  /\ \E known \in SUBSET (Predecessors(m) \cap DOMAIN copy) :
       AddNode(Subdag.nodes[m], {copy[k] : k \in known})
  /\ Copied(m) /\ pc' = "panicked" /\ UNCHANGED queue

\* Mutant: the walk begins at any node.
WalkFirstAnywhere ==
  /\ pc = "walk" /\ copy = <<>>
  /\ \E m \in Subids : Visit(m) \/ VisitPanics(m)

\* The walk begins at the first node of the subsaga's graph, whatever its roots are.
WalkFirst ==
  /\ pc = "walk" /\ copy = <<>>
  /\ Visit(1) \/ VisitPanics(1)

\* The neighbours of the node at the head of the queue, in any order.
WalkNext ==
  /\ pc = "walk" /\ queue # <<>>
  /\ \E m \in Successors(Head(queue)) \ DOMAIN copy : Visit(m) \/ VisitPanics(m)

WalkDequeue ==
  /\ pc = "walk" /\ queue # <<>>
  /\ Successors(Head(queue)) \subseteq DOMAIN copy
  /\ queue' = Tail(queue)
  /\ UNCHANGED <<graphVars, builderVars, pc, stageVars, start, copy, resultVars, calls, broken>>

\* The subsaga's roots, by their position in firstNodes; its leaves.
SubRoots == DOMAIN Subdag.firstNodes
SubLeaves == ToSet(Subdag.lastNodes)

SubsagaLoops == pc = "walk" /\ queue = <<>> /\ copy # <<>>

\* The edges to the roots, and the end node with its edges from these nodes.
AddEnd(from) ==
  /\ nodes' = Append(nodes, Internal("subsagaEnd", UserNode.name, NoName))
  /\ stageOf' = Append(stageOf, stages + 1)
  /\ edges' = edges \cup ({start} \X {copy[m] : m \in SubRoots}) \cup (from \X {NextId})

SubsagaAdded ==
  /\ SubsagaLoops /\ SubRoots \cup SubLeaves \subseteq DOMAIN copy
  /\ AddEnd(lastAdded \cup {copy[m] : m \in SubLeaves})
  /\ newNodes' = newNodes \cup {NextId} /\ todo' = Tail(todo)
  /\ pc' = "stage"
  /\ UNCHANGED <<builderVars, walkVars, resultVars, calls, broken>>

\* The loop over the roots, or the one over the leaves, meets a node that was not
\* visited: "this is a bug in the framework".
SubsagaPanics ==
  /\ SubsagaLoops
  /\ \/ \E m \in SubRoots \ DOMAIN copy :
          /\ 1 .. m - 1 \subseteq DOMAIN copy
          /\ edges' = edges \cup ({start} \X {copy[k] : k \in 1 .. m - 1})
          /\ UNCHANGED <<nodes, stageOf>>
     \/ SubRoots \subseteq DOMAIN copy /\ ~(SubLeaves \subseteq DOMAIN copy) /\ AddEnd(lastAdded)
  /\ pc' = "panicked"
  /\ UNCHANGED <<builderVars, stageVars, walkVars, resultVars, calls, broken>>

----------------------------------------------------------------------------
(* Build and NewSagaDag *)

Build ==
  /\ pc = "idle"
  /\ \/ /\ firstAdded = {} \/ Cardinality(lastAdded) # 1
        /\ result' = "error" /\ built' = NoDag
     \/ /\ firstAdded # {} /\ Cardinality(lastAdded) = 1
        /\ result' = "ok" /\ built' = [firstNodes |-> firstAdded, lastNodes |-> lastAdded]
  /\ UNCHANGED <<graphVars, builderVars, pc, stageVars, walkVars, sagaDags, calls, broken>>

\* Mutant: the start node leads to one of the first nodes only.
NewSagaDagOneRoot ==
  /\ pc = "idle" /\ built # NoDag /\ Len(sagaDags) < MaxSagaDags
  /\ nodes' = nodes \o <<Internal("start", NoName, NoName), Internal("end", NoName, NoName)>>
  /\ stageOf' = stageOf \o <<0, 0>>
  /\ edges' = edges \cup {<<NextId, CHOOSE n \in built.firstNodes : TRUE>>}
                    \cup (built.lastNodes \X {NextId + 1})
  /\ sagaDags' = Append(sagaDags, [startNode |-> NextId, endNode |-> NextId + 1])
  /\ UNCHANGED <<builderVars, pc, stageVars, walkVars, result, built, calls, broken>>

\* The start and the end node become nodes of the graph that the Dag shares.
NewSagaDag ==
  /\ pc = "idle" /\ built # NoDag /\ Len(sagaDags) < MaxSagaDags
  /\ nodes' = nodes \o <<Internal("start", NoName, NoName), Internal("end", NoName, NoName)>>
  /\ stageOf' = stageOf \o <<0, 0>>
  /\ edges' = edges \cup ({NextId} \X built.firstNodes) \cup (built.lastNodes \X {NextId + 1})
  /\ sagaDags' = Append(sagaDags, [startNode |-> NextId, endNode |-> NextId + 1])
  /\ UNCHANGED <<builderVars, pc, stageVars, walkVars, result, built, calls, broken>>

Next ==
  \/ \E stage \in Stages : CallAppend(stage)
  \/ NameTaken \/ AddAction \/ AddConstant \/ StageAdded
  \/ RejectSubsaga \/ StartSubsaga \/ WalkFirst \/ WalkNext \/ WalkDequeue
  \/ SubsagaAdded \/ SubsagaPanics
  \/ Build \/ NewSagaDag

Spec == Init /\ [][Next]_vars

----------------------------------------------------------------------------
(* Properties *)

GraphTypeOK ==
  /\ nodes \in Seq(InternalNodes)
  /\ edges \subseteq Ids \X Ids
  /\ stageOf \in Seq(Nat) /\ Len(stageOf) = Len(nodes)

BuilderTypeOK ==
  /\ nodeNames \subseteq Labels /\ registry \subseteq Labels /\ stages \in Nat
  /\ firstAdded \cup lastAdded \cup newNodes \subseteq Ids
  /\ built \in [firstNodes : SUBSET Ids, lastNodes : SUBSET Ids]

ControlTypeOK ==
  /\ pc \in {"idle", "stage", "walk", "panicked"} /\ result \in {"none", "ok", "error"}
  /\ todo \in Seq(UserNodes)
  /\ calls \in 0 .. MaxCalls /\ broken \in BOOLEAN
  /\ sagaDags \in Seq([startNode : Ids, endNode : Ids]) /\ Len(sagaDags) <= MaxSagaDags

WalkTypeOK ==
  pc = "walk" =>
    /\ todo # <<>> /\ UserNode.kind = "subsaga" /\ ValidSubgraph
    /\ start \in Ids /\ queue \in Seq(Subids)
    /\ DOMAIN copy \subseteq Subids /\ \A m \in DOMAIN copy : copy[m] \in Ids

\* Every id the builder keeps is the id of a node it has added.
TypeOK == GraphTypeOK /\ BuilderTypeOK /\ ControlTypeOK /\ WalkTypeOK

\* Every edge points to a node added later, but for those that leave the start node
\* of a SagaDag, which nothing points to: whatever is appended in whatever order,
\* and with subsagas, no cycle arises, and a saga can be sorted.
GraphOrdered ==
  \A e \in edges :
    /\ e[1] < e[2] \/ nodes[e[1]].kind = "start"
    /\ nodes[e[2]].kind # "start"

\* What depends on a node, directly or through others.
Dependents ==
  LET below[n \in Ids] ==
        LET next == {m \in Ids : <<n, m>> \in edges}
        IN  next \cup UNION {below[m] : m \in next}
  IN  below

\* A stage begins when everything in the stages before it is done: its nodes depend
\* on all nodes of all earlier stages, those inside of subsagas included.
StagesInOrder ==
  ~broken /\ pc \in {"idle", "stage"} =>
    LET dependents == Dependents
    IN  \A m, n \in Ids : 0 < stageOf[m] /\ stageOf[m] < stageOf[n] => n \in dependents[m]

\* The walk has copied the subsaga whole: its nodes once each, and among the copies
\* the edges of its graph and no others.
SubsagaCopied ==
  pc = "walk" /\ queue = <<>> /\ copy # <<>> /\ SubLeaves \subseteq DOMAIN copy =>
    /\ DOMAIN copy = Subids /\ IsInjective(copy)
    /\ \A j, k \in Subids : <<copy[j], copy[k]>> \in edges <=> <<j, k>> \in Subdag.edges

\* Append panics only at a subsaga whose graph has a second root, from two nodes in its
\* first stage or from a stage that was refused halfway: in any other graph that stages
\* make, the walk meets each node after its predecessors, and the positions of the
\* first nodes, which the code takes for ids, are ids.
OneRootNeverPanics ==
  pc = "panicked" => \E m \in Subids \ {1} : Predecessors(m) = {}

\* The builder knows the roots and the leaves of its graph, so that Build accepts a
\* graph with one leaf only and NewSagaDag connects all of it.  It takes the end node
\* of a subsaga for a root, and so this holds only as long as none is accepted in the
\* first stage, where its parameters would come from the same stage or from itself.
EndsKnown ==
  ~broken /\ pc = "idle" /\ sagaDags = <<>> =>
    /\ firstAdded = {n \in Ids : \A m \in Ids : <<m, n>> \notin edges}
    /\ lastAdded = {n \in Ids : \A m \in Ids : <<n, m>> \notin edges}

\* Every node of a SagaDag lies between its start and its end node, provided that
\* nothing was appended to the builder after its Dag was built, that no other SagaDag
\* was made of it, and, as for EndsKnown, that no subsaga was accepted in the first
\* stage.
WrappedWhole ==
  ~broken /\ pc = "idle" /\ Len(sagaDags) = 1 =>
    LET dependents == Dependents
        s == sagaDags[1]
    IN  lastAdded \X {s.endNode} \subseteq edges =>
          \A n \in Ids \ {s.startNode, s.endNode} :
            n \in dependents[s.startNode] /\ s.endNode \in dependents[n]

\* The executor finds the action of every node, also when stages were refused.
ActionsRegistered == \A n \in Ids : nodes[n].kind = "action" => nodes[n].ref \in registry

----------------------------------------------------------------------------
(* What comments of the code say *)

\* addSubsagaNode: "As long as the parameters node has been appended already, then
\* the new subsaga node will depend on that node (either directly or indirectly)".
SubsagaDependsOnParams ==
  LET dependents == Dependents
  IN  \A s \in Ids :
        nodes[s].kind = "subsagaStart" =>
          \E n \in Ids : nodes[n].name = nodes[s].ref /\ s \in dependents[n]
=============================================================================
