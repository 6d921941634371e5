------------------------ MODULE SagaLifecycleProofs ------------------------
(***************************************************************************)
(* Theorems about the life of a saga id under deploy and destroy, for      *)
(* every DAG and naming, any number of commands and of mishaps.            *)
(* A restored process does not have the invariant of a new one: its list   *)
(* is what the store held, and the states of its nodes say little.  What   *)
(* holds in both kinds of process is below, and how the process, the store *)
(* and the outside world agree.                                            *)
(***************************************************************************)
EXTENDS SagaLifecycle, SagaExecutorProofs

USE NodesAssumption, DagsAssumption, ActionNodesAssumption, RegistriesAssumption,
    NamesAssumption, FailuresAssumption, BoundsAssumption, LifeBoundsAssumption

----------------------------------------------------------------------------
(* The inductive invariant *)

\* No two resources have one number, and none has one that is not yet given.
WorldInv ==
  /\ IsFiniteSet(live)
  /\ \A r \in live : r[1] \in ActionNodes /\ r[2] \in 1 .. serial
  /\ \A q, r \in live : q[2] = r[2] => q = r
  /\ \A name \in Names : ancestorTree[name] \in 0 .. serial

\* Where a process of each command can be.
CommandInv ==
  /\ command \in Commands
  /\ command = "none" => pc = "idle" /\ completed = <<>>
  /\ command # "none" => outcome = "none"
  /\ command = "deploy" /\ executes = 0 =>
       pc = "idle" /\ completed = <<>> /\ result = "none"
  /\ command = "destroy" => executes = 0 /\ pc \notin Forward
  /\ command = "destroy" /\ rollbacks = 0 => pc = "idle" /\ result = "none"

\* The completed list is as far as the loop of Execute is, and in a restored process
\* too an action on it comes after those it depends on.
ListInv ==
  /\ pc \in Forward =>
       Len(completed) = pos - 1 /\ \A i \in 1 .. pos - 1 : completed[i] = order[i]
  /\ NamesIdentify =>
       \A i, j \in 1 .. Len(completed) :
         completed[i] \in ActionNodes /\ completed[j] \in ActionNodes
           /\ <<completed[i], completed[j]>> \in edges => i < j

\* The store holds a list that some process wrote: an output for each name, none of a
\* call not yet made, and the actions in an order of execution.
StoreInv ==
  /\ store.actions \in Seq(Saved)
  /\ \A i \in 1 .. Len(store.actions) : store.actions[i].output \in 0 .. serial
  /\ \A i, j \in 1 .. Len(store.actions) :
       store.actions[i].name = store.actions[j].name =>
         store.actions[i].output = store.actions[j].output
  /\ NamesIdentify =>
       \A i, j \in 1 .. Len(store.actions), m, n \in ActionNodes :
         NameOf[m] = store.actions[i].name /\ NameOf[n] = store.actions[j].name
           /\ <<m, n>> \in edges => i < j

\* The process can undo a resource: its node is on the list, its number the output.
Known(r) == \E i \in 1 .. Len(completed) : completed[i] = r[1] /\ OutputOf(r[1]) = r[2]

\* A deploy that has saved nothing: before its one call, or when the first save failed.
Unsaved == command = "deploy" /\ pc = "idle" /\ result \in {"none", "notSaved"}

\* What the store lists, and what a destroy loaded, the process can undo; until it
\* saves, a deploy knows nothing.
KnownInv ==
  NamesIdentify =>
    /\ command # "none" /\ ~Unsaved => \A r \in live : Entry(r) \in Listed(store) => Known(r)
    /\ command = "destroy" => \A r \in live : Entry(r) \in Listed(loaded) => Known(r)

\* What a deploy that has saved nothing finds listed it could not read when it began.
UnreadInv ==
  /\ unread \subseteq Names \X Nat
  /\ Unsaved => Listed(store) \subseteq unread

\* The resource that an action on the list made, by its output, is not there.
Gone(n) == n \in ActionNodes => \A r \in live : r[2] # OutputOf(n)

\* What the loop of compensate has passed is gone, and all of it when it is through.
GoneInv ==
  /\ pc = "UndoIt" => NodeToUndo \in ActionNodes
  /\ pc \in Backward => \A i \in pos + 1 .. Len(completed) : Gone(completed[i])
  /\ result \in {"compensated", "rolledBack"} =>
       pc = "idle" /\ \A i \in 1 .. Len(completed) : Gone(completed[i])

\* A deploy can still have its one action that fails and leaves something.
MayFail == command = "deploy" /\ (executes = 0 \/ pc \in {"node", "DoIt", "nodeDone"})

MishapInv ==
  mishaps \in Nat /\ mishaps <= MaxMishaps + deploys - IF MayFail THEN 1 ELSE 0

BookInv ==
  /\ outcome \in Outcomes
  /\ loaded = NoState \/ loaded.status \in Statuses
  /\ deploys \in 0 .. MaxDeploys
  /\ MishapInv

LInv ==
  /\ TypeOK /\ OrderInv /\ WorldInv /\ CommandInv /\ ListInv /\ StoreInv /\ KnownInv
  /\ UnreadInv /\ GoneInv /\ BookInv /\ DestroyedWhatWasListed /\ OneLostPerMishap

----------------------------------------------------------------------------
(* Processes *)

LEMMA RunningIsNext ==
  ASSUME Running
  PROVE  /\ Next
         /\ UNCHANGED <<command, loaded, outcome, deploys, unread>>
         /\ Execute => command = "deploy" /\ executes = 0
         /\ Rollback => command = "destroy" /\ rollbacks = 0
         /\ Execute \/ Rollback \/ Step
<1>1. Step => ~Execute /\ ~Rollback
  BY DEF Step, Execute, Rollback, SkipNode, ActionMissing, StartNode, DoItSucceeds, DoItFails,
         NodeCompleted, NodeFailed, SagaCompleted, SkipUndo, StartUndo, UndoItSucceeds, UndoItFails,
         CompensationSucceeds, CompensationFails
<1>2. Execute => ~Rollback
  BY DEF Execute, Rollback
<1>3. QED
  BY <1>1, <1>2 DEF Running, Next

\* Every step is one of the executor, or makes an executor, or refuses to.
LEMMA LifeSteps ==
  ASSUME [LifeNext]_allVars
  PROVE  \/ Running
         \/ Deploy /\ StartDeploy /\ NewExecutor
         \/ Destroy /\ Readable /\ Restore(Found)
         \/ DeployReturns /\ NewExecutor
         \/ DestroyReturns /\ NewExecutor
         \/ Crash /\ NewExecutor
         \/ UNCHANGED <<vars, loaded, command, mishaps, unread>> /\ (Deploy \/ Destroy)
         \/ UNCHANGED allVars
<1> USE DEF vars, allVars, dagVars, nodeVars, listVars, storeVars, controlVars, callVars, worldVars, Exit
<1>1. CASE Deploy
  BY <1>1 DEF Deploy, StartDeploy, Refuse
<1>2. CASE Destroy
  BY <1>2 DEF Destroy, Refuse
<1>3. CASE DeployReturns
  BY <1>3 DEF DeployReturns
<1>4. CASE DestroyReturns
  BY <1>4 DEF DestroyReturns
<1>5. CASE Crash
  BY <1>5 DEF Crash
<1>6. QED
  BY <1>1, <1>2, <1>3, <1>4, <1>5 DEF LifeNext

\* A process begins with every loop at its start.
LEMMA ExecutorTypes ==
  ASSUME TypeOK, NEW list \in Seq(Nodes), NEW states \in [Nodes -> NodeStates],
         NEW outputs \in [Names -> Nat], Executor(list, states, outputs), UNCHANGED dagVars
  PROVE  ExecutorTypeOK' /\ ControlTypeOK'
<1>1. ExecutorTypeOK'
  <2>1. /\ edges' \in Dags /\ registered' \in Registries
        /\ nodeState' \in [Nodes -> NodeStates] /\ ancestorTree' \in [Names -> Nat]
        /\ completed' \in Seq(Nodes)
    BY DEF TypeOK, ExecutorTypeOK, Executor, dagVars
  <2>2. failed' \in Seq(Nodes) /\ executionTrace' \in Seq(ExecutionRecord)
    BY DEF Executor
  <2>3. QED
    BY <2>1, <2>2 DEF ExecutorTypeOK
<1>2. ControlTypeOK'
  BY DEF Executor, ControlTypeOK, Labels, Results
<1>3. QED
  BY <1>1, <1>2

LEMMA FreshTypes ==
  ASSUME TypeOK, NewExecutor, UNCHANGED dagVars
  PROVE  ExecutorTypeOK' /\ ControlTypeOK'
<1>1. AllPending \in [Nodes -> NodeStates] /\ NoOutputs \in [Names -> Nat] /\ <<>> \in Seq(Nodes)
  BY DEF AllPending, NodeStates, NoOutputs, NoOutput
<1>2. QED
  BY <1>1, ExecutorTypes DEF NewExecutor

\* A set of numbers up to n that is not empty has a greatest element.
LEMMA Greatest ==
  ASSUME NEW n \in Nat, NEW S, S \subseteq 1 .. n, S # {}
  PROVE  Max(S) \in S
<1> DEFINE T == {k \in Nat : \A U \in SUBSET (1 .. k) : U # {} => \E x \in U : \A y \in U : x >= y}
<1>1. 0 \in T
  <2>1. 1 .. 0 = {}
    OBVIOUS
  <2>2. QED
    BY <2>1
<1>2. ASSUME NEW k \in 0 .. n - 1, k \in T PROVE k + 1 \in T
  <2> SUFFICES ASSUME NEW U \in SUBSET (1 .. k + 1), U # {}
               PROVE  \E x \in U : \A y \in U : x >= y
    OBVIOUS
  <2>1. CASE k + 1 \in U
    BY <2>1
  <2>2. CASE k + 1 \notin U
    <3>1. U \in SUBSET (1 .. k)
      BY <2>2
    <3>2. QED
      BY <1>2, <3>1
  <2>3. QED
    BY <2>1, <2>2
<1>3. n \in T
  <2> HIDE DEF T
  <2>1. QED
    BY <1>1, <1>2, SetInduction
<1>4. \E x \in S : \A y \in S : x >= y
  BY <1>3
<1>5. QED
  BY <1>4 DEF Max

----------------------------------------------------------------------------
(* The process that destroy restores *)

\* The actions found are the stored ones that have a node, at their places.
LEMMA FoundPlaces ==
  ASSUME StoreInv
  PROVE  /\ Found \in Seq(Saved)
         /\ \E h : /\ h \in [1 .. Len(Found) -> 1 .. Len(store.actions)]
                   /\ \A i, j \in 1 .. Len(Found) : i < j => h[i] < h[j]
                   /\ \A i \in 1 .. Len(Found) : Found[i] = store.actions[h[i]]
                   /\ \A k \in 1 .. Len(store.actions) :
                        (\E n \in Nodes : NameOf[n] = store.actions[k].name) =>
                          \E i \in 1 .. Len(Found) : h[i] = k
<1> DEFINE s == store.actions
           S == {a \in ToSet(s) : \E n \in Nodes : NameOf[n] = a.name}
<1>1. s \in Seq(Saved)
  BY DEF StoreInv
<1>2. \A i \in 1 .. Len(s) : s[i] \in ToSet(s) /\ s[i] \in Saved
  BY <1>1 DEF ToSet
<1>3. Found = Kept(s, S)
  BY DEF Found
<1> HIDE DEF s
<1>4. S \subseteq Saved
  BY <1>1 DEF ToSet
<1>5. \A k \in 1 .. Len(s) : (\E n \in Nodes : NameOf[n] = s[k].name) => s[k] \in S
  BY <1>2
<1> HIDE DEF S
<1>6. Found \in Seq(S) /\ \E h : Places(h, Found, s, S, Len(s))
  BY <1>1, <1>3, KeptPlaces
<1>7. Found \in Seq(Saved)
  BY <1>4, <1>6
<1>8. PICK h : Places(h, Found, s, S, Len(s))
  BY <1>6
<1>9. /\ h \in [1 .. Len(Found) -> 1 .. Len(s)]
      /\ \A i, j \in 1 .. Len(Found) : i < j => h[i] < h[j]
      /\ \A i \in 1 .. Len(Found) : Found[i] = s[h[i]]
      /\ \A k \in 1 .. Len(s) :
           (\E n \in Nodes : NameOf[n] = s[k].name) => \E i \in 1 .. Len(Found) : h[i] = k
  BY <1>5, <1>8 DEF Places
<1>10. QED
  BY <1>7, <1>9 DEF s

\* The tree of a restored process holds the output stored with each name.
LEMMA OutputsRestored ==
  ASSUME StoreInv, serial \in Nat
  PROVE  /\ RestoredOutputs(Found) \in [Names -> Nat]
         /\ \A name \in Names : RestoredOutputs(Found)[name] \in 0 .. serial
         /\ \A i \in 1 .. Len(Found) : Found[i].output # NoOutput =>
              RestoredOutputs(Found)[Found[i].name] = Found[i].output
<1>1. Found \in Seq(Saved) /\ Len(Found) \in Nat
  BY FoundPlaces
<1>2. PICK h \in [1 .. Len(Found) -> 1 .. Len(store.actions)] :
        \A i \in 1 .. Len(Found) : Found[i] = store.actions[h[i]]
  BY FoundPlaces
<1>3. /\ \A i \in 1 .. Len(Found) : Found[i] \in Saved /\ Found[i].output \in 0 .. serial
      /\ \A i, j \in 1 .. Len(Found) :
           Found[i].name = Found[j].name => Found[i].output = Found[j].output
  <2>1. \A i \in 1 .. Len(Found) : Found[i] \in Saved
    BY <1>1
  <2>2. \A i \in 1 .. Len(Found) : h[i] \in 1 .. Len(store.actions) /\ Found[i] = store.actions[h[i]]
    BY <1>2
  <2>3. \A i \in 1 .. Len(Found) : Found[i].output \in 0 .. serial
    BY <2>2 DEF StoreInv
  <2>4. ASSUME NEW i \in 1 .. Len(Found), NEW j \in 1 .. Len(Found), Found[i].name = Found[j].name
        PROVE  Found[i].output = Found[j].output
    <3>1. \A k, l \in 1 .. Len(store.actions) :
            store.actions[k].name = store.actions[l].name =>
              store.actions[k].output = store.actions[l].output
      BY DEF StoreInv
    <3>2. /\ h[i] \in 1 .. Len(store.actions) /\ h[j] \in 1 .. Len(store.actions)
          /\ Found[i] = store.actions[h[i]] /\ Found[j] = store.actions[h[j]]
      BY <2>2
    <3>3. store.actions[h[i]].name = store.actions[h[j]].name
      BY <2>4, <3>2
    <3>4. store.actions[h[i]].output = store.actions[h[j]].output
      BY <3>1, <3>2, <3>3
    <3>5. QED
      BY <3>2, <3>4
  <2>5. QED
    BY <2>1, <2>3, <2>4
<1>4. \A i \in 1 .. Len(Found) : Found[i].name \in Names
  BY <1>3 DEF Saved
<1> DEFINE given(name) == {i \in DOMAIN Found : Found[i].name = name /\ Found[i].output # NoOutput}
           out(name) == IF given(name) = {} THEN NoOutput ELSE Found[Max(given(name))].output
<1>5. RestoredOutputs(Found) = [name \in Names |-> out(name)]
  BY DEF RestoredOutputs
<1>6. \A name : given(name) \subseteq 1 .. Len(Found)
  BY <1>1
<1>7. \A name : given(name) # {} => Max(given(name)) \in given(name)
  <2> HIDE DEF given
  <2>1. QED
    BY <1>1, <1>6, Greatest
<1>8. ASSUME NEW name
      PROVE  out(name) \in 0 .. serial
  <2>1. CASE given(name) = {}
    BY <2>1 DEF NoOutput
  <2>2. CASE given(name) # {}
    <3>1. Max(given(name)) \in 1 .. Len(Found) /\ out(name) = Found[Max(given(name))].output
      BY <1>6, <1>7, <2>2
    <3>2. QED
      BY <1>3, <3>1
  <2>3. QED
    BY <2>1, <2>2
<1>9. ASSUME NEW i \in 1 .. Len(Found), Found[i].output # NoOutput
      PROVE  out(Found[i].name) = Found[i].output
  <2>1. i \in given(Found[i].name)
    BY <1>1, <1>9
  <2>2. given(Found[i].name) # {} /\ Max(given(Found[i].name)) \in given(Found[i].name)
    BY <1>7, <2>1
  <2>3. PICK m \in 1 .. Len(Found) : /\ Found[m].name = Found[i].name
                                    /\ out(Found[i].name) = Found[m].output
    BY <1>6, <2>2
  <2>4. QED
    BY <1>3, <2>3
<1>10. QED
  <2> HIDE DEF out
  <2>1. \A name \in Names : out(name) \in Nat
    BY <1>8
  <2>2. QED
    BY <1>4, <1>5, <1>8, <1>9, <2>1

\* When a name leads back to its action, a restored process lists every action that
\* the store lists, in an order of execution, and finds its output.
LEMMA Restored ==
  ASSUME StoreInv, WorldInv, serial \in Nat, live \subseteq Nodes \X Nat, Restore(Found)
  PROVE  /\ completed' \in Seq(Nodes) /\ ancestorTree' \in [Names -> Nat]
         /\ nodeState' \in [Nodes -> NodeStates]
         /\ \A name \in Names : ancestorTree'[name] \in 0 .. serial
         /\ NamesIdentify =>
              /\ \A i, j \in 1 .. Len(completed') :
                   completed'[i] \in ActionNodes /\ completed'[j] \in ActionNodes
                     /\ <<completed'[i], completed'[j]>> \in edges => i < j
              /\ \A r \in live : Entry(r) \in Listed(store) =>
                   \E i \in 1 .. Len(completed') :
                     completed'[i] = r[1] /\ ancestorTree'[NameOf[r[1]]] = r[2]
<1>1. PICK list \in NodesOf(Found) :
        Executor(list, [n \in Nodes |-> IF n \in ToSet(list) THEN "completed" ELSE "pending"],
                 RestoredOutputs(Found))
  BY DEF Restore
<1>2. completed' = list /\ ancestorTree' = RestoredOutputs(Found)
      /\ nodeState' = [n \in Nodes |-> IF n \in ToSet(list) THEN "completed" ELSE "pending"]
  BY <1>1 DEF Executor
<1>3. Found \in Seq(Saved) /\ Len(Found) \in Nat /\ DOMAIN Found = 1 .. Len(Found)
  BY FoundPlaces
<1>4. /\ list \in [1 .. Len(Found) -> Nodes]
      /\ \A i \in 1 .. Len(Found) : NameOf[list[i]] = Found[i].name
  BY <1>3 DEF NodesOf
<1>5. list \in Seq(Nodes) /\ Len(list) = Len(Found)
  BY <1>3, <1>4
<1>6. nodeState' \in [Nodes -> NodeStates]
  BY <1>2 DEF NodeStates
<1>7. PICK h \in [1 .. Len(Found) -> 1 .. Len(store.actions)] :
        /\ \A i, j \in 1 .. Len(Found) : i < j => h[i] < h[j]
        /\ \A i \in 1 .. Len(Found) : Found[i] = store.actions[h[i]]
        /\ \A k \in 1 .. Len(store.actions) :
             (\E n \in Nodes : NameOf[n] = store.actions[k].name) =>
               \E i \in 1 .. Len(Found) : h[i] = k
  BY FoundPlaces
<1>8. ASSUME NamesIdentify, NEW i \in 1 .. Len(list), NEW j \in 1 .. Len(list),
             list[i] \in ActionNodes, list[j] \in ActionNodes, <<list[i], list[j]>> \in edges
      PROVE  i < j
  <2>1. /\ NameOf[list[i]] = store.actions[h[i]].name /\ NameOf[list[j]] = store.actions[h[j]].name
        /\ h[i] \in 1 .. Len(store.actions) /\ h[j] \in 1 .. Len(store.actions)
        /\ i \in 1 .. Len(Found) /\ j \in 1 .. Len(Found)
    BY <1>4, <1>5, <1>7
  <2>2. h[i] < h[j]
    BY <1>8, <2>1 DEF StoreInv
  <2>3. i = j \/ i < j \/ j < i
    OBVIOUS
  <2>4. QED
    BY <1>7, <2>1, <2>2, <2>3
<1>9. ASSUME NamesIdentify, NEW r \in live, Entry(r) \in Listed(store)
      PROVE  \E i \in 1 .. Len(list) : list[i] = r[1] /\ ancestorTree'[NameOf[r[1]]] = r[2]
  <2>1. PICK k \in 1 .. Len(store.actions) :
          store.actions[k].name = NameOf[r[1]] /\ store.actions[k].output = r[2]
    <3>1. store.actions \in Seq(Saved)
      BY DEF StoreInv
    <3>2. PICK a \in ToSet(store.actions) : <<a.name, a.output>> = <<NameOf[r[1]], r[2]>>
      BY <1>9 DEF Entry, Listed
    <3>3. a.name = NameOf[r[1]] /\ a.output = r[2]
      BY <3>2
    <3>4. PICK k \in DOMAIN store.actions : store.actions[k] = a
      BY DEF ToSet
    <3>5. DOMAIN store.actions = 1 .. Len(store.actions)
      BY <3>1
    <3>6. QED
      BY <3>3, <3>4, <3>5
  <2>2. r[1] \in ActionNodes /\ r[1] \in Nodes /\ r[2] # NoOutput
    <3>1. r[1] \in ActionNodes /\ r[2] \in 1 .. serial
      BY DEF WorldInv
    <3>2. QED
      BY <3>1 DEF NoOutput
  <2>3. PICK i \in 1 .. Len(Found) : h[i] = k
    <3>1. r[1] \in Nodes /\ NameOf[r[1]] = store.actions[k].name
      BY <2>1, <2>2
    <3>2. QED
      BY <1>7, <3>1
  <2>4. Found[i] = store.actions[k] /\ NameOf[list[i]] = NameOf[r[1]] /\ list[i] \in Nodes
    BY <1>4, <1>7, <2>1, <2>3
  <2>5. list[i] = r[1]
    BY <1>9, <2>2, <2>4 DEF NamesIdentify
  <2>6. RestoredOutputs(Found)[NameOf[r[1]]] = r[2]
    BY <2>1, <2>2, <2>4, OutputsRestored
  <2>7. QED
    BY <1>2, <1>5, <2>5, <2>6
<1>10. QED
  BY <1>2, <1>5, <1>6, <1>8, <1>9, OutputsRestored

----------------------------------------------------------------------------
(* What a step changes in the world, in the store and in the tree *)

Adds ==
  /\ pc = "DoIt" /\ serial' = serial + 1
  /\ live' = live \/ live' = live \cup {<<CurrentNode, serial'>>}

Removes ==
  /\ pc = "UndoIt" /\ serial' = serial
  /\ live' = {r \in live : r[2] # OutputOf(NodeToUndo)}

\* A step of the executor that is no call of the user's code leaves the world alone.
LEMMA ExecutorWorld ==
  ASSUME [Next]_vars
  PROVE  UNCHANGED worldVars \/ DoItSucceeds \/ DoItFails \/ UndoItSucceeds
<1>1. CASE Execute
  BY <1>1 DEF Execute
<1>2. CASE Rollback
  BY <1>2 DEF Rollback
<1>3. CASE SkipNode \/ ActionMissing \/ StartNode
  BY <1>3 DEF SkipNode, ActionMissing, StartNode
<1>4. CASE NodeCompleted \/ NodeFailed \/ SagaCompleted
  BY <1>4 DEF NodeCompleted, NodeFailed, SagaCompleted
<1>5. CASE SkipUndo \/ StartUndo \/ UndoItFails
  BY <1>5 DEF SkipUndo, StartUndo, UndoItFails
<1>6. CASE CompensationSucceeds \/ CompensationFails
  BY <1>6 DEF CompensationSucceeds, CompensationFails
<1>7. CASE UNCHANGED vars
  BY <1>7 DEF vars, worldVars
<1>8. QED
  BY <1>1, <1>2, <1>3, <1>4, <1>5, <1>6, <1>7 DEF Next, Step

\* Only DoIt's return changes the tree of an executor.
LEMMA TreeSteps ==
  ASSUME [Next]_vars
  PROVE  UNCHANGED ancestorTree \/ DoItSucceeds
BY StoreSteps DEF Quiet, Resaved, Execute, NodeCompleted, nodeVars

\* A step makes one resource at most, or removes those that have one number.
LEMMA WorldSteps ==
  ASSUME [LifeNext]_allVars
  PROVE  UNCHANGED worldVars \/ Adds \/ Removes
<1>1. CASE Running
  <2>1. DoItSucceeds \/ DoItFails => Adds
    BY DEF DoItSucceeds, DoItFails, Adds
  <2>2. UndoItSucceeds => Removes
    BY DEF UndoItSucceeds, Removes
  <2>3. QED
    BY <1>1, <2>1, <2>2, RunningIsNext, ExecutorWorld
<1>2. CASE Crash
  BY <1>2 DEF Crash, worldVars, Adds, Removes
<1>3. CASE Deploy \/ Destroy \/ DeployReturns \/ DestroyReturns \/ UNCHANGED allVars
  BY <1>3 DEF Deploy, Destroy, DeployReturns, DestroyReturns, allVars, vars
<1>4. QED
  BY <1>1, <1>2, <1>3 DEF LifeNext

\* A save of the list as it is after the step.
SavesList ==
  /\ UNCHANGED <<ancestorTree, worldVars>>
  /\ store'.actions = Listing(completed')

\* The store is left alone, or holds the list, or is torn, or is deleted.
LEMMA LifeStoreSteps ==
  ASSUME TypeOK, [LifeNext]_allVars
  PROVE  /\ \/ store' = store
            \/ Running /\ SavesList
            \/ Running /\ store' = Torn /\ "torn" \in FailedSaves
            \/ DestroyReturns /\ store' = NoState /\ result = "rolledBack"
         /\ warned' = warned \/ warned' = TRUE
<1> USE DEF vars, storeVars
<1>1. /\ ancestorTree \in [Names -> Nat] /\ completed \in Seq(Nodes)
      /\ pc = "nodeDone" => CurrentNode \in Nodes
  BY DEF TypeOK, ExecutorTypeOK, ControlTypeOK, CurrentNode
<1>2. CASE Running
  <2>1. CASE Quiet
    BY <2>1 DEF Quiet
  <2>2. CASE Resaved
    <3>1. PICK status : Persist(status, completed)
      BY <2>2 DEF Resaved
    <3>2. QED
      BY <1>1, <1>2, <2>2, <3>1, ListingPlaces DEF Resaved, Persist, Saves, SaveFails, SavesList
  <2>3. CASE Execute
    BY <1>1, <1>2, <2>3, ListingPlaces
       DEF Execute, Saves, SaveFails, SavesList, nodeVars, listVars
  <2>4. CASE NodeCompleted
    <3>1. completed' \in Seq(Nodes)
      BY <1>1, <2>4 DEF NodeCompleted
    <3>2. Saves("running", completed') => store'.actions = Listing(completed')
      BY <1>1, <3>1, ListingPlaces DEF Saves
    <3>3. QED
      BY <1>2, <2>4, <3>2 DEF NodeCompleted, Persist, SaveFails, SavesList, nodeVars
  <2>5. CASE DoItSucceeds
    BY <2>5 DEF DoItSucceeds
  <2>6. QED
    BY <1>2, <2>1, <2>2, <2>3, <2>4, <2>5, RunningIsNext, StoreSteps
<1>3. CASE DestroyReturns
  BY <1>3 DEF DestroyReturns
<1>4. CASE Deploy \/ Destroy \/ DeployReturns \/ Crash \/ UNCHANGED allVars
  BY <1>4 DEF Deploy, Destroy, DeployReturns, Crash, allVars
<1>5. QED
  BY <1>2, <1>3, <1>4 DEF LifeNext

----------------------------------------------------------------------------
(* The parts of the invariant are kept *)

LEMMA NextLifeTypes ==
  ASSUME TypeOK, OrderInv, WorldInv, StoreInv, [LifeNext]_allVars
  PROVE  TypeOK' /\ OrderInv'
<1>1. CASE Running
  BY <1>1, RunningIsNext, NextTypeOK, NextOrderInv
<1>2. CASE UNCHANGED vars
  BY <1>2, NextTypeOK, NextOrderInv
<1>3. CASE ~Running /\ ~UNCHANGED vars
  <2>1. NewExecutor \/ (Readable /\ Restore(Found))
    BY <1>3, LifeSteps DEF vars, allVars
  <2>2. UNCHANGED dagVars
    BY <1>3 DEF LifeNext, Deploy, Destroy, DeployReturns, DestroyReturns, Crash, allVars, vars
  <2>3. /\ executes' = 0 /\ rollbacks' = 0 /\ pc' = "idle" /\ order' = <<>>
    BY <2>1 DEF NewExecutor, Restore, Executor
  <2>4. ExecutorTypeOK' /\ ControlTypeOK'
    <3>1. CASE NewExecutor
      BY <2>2, <3>1, FreshTypes
    <3>2. CASE Restore(Found)
      <4>1. PICK list \in NodesOf(Found) :
              Executor(list, [n \in Nodes |-> IF n \in ToSet(list) THEN "completed" ELSE "pending"],
                       RestoredOutputs(Found))
        BY <3>2 DEF Restore
      <4>2. serial \in Nat /\ live \subseteq Nodes \X Nat
        BY DEF TypeOK, EnvironmentTypeOK
      <4>3. /\ completed' \in Seq(Nodes) /\ ancestorTree' \in [Names -> Nat]
            /\ nodeState' \in [Nodes -> NodeStates]
        BY <3>2, <4>2, Restored
      <4>4. QED
        BY <2>2, <4>1, <4>3, ExecutorTypes DEF Executor
    <3>3. QED
      BY <2>1, <3>1, <3>2
  <2>5. /\ live' \subseteq Nodes \X Nat /\ serial' \in Nat
        /\ \A r \in live' : r[1] \in ActionNodes
    <3>1. /\ live \subseteq Nodes \X Nat /\ serial \in Nat
          /\ pc = "DoIt" => CurrentNode \in ActionNodes /\ CurrentNode \in Nodes
      BY DEF TypeOK, EnvironmentTypeOK, OrderInv
    <3>2. CASE UNCHANGED worldVars
      BY <3>1, <3>2 DEF worldVars, OrderInv
    <3>3. CASE Adds
      BY <3>1, <3>3 DEF Adds, OrderInv
    <3>4. CASE Removes
      BY <3>1, <3>4 DEF Removes, OrderInv
    <3>5. QED
      BY <3>2, <3>3, <3>4, WorldSteps
  <2>6. EnvironmentTypeOK'
    <3>1. store' \in {NoState, Torn} \/ Readable'
      BY LifeStoreSteps, <1>3 DEF TypeOK, EnvironmentTypeOK, Readable
    <3>2. warned' \in BOOLEAN
      BY LifeStoreSteps DEF TypeOK, EnvironmentTypeOK
    <3>3. executes' \in 0 .. MaxExecutes /\ rollbacks' \in 0 .. MaxRollbacks
      BY <2>3
    <3>4. QED
      BY <2>5, <3>1, <3>2, <3>3 DEF EnvironmentTypeOK
  <2>7. OrderInv'
    BY <2>3, <2>5 DEF OrderInv, Forward
  <2>8. QED
    BY <2>4, <2>6, <2>7 DEF TypeOK
<1>4. QED
  BY <1>1, <1>2, <1>3

\* A resource that is made takes the next number.
LEMMA NextWorldInv ==
  ASSUME TypeOK, OrderInv, WorldInv, StoreInv, [LifeNext]_allVars
  PROVE  WorldInv'
<1>1. /\ serial \in Nat /\ live \subseteq Nodes \X Nat /\ ancestorTree \in [Names -> Nat]
      /\ pc = "DoIt" => CurrentNode \in ActionNodes /\ CurrentNode \in Nodes
  BY DEF TypeOK, ExecutorTypeOK, EnvironmentTypeOK, OrderInv
<1>2. IsFiniteSet(live')
  <2>1. live' \subseteq live \/ live' = live \cup {<<CurrentNode, serial'>>}
    BY WorldSteps DEF Adds, Removes, worldVars
  <2>2. QED
    BY <2>1, FS_Subset, FS_AddElement DEF WorldInv
<1>3. \A r \in live' : r[1] \in ActionNodes /\ r[2] \in 1 .. serial'
  <2>1. CASE UNCHANGED worldVars
    BY <2>1 DEF worldVars, WorldInv
  <2>2. CASE Adds
    BY <1>1, <2>2 DEF Adds, WorldInv
  <2>3. CASE Removes
    BY <2>3 DEF Removes, WorldInv
  <2>4. QED
    BY <2>1, <2>2, <2>3, WorldSteps
<1>4. \A q, r \in live' : q[2] = r[2] => q = r
  <2>1. CASE UNCHANGED worldVars
    BY <2>1 DEF worldVars, WorldInv
  <2>2. CASE Adds
    <3>1. \A r \in live : r[2] # serial'
      BY <1>1, <2>2 DEF Adds, WorldInv
    <3>2. QED
      BY <1>1, <2>2, <3>1 DEF Adds, WorldInv
  <2>3. CASE Removes
    BY <2>3 DEF Removes, WorldInv
  <2>4. QED
    BY <2>1, <2>2, <2>3, WorldSteps
<1>5. serial' \in Nat /\ serial' >= serial
  BY <1>1, WorldSteps DEF worldVars, Adds, Removes
<1>6. \A name \in Names : ancestorTree'[name] \in 0 .. serial'
  <2>1. CASE UNCHANGED ancestorTree
    BY <1>1, <1>5, <2>1 DEF WorldInv
  <2>2. CASE DoItSucceeds
    BY <1>1, <1>5, <2>2 DEF DoItSucceeds, WorldInv
  <2>3. CASE NewExecutor
    BY <1>5, <2>3 DEF NewExecutor, Executor, NoOutputs, NoOutput
  <2>4. CASE Restore(Found)
    BY <1>1, <1>5, <2>4, Restored
  <2>5. ancestorTree' = ancestorTree \/ DoItSucceeds \/ NewExecutor \/ Restore(Found)
    <3>1. CASE Running
      BY <3>1, RunningIsNext, TreeSteps
    <3>2. QED
      BY <3>1, LifeSteps DEF vars, allVars, nodeVars
  <2>6. QED
    BY <2>1, <2>2, <2>3, <2>4, <2>5
<1>7. QED
  BY <1>2, <1>3, <1>4, <1>6 DEF WorldInv

LEMMA StepFacts ==
  ASSUME Step
  PROVE  /\ pc # "idle" /\ UNCHANGED <<executes, rollbacks>>
         /\ pc' \in Forward => pc \in Forward
         /\ pc' \in {"node", "DoIt", "nodeDone"} => pc \in {"node", "DoIt", "nodeDone"}
         /\ pc \notin Forward => UNCHANGED <<completed, ancestorTree>> /\ live' \subseteq live
         /\ pc' = "nodeFailed" => pc \in {"node", "DoIt"}
         /\ pc' = "idle" => result' \notin {"none", "notSaved"}
<1> USE DEF callVars, nodeVars, listVars, worldVars, Goto, Return, Forward
<1>1. CASE SkipNode \/ ActionMissing \/ StartNode
  BY <1>1 DEF SkipNode, ActionMissing, StartNode
<1>2. CASE DoItSucceeds \/ DoItFails
  BY <1>2 DEF DoItSucceeds, DoItFails
<1>3. CASE NodeCompleted \/ NodeFailed \/ SagaCompleted
  BY <1>3 DEF NodeCompleted, NodeFailed, SagaCompleted
<1>4. CASE SkipUndo \/ StartUndo \/ UndoItFails
  BY <1>4 DEF SkipUndo, StartUndo, UndoItFails
<1>5. CASE UndoItSucceeds
  BY <1>5 DEF UndoItSucceeds
<1>6. CASE CompensationSucceeds \/ CompensationFails
  BY <1>6 DEF CompensationSucceeds, CompensationFails
<1>7. QED
  BY <1>1, <1>2, <1>3, <1>4, <1>5, <1>6 DEF Step

\* The list grows only when a node is completed.
LEMMA ListSteps ==
  ASSUME [Next]_vars
  PROVE  UNCHANGED completed \/ NodeCompleted
BY StoreSteps DEF Quiet, Resaved, Execute, DoItSucceeds, listVars

LEMMA OnlyCompletes ==
  ASSUME Next, pc = "nodeDone"
  PROVE  NodeCompleted
BY DEF Next, Execute, Rollback, Step, SkipNode, ActionMissing, StartNode, DoItSucceeds, DoItFails,
       NodeFailed, SagaCompleted, SkipUndo, StartUndo, UndoItSucceeds, UndoItFails,
       CompensationSucceeds, CompensationFails

LEMMA ForwardSteps ==
  ASSUME Step, ~NodeCompleted, pc' \in Forward
  PROVE  UNCHANGED <<completed, pos, order>> /\ pc \in Forward
BY DEF Step, SkipNode, ActionMissing, StartNode, DoItSucceeds, DoItFails, NodeFailed, SagaCompleted,
       SkipUndo, StartUndo, UndoItSucceeds, UndoItFails, CompensationSucceeds, CompensationFails,
       Goto, Return, Forward, listVars

LEMMA NextEdges ==
  ASSUME [Next]_vars
  PROVE  edges' = edges
<1> USE DEF dagVars
<1>1. CASE Execute \/ Rollback \/ UNCHANGED vars
  BY <1>1 DEF Execute, Rollback, vars
<1>2. CASE SkipNode \/ ActionMissing \/ StartNode \/ DoItSucceeds \/ DoItFails
  BY <1>2 DEF SkipNode, ActionMissing, StartNode, DoItSucceeds, DoItFails
<1>3. CASE NodeCompleted \/ NodeFailed \/ SagaCompleted \/ SkipUndo \/ StartUndo
  BY <1>3 DEF NodeCompleted, NodeFailed, SagaCompleted, SkipUndo, StartUndo
<1>4. CASE UndoItSucceeds \/ UndoItFails \/ CompensationSucceeds \/ CompensationFails
  BY <1>4 DEF UndoItSucceeds, UndoItFails, CompensationSucceeds, CompensationFails
<1>5. QED
  BY <1>1, <1>2, <1>3, <1>4 DEF Next, Step

LEMMA LifeEdges ==
  ASSUME [LifeNext]_allVars
  PROVE  edges' = edges
<1>1. CASE Running
  BY <1>1, RunningIsNext, NextEdges
<1>2. CASE ~Running
  BY <1>2 DEF LifeNext, Deploy, Destroy, DeployReturns, DestroyReturns, Crash, allVars, vars, dagVars
<1>3. QED
  BY <1>1, <1>2

\* An executor steps only while its command runs, and Execute begins with nothing done.
LEMMA CommandRuns ==
  ASSUME CommandInv, Running
  PROVE  /\ command # "none" /\ outcome = "none"
         /\ Execute => command = "deploy" /\ completed = <<>> /\ result = "none"
         /\ Rollback => command = "destroy"
         /\ pc = "idle" => Execute \/ Rollback
BY RunningIsNext, StepFacts DEF CommandInv

LEMMA NextCommandInv ==
  ASSUME TypeOK, CommandInv, [LifeNext]_allVars
  PROVE  CommandInv'
<1>1. executes \in Nat /\ rollbacks \in Nat
  BY DEF TypeOK, EnvironmentTypeOK
<1>2. CASE Running
  <2>1. UNCHANGED <<command, outcome>> /\ command # "none" /\ outcome = "none"
    BY <1>2, RunningIsNext, CommandRuns
  <2>2. CASE Execute
    <3>1. command = "deploy" /\ executes' = executes + 1
      BY <1>2, <2>2, RunningIsNext DEF Execute
    <3>2. QED
      BY <1>1, <2>1, <3>1 DEF CommandInv
  <2>3. CASE Rollback
    <3>1. /\ command = "destroy" /\ rollbacks' = rollbacks + 1 /\ executes' = executes
          /\ pc' \in {"idle", "undo"}
      BY <1>2, <2>3, RunningIsNext DEF Rollback
    <3>2. QED
      BY <1>1, <2>1, <3>1 DEF CommandInv, Forward
  <2>4. CASE Step
    BY <2>1, <2>4, StepFacts DEF CommandInv
  <2>5. QED
    BY <1>2, <2>2, <2>3, <2>4, RunningIsNext
<1>3. CASE StartDeploy
  BY <1>3 DEF StartDeploy, NewExecutor, Executor, CommandInv, Commands
<1>4. CASE Destroy /\ Readable /\ Restore(Found)
  <2>1. /\ pc' = "idle" /\ result' = "none" /\ executes' = 0
    BY <1>4 DEF Restore, Executor
  <2>2. \/ command' = "destroy" /\ outcome' = "none"
        \/ command' = "none" /\ command = "none" /\ UNCHANGED completed
    BY <1>4 DEF Destroy, Refuse, listVars
  <2>3. QED
    BY <2>1, <2>2 DEF CommandInv, Commands, Forward
<1>5. CASE DeployReturns \/ DestroyReturns \/ Crash
  BY <1>5 DEF DeployReturns, DestroyReturns, Crash, Exit, NewExecutor, Executor, CommandInv, Commands
<1>6. CASE UNCHANGED <<vars, command>> /\ (Deploy \/ Destroy)
  BY <1>6 DEF vars, Deploy, Destroy, controlVars, listVars, callVars, storeVars, CommandInv, Readable
<1>7. CASE UNCHANGED allVars
  BY <1>7 DEF allVars, lifeVars, vars, controlVars, listVars, callVars, storeVars, CommandInv, Readable
<1>8. QED
  BY <1>2, <1>3, <1>4, <1>5, <1>6, <1>7, LifeSteps

\* The order on the list, in any process.
Ordered(list) ==
  \A i, j \in 1 .. Len(list) :
    list[i] \in ActionNodes /\ list[j] \in ActionNodes /\ <<list[i], list[j]>> \in edges => i < j

\* Execute begins with an empty list and appends the nodes of its order one by one.
LEMMA NextListInv ==
  ASSUME TypeOK, OrderInv, WorldInv, CommandInv, ListInv, StoreInv, [LifeNext]_allVars
  PROVE  ListInv'
<1>1. /\ completed \in Seq(Nodes) /\ Len(completed) \in Nat /\ pos \in Nat
      /\ pc \in {"DoIt", "nodeDone", "nodeFailed"} => pos \in 1 .. Len(order)
      /\ serial \in Nat /\ live \subseteq Nodes \X Nat /\ order \in Seq(Nodes)
  BY DEF TypeOK, ExecutorTypeOK, ControlTypeOK, EnvironmentTypeOK
<1>2. edges' = edges
  BY LifeEdges
<1>3. ASSUME pc' \in Forward
      PROVE  Len(completed') = pos' - 1 /\ \A i \in 1 .. pos' - 1 : completed'[i] = order'[i]
  <2>1. Running \/ UNCHANGED vars
    BY <1>3, LifeSteps DEF NewExecutor, Restore, Executor, Forward, allVars
  <2>2. CASE Running /\ Execute
    <3>1. completed = <<>>
      BY <2>2, CommandRuns
    <3>2. completed' = <<>> /\ (pc' = pc \/ pos' = 1) /\ pc = "idle"
      BY <2>2, <3>1 DEF Execute, listVars
    <3>3. QED
      BY <1>3, <3>2 DEF Forward
  <2>3. CASE NodeCompleted
    <3>1. /\ completed' = Append(completed, order[pos]) /\ pos' = pos + 1 /\ order' = order
          /\ pc = "nodeDone"
      BY <2>3 DEF NodeCompleted, CurrentNode
    <3>2. /\ Len(completed) = pos - 1 /\ \A i \in 1 .. pos - 1 : completed[i] = order[i]
          /\ order[pos] \in Nodes
      BY <1>1, <3>1 DEF ListInv, Forward
    <3>3. /\ Len(completed') = pos' - 1 /\ completed'[pos] = order[pos]
          /\ \A i \in 1 .. pos - 1 : completed'[i] = completed[i]
      BY <1>1, <3>1, <3>2
    <3>4. \A i \in 1 .. pos' - 1 : i = pos \/ i \in 1 .. pos - 1
      BY <1>1, <3>1
    <3>5. QED
      BY <3>1, <3>2, <3>3, <3>4
  <2>4. CASE Step /\ ~NodeCompleted
    <3>1. UNCHANGED <<completed, pos, order>> /\ pc \in Forward
      BY <1>3, <2>4, ForwardSteps
    <3>2. QED
      BY <3>1 DEF ListInv
  <2>5. CASE UNCHANGED vars
    BY <1>3, <2>5 DEF vars, listVars, controlVars, ListInv
  <2>6. Rollback => FALSE
    BY <1>3 DEF Rollback, Forward
  <2>7. QED
    BY <2>1, <2>2, <2>3, <2>4, <2>5, <2>6, RunningIsNext
<1>4. ASSUME NamesIdentify
      PROVE  Ordered(completed')
  <2>1. CASE NodeCompleted
    <3>1. /\ pc' \in Forward /\ order \in TopologicalOrders(edges) /\ order' = order
          /\ pos' = pos + 1 /\ pos \in 1 .. Len(order)
      BY <1>1, <2>1 DEF NodeCompleted, OrderInv, Forward
    <3>2. \A i, j \in 1 .. Len(order) : <<order[i], order[j]>> \in edges => i < j
      BY <3>1, OrderFacts
    <3>3. /\ Len(completed') = pos
          /\ \A i \in 1 .. pos : completed'[i] = order[i] /\ i \in 1 .. Len(order)
      BY <1>1, <1>3, <3>1
    <3>4. QED
      BY <3>2, <3>3 DEF Ordered
  <2>2. CASE Restore(Found)
    BY <1>1, <1>4, <2>2, Restored DEF Ordered
  <2>3. CASE NewExecutor
    BY <2>3 DEF NewExecutor, Executor, Ordered
  <2>4. CASE UNCHANGED completed
    BY <1>4, <2>4 DEF Ordered, ListInv
  <2>5. NodeCompleted \/ Restore(Found) \/ NewExecutor \/ UNCHANGED completed
    BY LifeSteps, RunningIsNext, ListSteps DEF vars, allVars, listVars
  <2>6. QED
    BY <2>1, <2>2, <2>3, <2>4, <2>5
<1>5. QED
  BY <1>2, <1>3, <1>4 DEF ListInv, Ordered, NamesIdentify, Named

\* What a save stores of a list in an order of execution.
LEMMA ListingStored ==
  ASSUME ancestorTree \in [Names -> Nat], NEW nodes \in Seq(Nodes),
         NEW n \in Nat, \A name \in Names : ancestorTree[name] \in 0 .. n,
         NEW actions, actions = Listing(nodes)
  PROVE  /\ actions \in Seq(Saved)
         /\ \A i \in 1 .. Len(actions) : actions[i].output \in 0 .. n
         /\ \A i, j \in 1 .. Len(actions) :
              actions[i].name = actions[j].name => actions[i].output = actions[j].output
         /\ NamesIdentify /\ Ordered(nodes) =>
              \A i, j \in 1 .. Len(actions), m, k \in ActionNodes :
                NameOf[m] = actions[i].name /\ NameOf[k] = actions[j].name
                  /\ <<m, k>> \in edges => i < j
<1>1. actions \in Seq(Saved) /\ Len(actions) \in Nat
  BY ListingPlaces
<1>2. PICK h \in [1 .. Len(actions) -> 1 .. Len(nodes)] :
        /\ \A i, j \in 1 .. Len(actions) : i < j => h[i] < h[j]
        /\ \A i \in 1 .. Len(actions) : Named(nodes[h[i]]) /\ actions[i] = EntryOf(nodes[h[i]])
  BY ListingPlaces
<1>3. ASSUME NEW i \in 1 .. Len(actions)
      PROVE  /\ h[i] \in 1 .. Len(nodes) /\ nodes[h[i]] \in Nodes
             /\ actions[i].name = NameOf[nodes[h[i]]] /\ actions[i].name \in Names
             /\ actions[i].output = ancestorTree[actions[i].name]
  <2>1. nodes[h[i]] \in Nodes /\ Named(nodes[h[i]]) /\ actions[i] = EntryOf(nodes[h[i]])
    BY <1>2
  <2>2. QED
    <3>1. NameOf[nodes[h[i]]] \in Names
      BY <2>1 DEF Named
    <3>2. /\ actions[i].name = NameOf[nodes[h[i]]]
          /\ actions[i].output = ancestorTree[NameOf[nodes[h[i]]]]
      BY <2>1 DEF EntryOf, OutputOf
    <3>3. QED
      BY <1>2, <2>1, <3>1, <3>2
<1>4. \A i \in 1 .. Len(actions) : actions[i].output \in 0 .. n
  BY <1>3
<1>5. \A i, j \in 1 .. Len(actions) :
        actions[i].name = actions[j].name => actions[i].output = actions[j].output
  BY <1>3
<1>6. ASSUME NamesIdentify, Ordered(nodes), NEW i \in 1 .. Len(actions), NEW j \in 1 .. Len(actions),
             NEW m \in ActionNodes, NEW k \in ActionNodes,
             NameOf[m] = actions[i].name, NameOf[k] = actions[j].name, <<m, k>> \in edges
      PROVE  i < j
  <2>1. nodes[h[i]] = m /\ nodes[h[j]] = k
    BY <1>3, <1>6 DEF NamesIdentify
  <2>2. h[i] < h[j] /\ h[i] \in Nat /\ h[j] \in Nat
    BY <1>3, <1>6, <2>1 DEF Ordered
  <2>3. i = j \/ i < j \/ j < i
    OBVIOUS
  <2>4. ~(h[j] < h[i]) /\ h[i] # h[j]
    BY <2>2
  <2>5. QED
    BY <1>2, <2>3, <2>4
<1>7. QED
  BY <1>1, <1>4, <1>5, <1>6

LEMMA NextStoreInv ==
  ASSUME TypeOK, TypeOK', WorldInv, WorldInv', ListInv', StoreInv, [LifeNext]_allVars
  PROVE  StoreInv'
<1>1. edges' = edges
  BY LifeEdges
<1>2. serial \in Nat /\ serial' \in Nat /\ serial' >= serial
  BY WorldSteps DEF worldVars, Adds, Removes, TypeOK, EnvironmentTypeOK
<1>3. CASE store' = store
  <2>1. \A i \in 1 .. Len(store.actions) : store.actions[i].output \in 0 .. serial'
    BY <1>2 DEF StoreInv
  <2>2. QED
    BY <1>1, <1>3, <2>1 DEF StoreInv, NamesIdentify, Named
<1>4. CASE store' \in {Torn, NoState}
  <2>1. store'.actions = <<>>
    BY <1>4 DEF Torn, NoState
  <2>2. QED
    BY <2>1 DEF StoreInv
<1>5. CASE SavesList
  <2>1. /\ ancestorTree \in [Names -> Nat] /\ ancestorTree' = ancestorTree
        /\ completed' \in Seq(Nodes)
    BY <1>5 DEF SavesList, TypeOK, ExecutorTypeOK
  <2>2. \A name \in Names : ancestorTree[name] \in 0 .. serial'
    BY <2>1 DEF WorldInv
  <2>3. NamesIdentify => Ordered(completed')
    BY <1>1 DEF ListInv, Ordered, NamesIdentify, Named
  <2>4. store'.actions = Listing(completed')
    BY <1>5 DEF SavesList
  <2>5. /\ store'.actions \in Seq(Saved)
        /\ \A i \in 1 .. Len(store'.actions) : store'.actions[i].output \in 0 .. serial'
        /\ \A i, j \in 1 .. Len(store'.actions) :
             store'.actions[i].name = store'.actions[j].name =>
               store'.actions[i].output = store'.actions[j].output
        /\ NamesIdentify =>
             \A i, j \in 1 .. Len(store'.actions), m, k \in ActionNodes :
               NameOf[m] = store'.actions[i].name /\ NameOf[k] = store'.actions[j].name
                 /\ <<m, k>> \in edges => i < j
    BY <1>2, <2>1, <2>2, <2>3, <2>4, ListingStored
  <2>6. QED
    BY <1>1, <2>5 DEF StoreInv, NamesIdentify, Named
<1>6. QED
  BY <1>3, <1>4, <1>5, LifeStoreSteps

----------------------------------------------------------------------------
(* What the process knows of what the store lists *)

LEMMA ListedInPlaces ==
  ASSUME StoreInv
  PROVE  \A p : p \in Listed(store) <=>
           \E i \in 1 .. Len(store.actions) : p = <<store.actions[i].name, store.actions[i].output>>
<1>1. DOMAIN store.actions = 1 .. Len(store.actions)
  BY DEF StoreInv
<1>2. QED
  BY <1>1 DEF Listed, ToSet

\* Nothing is listed where there is nothing to read.
LEMMA NothingListed ==
  /\ Listed(NoState) = {} /\ Listed(Torn) = {}
  /\ store' = NoState \/ store' = Torn => Listed(store') = {}
  /\ TypeOK /\ ~Readable => Listed(store) = {}
<1>1. Listed(NoState) = {} /\ Listed(Torn) = {}
  <2>1. ToSet(<<>>) = {}
    BY DEF ToSet
  <2>2. QED
    BY <2>1 DEF Listed, NoState, Torn
<1>2. TypeOK /\ ~Readable => store = NoState \/ store = Torn
  BY DEF TypeOK, EnvironmentTypeOK
<1>3. QED
  BY <1>1, <1>2

\* What the store lists is older than the step.
LEMMA ListedIsOld ==
  ASSUME TypeOK, StoreInv, [LifeNext]_allVars, NEW r \in live', Entry(r) \in Listed(store)
  PROVE  r \in live
<1>1. serial \in Nat
  BY DEF TypeOK, EnvironmentTypeOK
<1>2. PICK i \in 1 .. Len(store.actions) : Entry(r) = <<store.actions[i].name, store.actions[i].output>>
  BY ListedInPlaces
<1>3. r[2] \in 0 .. serial
  <2>1. r[2] = store.actions[i].output
    BY <1>2 DEF Entry
  <2>2. QED
    BY <2>1 DEF StoreInv
<1>4. live' \subseteq live \/ (live' = live \cup {<<CurrentNode, serial'>>} /\ serial' = serial + 1)
  BY WorldSteps DEF worldVars, Adds, Removes
<1>5. QED
  BY <1>1, <1>3, <1>4

\* A saved list lists the resources of its actions, by their outputs.
LEMMA ListsOutputs ==
  ASSUME ancestorTree \in [Names -> Nat], NamesIdentify, NEW nodes \in Seq(Nodes),
         NEW state, state.actions = Listing(nodes), NEW r, r[1] \in ActionNodes
  PROVE  Entry(r) \in Listed(state) <=>
           \E i \in 1 .. Len(nodes) : nodes[i] = r[1] /\ OutputOf(r[1]) = r[2]
<1>1. Listed(state) = Pairs(Listing(nodes))
  BY DEF Listed, Pairs
<1>2. Entry(r) \in Listed(state) <=>
        \E i \in 1 .. Len(nodes) : Named(nodes[i]) /\ Entry(r) = <<NameOf[nodes[i]], OutputOf(nodes[i])>>
  BY <1>1, ListedPairs
<1>3. ASSUME NEW i \in 1 .. Len(nodes)
      PROVE  (Named(nodes[i]) /\ Entry(r) = <<NameOf[nodes[i]], OutputOf(nodes[i])>>)
               <=> (nodes[i] = r[1] /\ OutputOf(r[1]) = r[2])
  <2>1. nodes[i] \in Nodes /\ Named(r[1])
    BY DEF NamesIdentify
  <2>2. Entry(r) = <<NameOf[nodes[i]], OutputOf(nodes[i])>>
          <=> NameOf[r[1]] = NameOf[nodes[i]] /\ r[2] = OutputOf(nodes[i])
    BY DEF Entry
  <2>3. NameOf[r[1]] = NameOf[nodes[i]] => nodes[i] = r[1]
    BY <2>1 DEF NamesIdentify
  <2>4. QED
    BY <2>1, <2>2, <2>3
<1>4. QED
  BY <1>2, <1>3

\* After a save the process knows what is listed, and lists what it knows.
LEMMA SavedIsKnown ==
  ASSUME TypeOK, TypeOK', NamesIdentify, SavesList, NEW r, r[1] \in ActionNodes
  PROVE  Entry(r) \in Listed(store') <=> Known(r)'
<1>1. /\ completed' \in Seq(Nodes) /\ ancestorTree \in [Names -> Nat]
      /\ store'.actions = Listing(completed') /\ ancestorTree' = ancestorTree
  BY DEF SavesList, TypeOK, ExecutorTypeOK
<1>2. Entry(r) \in Listed(store') <=>
        \E i \in 1 .. Len(completed') : completed'[i] = r[1] /\ OutputOf(r[1]) = r[2]
  BY <1>1, ListsOutputs
<1>3. Known(r)' <=> \E i \in 1 .. Len(completed') : completed'[i] = r[1] /\ OutputOf(r[1]) = r[2]
  BY <1>1 DEF Known, OutputOf, Named
<1>4. QED
  BY <1>2, <1>3

\* A process does not forget a resource: an output in the tree is replaced only when
\* its action is executed, which is not on the list then.
LEMMA StaysKnown ==
  ASSUME TypeOK, OrderInv, ListInv, NamesIdentify, Running, NEW r, r[1] \in ActionNodes, Known(r)
  PROVE  Known(r)'
<1>1. /\ completed \in Seq(Nodes) /\ ancestorTree \in [Names -> Nat] /\ order \in Seq(Nodes)
      /\ pc \in {"DoIt", "nodeDone"} => pos \in 1 .. Len(order) /\ CurrentNode \in Nodes
  BY DEF TypeOK, ExecutorTypeOK, ControlTypeOK, CurrentNode
<1>2. PICK i \in 1 .. Len(completed) : completed[i] = r[1] /\ OutputOf(r[1]) = r[2]
  BY DEF Known
<1>3. CASE DoItSucceeds
  <2>1. /\ pc = "DoIt" /\ completed' = completed
        /\ ancestorTree' = IF Named(CurrentNode)
                             THEN [ancestorTree EXCEPT ![NameOf[CurrentNode]] = serial']
                             ELSE ancestorTree
    BY <1>3 DEF DoItSucceeds, listVars
  <2>2. r[1] # CurrentNode
    <3>1. i \in 1 .. pos - 1 /\ completed[i] = order[i] /\ i \in 1 .. Len(order) /\ i # pos
      BY <1>1, <2>1 DEF ListInv, Forward
    <3>2. order \in TopologicalOrders(edges)
      BY <2>1 DEF OrderInv, Forward
    <3>3. \A k, l \in 1 .. Len(order) : order[k] = order[l] => k = l
      BY <3>2, OrderFacts
    <3>4. QED
      BY <1>1, <1>2, <2>1, <3>1, <3>3 DEF CurrentNode
  <2>3. NameOf[CurrentNode] # NameOf[r[1]]
    BY <1>1, <2>1, <2>2 DEF NamesIdentify
  <2>4. OutputOf(r[1])' = OutputOf(r[1])
    BY <1>1, <2>1, <2>3 DEF OutputOf, Named
  <2>5. QED
    BY <1>2, <2>1, <2>4 DEF Known
<1>4. CASE NodeCompleted
  <2>1. completed' = Append(completed, CurrentNode) /\ ancestorTree' = ancestorTree
        /\ CurrentNode \in Nodes
    BY <1>1, <1>4 DEF NodeCompleted, nodeVars
  <2>2. i \in 1 .. Len(completed') /\ completed'[i] = completed[i]
    BY <1>1, <2>1
  <2>3. OutputOf(r[1])' = OutputOf(r[1])
    BY <2>1 DEF OutputOf, Named
  <2>4. QED
    BY <1>2, <2>2, <2>3 DEF Known
<1>5. CASE UNCHANGED <<completed, ancestorTree>>
  <2>1. OutputOf(r[1])' = OutputOf(r[1])
    BY <1>5 DEF OutputOf, Named
  <2>2. QED
    BY <1>2, <1>5, <2>1 DEF Known
<1>6. QED
  BY <1>3, <1>4, <1>5, RunningIsNext, TreeSteps, ListSteps

\* The one call of a deploy saves the list, or tears the record, or leaves it alone and
\* the deploy still has saved nothing.
LEMMA FirstSave ==
  ASSUME TypeOK, CommandInv, Running, Unsaved
  PROVE  /\ Execute
         /\ SavesList \/ store' = Torn \/ (store' = store /\ Unsaved')
<1>1. Execute
  BY CommandRuns, RunningIsNext DEF Unsaved
<1>2. ancestorTree \in [Names -> Nat] /\ completed \in Seq(Nodes) /\ completed' = completed
  BY <1>1 DEF Execute, listVars, TypeOK, ExecutorTypeOK
<1>3. UNCHANGED <<ancestorTree, command>> /\ UNCHANGED worldVars
  BY <1>1, RunningIsNext DEF Execute, nodeVars
<1>4. CASE Saves("running", completed)
  <2>1. store'.actions = Listing(completed)
    BY <1>2, <1>4, ListingPlaces DEF Saves
  <2>2. QED
    BY <1>1, <1>2, <1>3, <2>1 DEF SavesList
<1>5. CASE SaveFails /\ result' = "notSaved" /\ pc' = pc
  BY <1>1, <1>3, <1>5 DEF SaveFails, Unsaved
<1>6. QED
  BY <1>1, <1>4, <1>5 DEF Execute

\* The first save of a deploy ends what it could not read, and nothing brings it back.
LEMMA NextUnreadInv ==
  ASSUME TypeOK, CommandInv, StoreInv, UnreadInv, [LifeNext]_allVars
  PROVE  UnreadInv'
<1>1. Listed(store) \subseteq Names \X Nat
  <2>1. \A i \in 1 .. Len(store.actions) :
          store.actions[i].name \in Names /\ store.actions[i].output \in Nat
    <3>1. \A i \in 1 .. Len(store.actions) : store.actions[i] \in Saved
      BY DEF StoreInv
    <3>2. QED
      BY <3>1 DEF Saved
  <2>2. QED
    BY <2>1, ListedInPlaces
<1>2. CASE Running
  <2>1. UNCHANGED <<command, unread>>
    BY <1>2, RunningIsNext
  <2>2. ASSUME Unsaved'
        PROVE  Listed(store') \subseteq unread
    <3>1. Execute
      BY <1>2, <2>1, <2>2, RunningIsNext, StepFacts DEF Unsaved
    <3>2. Unsaved
      BY <1>2, <3>1, RunningIsNext DEF CommandInv, Unsaved
    <3>3. SaveFails
      BY <2>2, <3>1 DEF Execute, Unsaved
    <3>4. QED
      BY <3>2, <3>3, NothingListed DEF SaveFails, UnreadInv
  <2>3. QED
    BY <2>1, <2>2 DEF UnreadInv, Listed
<1>3. CASE Deploy /\ StartDeploy
  <2>1. store' = store /\ unread \subseteq unread'
        /\ (unread' = unread \/ unread' = unread \cup Listed(store))
    BY <1>3 DEF Deploy, storeVars
  <2>2. Listed(store) \subseteq unread'
    BY <1>3, <2>1, NothingListed DEF Deploy, Refuse, StartDeploy
  <2>3. QED
    BY <1>1, <2>1, <2>2 DEF UnreadInv, Listed
<1>4. CASE UNCHANGED <<vars, command, unread>>
  BY <1>4 DEF vars, controlVars, callVars, storeVars, UnreadInv, Unsaved, Listed
<1>5. CASE command' # "deploy" /\ unread' = unread
  BY <1>5 DEF UnreadInv, Unsaved
<1>6. QED
  BY <1>2, <1>3, <1>4, <1>5, LifeSteps
     DEF Destroy, DeployReturns, DestroyReturns, Crash, Exit, Refuse, allVars, lifeVars

LEMMA NextKnownInv ==
  ASSUME TypeOK, TypeOK', OrderInv, OrderInv', WorldInv, CommandInv, ListInv, StoreInv, KnownInv,
         [LifeNext]_allVars
  PROVE  KnownInv'
<1> SUFFICES ASSUME NamesIdentify
             PROVE  /\ command' # "none" /\ ~Unsaved' =>
                         \A r \in live' : Entry(r) \in Listed(store') => Known(r)'
                    /\ command' = "destroy" =>
                         \A r \in live' : Entry(r) \in Listed(loaded') => Known(r)'
  BY DEF KnownInv, NamesIdentify, Named, Entry, Listed
<1>1. \A r \in live \cup live' : r[1] \in ActionNodes
  BY DEF OrderInv
<1>2. serial \in Nat /\ live \subseteq Nodes \X Nat
  BY DEF TypeOK, EnvironmentTypeOK
<1>3. CASE Running
  <2>1. command # "none" /\ UNCHANGED <<command, loaded>>
    BY <1>3, CommandRuns, RunningIsNext
  <2>2. ASSUME ~Unsaved', NEW r \in live', Entry(r) \in Listed(store')
        PROVE  Known(r)'
    <3>1. CASE SavesList
      BY <1>1, <2>2, <3>1, SavedIsKnown
    <3>2. CASE store' = store
      <4>1. Unsaved => SavesList \/ store' = Torn
        BY <1>3, <2>1, <2>2, FirstSave DEF Unsaved
      <4>2. CASE ~Unsaved
        BY <1>1, <1>3, <2>1, <2>2, <3>2, <4>2, ListedIsOld, StaysKnown DEF KnownInv
      <4>3. QED
        BY <2>2, <3>1, <4>1, <4>2, NothingListed
    <3>3. store' # Torn
      BY <2>2, NothingListed
    <3>4. ~DestroyReturns
      BY <1>3, <2>1 DEF DestroyReturns, Exit
    <3>5. QED
      BY <3>1, <3>2, <3>3, <3>4, LifeStoreSteps
  <2>3. ASSUME command' = "destroy", NEW r \in live', Entry(r) \in Listed(loaded')
        PROVE  Known(r)'
    <3>1. r \in live
      <4>1. Rollback \/ Step
        BY <1>3, <2>1, <2>3, RunningIsNext
      <4>2. Rollback => live' = live
        BY DEF Rollback, worldVars
      <4>3. Step => live' \subseteq live
        BY <2>1, <2>3, StepFacts DEF CommandInv
      <4>4. QED
        BY <4>1, <4>2, <4>3
    <3>2. QED
      BY <1>1, <1>3, <2>1, <2>3, <3>1, StaysKnown DEF KnownInv
  <2>4. QED
    BY <2>2, <2>3
<1>4. CASE StartDeploy
  BY <1>4 DEF StartDeploy, NewExecutor, Executor, Unsaved
<1>5. CASE Destroy /\ Readable /\ Restore(Found)
  <2>1. UNCHANGED <<live, store>>
    BY <1>5 DEF Destroy, storeVars, worldVars
  <2>2. ASSUME NEW r \in live', Entry(r) \in Listed(store')
        PROVE  Known(r)'
    <3>1. \E i \in 1 .. Len(completed') :
            completed'[i] = r[1] /\ ancestorTree'[NameOf[r[1]]] = r[2]
      BY <1>2, <1>5, <2>1, <2>2, Restored
    <3>2. Named(r[1])
      BY <1>1, <2>2 DEF NamesIdentify
    <3>3. QED
      BY <3>1, <3>2 DEF Known, OutputOf, Named
  <2>3. command' = "destroy" => loaded' = store
    BY <1>5 DEF Destroy, Refuse, CommandInv
  <2>4. QED
    BY <2>1, <2>2, <2>3
<1>6. CASE command' = "none"
  BY <1>6
<1>7. CASE UNCHANGED <<vars, loaded, command>>
  BY <1>7 DEF vars, nodeVars, listVars, storeVars, worldVars, controlVars, callVars, KnownInv, Unsaved, Known,
              OutputOf, Named
<1>8. QED
  BY <1>3, <1>4, <1>5, <1>6, <1>7, LifeSteps
     DEF DeployReturns, DestroyReturns, Crash, Exit, allVars, lifeVars

----------------------------------------------------------------------------
(* What compensation has undone *)

\* A step that takes the tree along and makes nothing does not bring a resource back.
LEMMA StaysGone ==
  ASSUME UNCHANGED ancestorTree, live' \subseteq live, NEW n, Gone(n)
  PROVE  Gone(n)'
<1>1. OutputOf(n)' = OutputOf(n)
  BY DEF OutputOf, Named
<1>2. QED
  BY <1>1 DEF Gone

\* The loop of compensate goes down the list; what it passes it has undone.
LEMMA NextGoneInv ==
  ASSUME TypeOK, OrderInv, GoneInv, [LifeNext]_allVars
  PROVE  GoneInv'
<1>1. /\ completed \in Seq(Nodes) /\ Len(completed) \in Nat /\ pos \in Nat
      /\ pc \in {"UndoIt", "undoFailed"} => pos \in 1 .. Len(completed)
      /\ pc # "idle" => result = "none"
  BY DEF TypeOK, ExecutorTypeOK, ControlTypeOK, OrderInv
<1> DEFINE Through(k) == \A i \in k + 1 .. Len(completed) : Gone(completed[i])
<1>2. ASSUME UNCHANGED <<completed, ancestorTree>>, live' \subseteq live
      PROVE  \A k : Through(k) => \A i \in k + 1 .. Len(completed') : Gone(completed[i])'
  <2>1. \A n : Gone(n) => Gone(n)'
    BY <1>2, StaysGone
  <2>2. QED
    BY <1>2, <2>1
<1>3. CASE NewExecutor \/ Restore(Found)
  BY <1>3 DEF NewExecutor, Restore, Executor, GoneInv, Backward
<1>4. CASE UNCHANGED vars
  <2>1. UNCHANGED <<pc, pos, result, completed, ancestorTree, live>>
    BY <1>4 DEF vars, controlVars, listVars, nodeVars, worldVars
  <2>2. NodeToUndo' = NodeToUndo
    BY <2>1 DEF NodeToUndo
  <2>3. \A n : Gone(n) => Gone(n)'
    BY <2>1, StaysGone
  <2>4. QED
    BY <2>1, <2>2, <2>3 DEF GoneInv
<1>5. CASE Running /\ (Execute \/ Rollback)
  <2>1. CASE Execute
    BY <2>1 DEF Execute, GoneInv, Backward
  <2>2. CASE Rollback
    <3>1. /\ \/ pc' = "idle" /\ result' = "nothingToRollback"
             \/ pc' = "undo" /\ result' = "none"
          /\ pc' = "undo" => pos' = Len(completed')
          /\ pc = "idle"
      BY <2>2 DEF Rollback, listVars
    <3>2. Len(completed') \in Nat
      BY <2>2, <1>1 DEF Rollback, listVars
    <3>3. QED
      BY <3>1, <3>2 DEF GoneInv, Backward
  <2>3. QED
    BY <1>5, <2>1, <2>2
<1>6. CASE SkipNode \/ ActionMissing \/ StartNode \/ DoItSucceeds \/ DoItFails \/ NodeCompleted
  <2>1. pc' \in Forward /\ result' = "none"
    BY <1>1, <1>6 DEF SkipNode, ActionMissing, StartNode, DoItSucceeds, DoItFails, NodeCompleted,
                      Goto, Forward
  <2>2. QED
    BY <2>1 DEF GoneInv, Forward, Backward
<1>7. CASE NodeFailed
  <2>1. pc' = "undo" /\ pos' = Len(completed') /\ result' = "none" /\ completed' = completed
    BY <1>1, <1>7 DEF NodeFailed
  <2>2. QED
    BY <1>1, <2>1 DEF GoneInv, Backward
<1>8. CASE SagaCompleted \/ CompensationFails
  BY <1>8 DEF SagaCompleted, CompensationFails, Return, GoneInv, Backward
<1>9. CASE SkipUndo
  <2>1. /\ UNCHANGED <<completed, ancestorTree, live>> /\ pc = "undo" /\ pc' = "undo"
        /\ pos' = pos - 1 /\ pos > 0 /\ result' = result /\ NodeToUndo \notin ActionNodes
    BY <1>9 DEF SkipUndo, listVars, worldVars
  <2>2. Gone(completed[pos])
    BY <2>1 DEF Gone, NodeToUndo
  <2>3. Through(pos)
    BY <2>1 DEF GoneInv, Backward
  <2>4. Through(pos - 1)
    <3>1. \A i \in (pos - 1) + 1 .. Len(completed) : i = pos \/ i \in pos + 1 .. Len(completed)
      BY <1>1
    <3>2. QED
      BY <2>2, <2>3, <3>1
  <2>5. QED
    BY <1>1, <1>2, <2>1, <2>4 DEF GoneInv
<1>10. CASE StartUndo \/ UndoItFails
  <2>1. /\ UNCHANGED <<completed, ancestorTree, live, pos, result>> /\ pc \in Backward
        /\ pc' # "idle" /\ pc # "idle"
        /\ pc' = "UndoIt" => NodeToUndo \in ActionNodes /\ NodeToUndo' = NodeToUndo
    BY <1>10 DEF StartUndo, UndoItFails, Goto, listVars, nodeVars, worldVars, Backward, NodeToUndo
  <2>2. Through(pos)
    BY <2>1 DEF GoneInv
  <2>3. QED
    BY <1>1, <1>2, <2>1, <2>2 DEF GoneInv
<1>11. CASE UndoItSucceeds
  <2>1. /\ UNCHANGED <<completed, ancestorTree>> /\ pc = "UndoIt" /\ pc' = "undo"
        /\ pos' = pos - 1 /\ result' = result
        /\ live' = {r \in live : r[2] # OutputOf(NodeToUndo)}
    BY <1>11 DEF UndoItSucceeds, listVars
  <2>2. \A n : n = completed[pos] => Gone(n)'
    <3>1. \A n : OutputOf(n)' = OutputOf(n)
      BY <2>1 DEF OutputOf, Named
    <3>2. \A r \in live' : r[2] # OutputOf(completed[pos])
      BY <2>1 DEF NodeToUndo
    <3>3. QED
      BY <3>1, <3>2 DEF Gone
  <2>3. \A n : Gone(n) => Gone(n)'
    BY <2>1, StaysGone
  <2>4. \A i \in pos + 1 .. Len(completed) : Gone(completed[i])
    BY <2>1 DEF GoneInv, Backward
  <2>5. \A i \in pos' + 1 .. Len(completed') : i = pos \/ i \in pos + 1 .. Len(completed)
    BY <1>1, <2>1
  <2>6. \A i \in pos' + 1 .. Len(completed') : Gone(completed[i])'
    BY <2>1, <2>2, <2>3, <2>4, <2>5
  <2>7. QED
    BY <1>1, <2>1, <2>6 DEF GoneInv
<1>12. CASE CompensationSucceeds
  <2>1. /\ UNCHANGED <<completed, ancestorTree, live>> /\ pc = "undo" /\ pos = 0 /\ pc' = "idle"
    BY <1>12 DEF CompensationSucceeds, Return, listVars, nodeVars, worldVars
  <2>2. Through(0)
    BY <2>1 DEF GoneInv, Backward
  <2>3. \A i \in 1 .. Len(completed') : Gone(completed[i])'
    <3>1. \A i \in 0 + 1 .. Len(completed') : Gone(completed[i])'
      BY <1>2, <2>1, <2>2
    <3>2. QED
      BY <3>1
  <2>4. QED
    BY <2>1, <2>3 DEF GoneInv, Backward
<1>13. QED
  BY <1>3, <1>4, <1>5, <1>6, <1>7, <1>8, <1>9, <1>10, <1>11, <1>12, LifeSteps, RunningIsNext
     DEF Step, allVars

\* A deploy adds one possible mishap of its own, the action that fails; it is used up
\* when the loop of Execute is left.
LEMMA NextBookInv ==
  ASSUME TypeOK, CommandInv, BookInv, [LifeNext]_allVars
  PROVE  BookInv'
<1>1. /\ mishaps \in Nat /\ deploys \in Nat /\ executes \in Nat
  BY DEF BookInv, MishapInv, TypeOK, EnvironmentTypeOK
<1>2. CASE Running
  <2>1. UNCHANGED <<command, loaded, outcome, deploys>> /\ command # "none"
    BY <1>2, RunningIsNext, CommandRuns
  <2>2. MayFail' => MayFail
    <3>1. Execute \/ Rollback \/ Step
      BY <1>2, RunningIsNext
    <3>2. Execute => executes = 0
      BY <1>2, RunningIsNext
    <3>3. Rollback => command # "deploy"
      BY <1>2, RunningIsNext
    <3>4. Step => executes' = executes /\ (pc' \in {"node", "DoIt", "nodeDone"} => pc \in {"node", "DoIt", "nodeDone"})
      BY StepFacts
    <3>5. QED
      BY <2>1, <3>1, <3>2, <3>3, <3>4 DEF MayFail
  <2>3. ASSUME mishaps' # mishaps
        PROVE  mishaps' = mishaps + 1 /\ MayFail /\ ~MayFail'
    <3>1. mishaps' = mishaps + 1 /\ pc' = "nodeFailed" /\ live' # live
      BY <1>2, <2>3 DEF Running
    <3>2. Step /\ pc \in {"node", "DoIt"} /\ executes' = executes
      <4>1. ~Execute /\ ~Rollback
        BY <3>1 DEF Execute, Rollback, worldVars
      <4>2. QED
        BY <1>2, <3>1, <4>1, RunningIsNext, StepFacts
    <3>3. command = "deploy" /\ executes # 0
      BY <2>1, <3>2 DEF CommandInv, Commands, Forward
    <3>4. QED
      BY <2>1, <3>1, <3>2, <3>3 DEF MayFail
  <2>4. MishapInv'
    BY <1>1, <2>1, <2>2, <2>3 DEF BookInv, MishapInv
  <2>5. QED
    BY <2>1, <2>4 DEF BookInv
<1>3. CASE Deploy
  <2>1. /\ deploys' = deploys + 1 /\ deploys < MaxDeploys /\ mishaps' = mishaps /\ command = "none"
        /\ outcome' \in {"none", "exists"} /\ loaded' = loaded
    BY <1>3 DEF Deploy, StartDeploy, Refuse
  <2>2. ~MayFail
    BY <2>1 DEF MayFail
  <2>3. QED
    BY <1>1, <2>1, <2>2 DEF BookInv, MishapInv, Outcomes
<1>4. CASE Destroy
  <2>1. /\ deploys' = deploys /\ mishaps' = mishaps /\ command = "none" /\ command' # "deploy"
        /\ outcome' \in {"none", "notLoaded", "alreadyRolledBack"}
        /\ (loaded' = loaded \/ (Readable /\ loaded' = store))
    BY <1>4 DEF Destroy, Refuse
  <2>2. ~MayFail /\ ~MayFail'
    BY <2>1 DEF MayFail
  <2>3. loaded' = NoState \/ loaded'.status \in Statuses
    BY <2>1 DEF BookInv, Readable
  <2>4. QED
    BY <2>1, <2>2, <2>3 DEF BookInv, MishapInv, Outcomes
<1>5. CASE DeployReturns \/ DestroyReturns
  <2>1. /\ UNCHANGED <<loaded, deploys, mishaps>> /\ command' = "none"
        /\ outcome' \in {"deployed", "deployFailed", "destroyed", "destroyFailed"}
    BY <1>5 DEF DeployReturns, DestroyReturns, Exit
  <2>2. ~MayFail'
    BY <2>1 DEF MayFail
  <2>3. QED
    BY <1>1, <2>1, <2>2 DEF BookInv, MishapInv, Outcomes
<1>6. CASE Crash
  <2>1. /\ UNCHANGED <<loaded, deploys>> /\ command' = "none" /\ outcome' = "crashed"
        /\ mishaps < MaxMishaps /\ mishaps' = mishaps + 1
    BY <1>6 DEF Crash, Exit
  <2>2. ~MayFail'
    BY <2>1 DEF MayFail
  <2>3. QED
    BY <1>1, <2>1, <2>2 DEF BookInv, MishapInv, Outcomes
<1>7. CASE UNCHANGED allVars
  BY <1>7 DEF allVars, lifeVars, vars, controlVars, callVars, BookInv, MishapInv, MayFail
<1>8. QED
  BY <1>2, <1>3, <1>4, <1>5, <1>6, <1>7 DEF LifeNext

----------------------------------------------------------------------------
(* Nothing listed is forgotten, and little is lost *)

\* Whatever the command, a resource that the store lists stays listed while it is there,
\* but for the first save of a deploy, which could not read what it overwrites.
LEMMA StaysListed ==
  ASSUME TypeOK, TypeOK', OrderInv, WorldInv, CommandInv, ListInv, StoreInv, KnownInv, UnreadInv,
         GoneInv, [LifeNext]_allVars, "torn" \notin FailedSaves, NamesIdentify,
         NEW r \in live, Entry(r) \in Listed(store)
  PROVE  r \in live' =>
           Entry(r) \in Listed(store') \/ (OverwritesUnread /\ Entry(r) \in unread)
<1>1. r[1] \in ActionNodes
  BY DEF OrderInv
<1>2. CASE store' = store
  BY <1>2
<1>3. CASE Running /\ SavesList /\ ~Unsaved
  <2>1. Known(r)'
    BY <1>1, <1>3, CommandRuns, StaysKnown DEF KnownInv
  <2>2. QED
    BY <1>1, <1>3, <2>1, SavedIsKnown
<1>4. CASE DestroyReturns /\ result = "rolledBack"
  <2>1. command = "destroy"
    BY <1>4 DEF DestroyReturns
  <2>2. PICK i \in 1 .. Len(completed) : completed[i] = r[1] /\ OutputOf(r[1]) = r[2]
    BY <2>1 DEF KnownInv, Known, Unsaved
  <2>3. Gone(r[1])
    BY <1>4, <2>2 DEF GoneInv
  <2>4. QED
    BY <1>1, <2>2, <2>3 DEF Gone
<1>5. CASE Running /\ Unsaved
  BY <1>5, FirstSave DEF OverwritesUnread, Unsaved, UnreadInv
<1>6. QED
  BY <1>2, <1>3, <1>4, <1>5, LifeStoreSteps

\* The resource that is just being added, in the state before or after the step.
Adding == {r \in live : pc = "nodeDone" /\ r = <<CurrentNode, OutputOf(CurrentNode)>>}

LEMMA UntrackedIs ==
  /\ \A r : r \in Untracked <=>
       r \in live /\ Entry(r) \notin Listed(store) \cup unread /\ r \notin Adding
  /\ \A r : r \in Untracked' <=>
       r \in live' /\ Entry(r) \notin Listed(store') \cup unread' /\ r \notin Adding'
BY DEF Untracked, Adding, Entry, Listed

\* The resource of a node that is completed is stored with it.
LEMMA AddedIsSaved ==
  ASSUME TypeOK, TypeOK', OrderInv, NamesIdentify, NodeCompleted, ~warned',
         NEW r \in Adding
  PROVE  Entry(r) \in Listed(store')
<1>1. /\ completed \in Seq(Nodes) /\ ancestorTree \in [Names -> Nat] /\ CurrentNode \in Nodes
  BY DEF NodeCompleted, TypeOK, ExecutorTypeOK, ControlTypeOK, CurrentNode
<1>2. /\ completed' = Append(completed, CurrentNode) /\ completed' \in Seq(Nodes)
      /\ UNCHANGED <<ancestorTree, worldVars>>
      /\ store' = Snapshot("running", completed')
  BY <1>1 DEF NodeCompleted, nodeVars, Persist, Saves
<1>3. SavesList
  BY <1>1, <1>2, ListingPlaces DEF SavesList
<1>4. r[1] = CurrentNode /\ r[2] = OutputOf(CurrentNode) /\ r[1] \in ActionNodes
  BY DEF Adding, OrderInv
<1>5. Known(r)'
  <2>1. Len(completed) + 1 \in 1 .. Len(completed') /\ completed'[Len(completed) + 1] = CurrentNode
    BY <1>1, <1>2
  <2>2. OutputOf(r[1])' = OutputOf(r[1])
    BY <1>2 DEF OutputOf, Named
  <2>3. QED
    BY <1>4, <2>1, <2>2 DEF Known
<1>6. QED
  BY <1>3, <1>4, <1>5, SavedIsKnown

LEMMA MishapsGrow ==
  ASSUME [LifeNext]_allVars
  PROVE  (mishaps' = mishaps \/ mishaps' = mishaps + 1) /\ unread \subseteq unread'
BY DEF LifeNext, Deploy, Destroy, DeployReturns, DestroyReturns, Running, Crash, allVars, lifeVars

\* A step leaves one resource more untracked at most, and only one that counts as a mishap.
LEMMA OneMoreUntracked ==
  ASSUME TypeOK, TypeOK', OrderInv, WorldInv, CommandInv, ListInv, StoreInv, KnownInv, GoneInv,
         UnreadInv, BookInv, [LifeNext]_allVars, "torn" \notin FailedSaves, NamesIdentify, ~warned'
  PROVE  \/ Untracked' \subseteq Untracked /\ mishaps' >= mishaps
         \/ mishaps' = mishaps + 1 /\ \E r : Untracked' \subseteq Untracked \cup {r}
<1>1. /\ mishaps \in Nat /\ ancestorTree \in [Names -> Nat]
      /\ pc = "DoIt" => CurrentNode \in ActionNodes
  BY DEF BookInv, MishapInv, TypeOK, ExecutorTypeOK, OrderInv
<1>2. ASSUME NEW r \in Untracked', r \notin Untracked
      PROVE  r \in Adding \/ r \in live' \ live
  <2>1. r \in live' /\ Entry(r) \notin Listed(store') /\ Entry(r) \notin unread
    BY UntrackedIs, MishapsGrow
  <2>2. r \in live => Entry(r) \notin Listed(store)
    BY <2>1, StaysListed
  <2>3. QED
    BY <1>2, <2>1, <2>2, UntrackedIs
<1>3. mishaps' >= mishaps
  BY <1>1, MishapsGrow
<1>4. Adding # {} => Adding = {<<CurrentNode, OutputOf(CurrentNode)>>} /\ pc = "nodeDone"
  BY DEF Adding
<1>5. live' \ live # {} => pc = "DoIt" /\ live' \ live = {<<CurrentNode, serial'>>}
  BY WorldSteps DEF worldVars, Adds, Removes
<1>6. CASE mishaps' = mishaps + 1
  <2>1. \E r : Adding \cup (live' \ live) \subseteq {r}
    BY <1>4, <1>5
  <2>2. PICK r : Adding \cup (live' \ live) \subseteq {r}
    BY <2>1
  <2>3. Untracked' \subseteq Untracked \cup {r}
    BY <1>2, <2>2
  <2>4. QED
    BY <1>6, <2>3
<1>7. CASE mishaps' # mishaps + 1
  <2>1. (pc # "idle" => Running) \/ UNCHANGED allVars
    BY <1>7 DEF LifeNext, Deploy, Destroy, DeployReturns, DestroyReturns, Crash, CommandInv
  <2>2. ASSUME NEW r \in Untracked', r \notin Untracked, r \in Adding
        PROVE  FALSE
    <3>1. pc = "nodeDone"
      BY <2>2 DEF Adding
    <3>2. CASE Running
      <4>1. NodeCompleted
        BY <3>1, <3>2, RunningIsNext, OnlyCompletes
      <4>2. QED
        BY <2>2, <4>1, AddedIsSaved, UntrackedIs
    <3>3. CASE UNCHANGED allVars
      <4>1. UNCHANGED <<live, store, pc, order, pos, ancestorTree, unread>>
        BY <3>3 DEF allVars, lifeVars, vars, worldVars, storeVars, controlVars, nodeVars
      <4>2. Untracked' = Untracked
        BY <4>1 DEF Untracked, OutputOf, Named, CurrentNode, Entry, Listed
      <4>3. QED
        BY <2>2, <4>2
    <3>4. QED
      BY <2>1, <3>1, <3>2, <3>3
  <2>3. ASSUME NEW r \in Untracked', r \in live' \ live
        PROVE  FALSE
    <3>1. pc = "DoIt" /\ r = <<CurrentNode, serial'>> /\ ~UNCHANGED worldVars
      BY <1>5, <2>3 DEF worldVars
    <3>2. Running
      BY <2>1, <3>1 DEF allVars, vars
    <3>3. DoItSucceeds \/ DoItFails
      BY <3>1, <3>2, RunningIsNext, ExecutorWorld DEF UndoItSucceeds
    <3>4. ~DoItFails
      <4>1. DoItFails => pc' = "nodeFailed"
        BY DEF DoItFails, Goto
      <4>2. live' # live
        BY <2>3
      <4>3. QED
        BY <1>7, <3>2, <4>1, <4>2 DEF Running
    <3>5. /\ pc' = "nodeDone" /\ UNCHANGED <<order, pos>>
          /\ ancestorTree' = IF Named(CurrentNode)
                               THEN [ancestorTree EXCEPT ![NameOf[CurrentNode]] = serial']
                               ELSE ancestorTree
      BY <3>3, <3>4 DEF DoItSucceeds, Goto
    <3>6. CurrentNode \in ActionNodes /\ Named(CurrentNode) /\ NameOf[CurrentNode] \in Names
      BY <1>1, <3>1 DEF NamesIdentify, Named
    <3>7. \A n : n = CurrentNode => OutputOf(n)' = serial'
      BY <1>1, <3>5, <3>6 DEF OutputOf, Named
    <3>8. r \in Adding'
      BY <2>3, <3>1, <3>5, <3>7 DEF Adding, CurrentNode
    <3>9. QED
      BY <2>3, <3>8, UntrackedIs
  <2>4. Untracked' \subseteq Untracked
    BY <1>2, <2>2, <2>3
  <2>5. QED
    BY <1>3, <2>4
<1>8. QED
  BY <1>6, <1>7

LEMMA NextOneLost ==
  ASSUME TypeOK, TypeOK', OrderInv, WorldInv, CommandInv, ListInv, StoreInv, KnownInv, GoneInv,
         UnreadInv, BookInv, OneLostPerMishap, [LifeNext]_allVars
  PROVE  OneLostPerMishap'
<1> SUFFICES ASSUME ~warned', "torn" \notin FailedSaves, NamesIdentify
             PROVE  Cardinality(Untracked') <= mishaps'
  BY DEF OneLostPerMishap, NamesIdentify, Named
<1>1. ~warned
  BY LifeStoreSteps DEF TypeOK, EnvironmentTypeOK
<1>2. mishaps \in Nat
  BY DEF BookInv, MishapInv
<1>3. IsFiniteSet(Untracked) /\ Cardinality(Untracked) \in Nat /\ Cardinality(Untracked) <= mishaps
  <2>1. Untracked \subseteq live
    BY DEF Untracked
  <2>2. QED
    BY <1>1, <2>1, FS_Subset, FS_CardinalityType DEF WorldInv, OneLostPerMishap
<1>4. CASE Untracked' \subseteq Untracked /\ mishaps' >= mishaps
  <2>1. Cardinality(Untracked') <= Cardinality(Untracked) /\ Cardinality(Untracked') \in Nat
    BY <1>3, <1>4, FS_Subset, FS_CardinalityType
  <2>2. mishaps' \in Int
    BY <1>2, MishapsGrow
  <2>3. QED
    BY <1>2, <1>3, <1>4, <2>1, <2>2
<1>5. CASE mishaps' = mishaps + 1 /\ \E r : Untracked' \subseteq Untracked \cup {r}
  <2>1. PICK r : Untracked' \subseteq Untracked \cup {r}
    BY <1>5
  <2>2. /\ IsFiniteSet(Untracked \cup {r})
        /\ Cardinality(Untracked \cup {r}) <= Cardinality(Untracked) + 1
        /\ Cardinality(Untracked \cup {r}) \in Nat
    <3>1. /\ IsFiniteSet(Untracked \cup {r})
          /\ \/ Cardinality(Untracked \cup {r}) = Cardinality(Untracked)
             \/ Cardinality(Untracked \cup {r}) = Cardinality(Untracked) + 1
      BY <1>3, FS_AddElement
    <3>2. QED
      BY <1>3, <3>1
  <2>3. Cardinality(Untracked') <= Cardinality(Untracked \cup {r}) /\ Cardinality(Untracked') \in Nat
    BY <2>1, <2>2, FS_Subset, FS_CardinalityType
  <2>4. QED
    BY <1>2, <1>3, <1>5, <2>2, <2>3
<1>6. QED
  BY <1>1, <1>4, <1>5, OneMoreUntracked

----------------------------------------------------------------------------
(* The theorems *)

\* A destroy that returns with everything undone has undone all that it had loaded.
LEMMA NextDestroyed ==
  ASSUME OrderInv, CommandInv, KnownInv, GoneInv, DestroyedWhatWasListed, [LifeNext]_allVars
  PROVE  DestroyedWhatWasListed'
<1> SUFFICES ASSUME outcome' = "destroyed", NamesIdentify, NEW r \in live',
                    Entry(r) \in Listed(loaded')
             PROVE  FALSE
  BY DEF DestroyedWhatWasListed, NamesIdentify, Named, Entry, Listed
<1>1. CASE DestroyReturns
  <2>1. /\ result = "rolledBack" /\ command = "destroy" /\ loaded' = loaded /\ live' = live
    BY <1>1 DEF DestroyReturns, Exit, worldVars
  <2>2. PICK i \in 1 .. Len(completed) : completed[i] = r[1] /\ OutputOf(r[1]) = r[2]
    BY <2>1 DEF KnownInv, Known
  <2>3. Gone(r[1])
    BY <2>1, <2>2 DEF GoneInv
  <2>4. r[1] \in ActionNodes
    BY <2>1 DEF OrderInv
  <2>5. QED
    BY <2>1, <2>2, <2>3, <2>4 DEF Gone
<1>2. CASE UNCHANGED allVars
  BY <1>2 DEF allVars, vars, lifeVars, worldVars, DestroyedWhatWasListed
<1>3. CASE Running
  BY <1>3, RunningIsNext, CommandRuns
<1>4. CASE Deploy \/ Destroy \/ DeployReturns \/ Crash
  BY <1>4 DEF Deploy, StartDeploy, Destroy, DeployReturns, Crash, Exit, Refuse
<1>5. QED
  BY <1>1, <1>2, <1>3, <1>4 DEF LifeNext

LEMMA InitLInv == LifeInit => LInv
<1> SUFFICES ASSUME LifeInit
             PROVE  LInv
  OBVIOUS
<1> USE DEF LifeInit, Init, FreshExecutor, NoOutputs, NoOutput, NoState
<1>1. TypeOK
  BY InitTypeOK
<1>2. OrderInv
  BY DEF OrderInv, Forward
<1>3. WorldInv
  BY FS_EmptySet DEF WorldInv
<1>4. CommandInv
  BY DEF CommandInv, Commands, Readable, Statuses
<1>5. ListInv
  BY DEF ListInv, Forward
<1>6. StoreInv
  BY DEF StoreInv
<1>7. KnownInv
  BY DEF KnownInv
<1>8. GoneInv /\ UnreadInv
  BY DEF GoneInv, Backward, UnreadInv, Unsaved
<1>9. BookInv
  BY DEF BookInv, MishapInv, MayFail, Outcomes
<1>10. DestroyedWhatWasListed
  BY DEF DestroyedWhatWasListed
<1>11. OneLostPerMishap
  <2>1. Untracked = {}
    BY DEF Untracked
  <2>2. QED
    BY <2>1, FS_EmptySet DEF OneLostPerMishap
<1>12. QED
  BY <1>1, <1>2, <1>3, <1>4, <1>5, <1>6, <1>7, <1>8, <1>9, <1>10, <1>11 DEF LInv

LEMMA NextLInv == LInv /\ [LifeNext]_allVars => LInv'
<1> SUFFICES ASSUME LInv, [LifeNext]_allVars
             PROVE  LInv'
  OBVIOUS
<1> USE DEF LInv
<1>1. TypeOK' /\ OrderInv'
  BY NextLifeTypes
<1>2. WorldInv'
  BY NextWorldInv
<1>3. CommandInv'
  BY NextCommandInv
<1>4. ListInv'
  BY NextListInv
<1>5. StoreInv'
  BY <1>1, <1>2, <1>4, NextStoreInv
<1>6. KnownInv' /\ UnreadInv'
  BY <1>1, NextKnownInv, NextUnreadInv
<1>7. GoneInv'
  BY NextGoneInv
<1>8. BookInv'
  BY NextBookInv
<1>9. DestroyedWhatWasListed'
  BY NextDestroyed
<1>10. OneLostPerMishap'
  BY <1>1, NextOneLost
<1>11. QED
  BY <1>1, <1>2, <1>3, <1>4, <1>5, <1>6, <1>7, <1>8, <1>9, <1>10

LEMMA LifeSpecLInv == LifeSpec => []LInv
BY InitLInv, NextLInv, PTL DEF LifeSpec

\* Every process has the executor's types, a restored one too, and one that does not
\* run has no executor.
THEOREM LifeTypes == LifeSpec => []LifeTypeOK
<1>1. LInv => LifeTypeOK
  BY DEF LInv, LifeTypeOK, CommandInv, BookInv, MishapInv, UnreadInv
<1>2. QED
  BY <1>1, LifeSpecLInv, PTL

\* In a restored process, too, UndoIt is called when what depends on its node is gone.
THEOREM UndoRespects == LifeSpec => []UndoRespectsDependencies
<1>1. ASSUME LInv PROVE UndoRespectsDependencies
  <2> SUFFICES ASSUME pc = "UndoIt", NamesIdentify, NEW m \in ToSet(completed),
                      <<NodeToUndo, m>> \in edges, <<m, OutputOf(m)>> \in live
               PROVE  FALSE
    BY DEF UndoRespectsDependencies
  <2>1. completed \in Seq(Nodes) /\ pos \in 1 .. Len(completed)
    BY <1>1 DEF LInv, TypeOK, ExecutorTypeOK, ControlTypeOK
  <2>2. PICK j \in 1 .. Len(completed) : completed[j] = m
    BY <2>1 DEF ToSet
  <2>3. m \in ActionNodes /\ completed[pos] \in ActionNodes
    BY <1>1 DEF LInv, OrderInv, GoneInv, NodeToUndo
  <2>4. pos < j
    BY <1>1, <2>1, <2>2, <2>3 DEF LInv, ListInv, NodeToUndo
  <2>5. j \in pos + 1 .. Len(completed)
    BY <2>1, <2>4
  <2>6. Gone(m)
    BY <1>1, <2>2, <2>5 DEF LInv, GoneInv, Backward
  <2>7. QED
    BY <2>3, <2>6 DEF Gone
<1>2. QED
  BY <1>1, LifeSpecLInv, PTL

\* A destroy that reports success has removed all that it found listed.
THEOREM DestroyedIsGone == LifeSpec => []DestroyedWhatWasListed
BY LifeSpecLInv, PTL DEF LInv

\* What the store lists it lists until it is removed, over all commands and crashes,
\* but for the record that a deploy overwrites because its Load of it failed.
THEOREM StaysListedUntilRemoved == LifeSpec => ListedUntilRemoved
<1>1. LInv /\ LInv' /\ [LifeNext]_allVars =>
        [ "torn" \notin FailedSaves /\ NamesIdentify =>
            \A r \in live \cap live' : Entry(r) \in Listed(store) =>
              Entry(r) \in Listed(store') \/ (OverwritesUnread /\ Entry(r) \in unread)
        ]_allVars
  BY StaysListed DEF LInv
<1>2. QED
  BY <1>1, LifeSpecLInv, PTL DEF LifeSpec, ListedUntilRemoved

\* Each crash and each action that fails with something made costs one resource at most;
\* beyond that, only what a deploy could not read and overwrites is lost.
THEOREM OneLost == LifeSpec => []OneLostPerMishap
BY LifeSpecLInv, PTL DEF LInv

=============================================================================
