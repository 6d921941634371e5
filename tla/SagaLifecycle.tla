--------------------------- MODULE SagaLifecycle ---------------------------
(***************************************************************************)
(* The life of one saga id under the commands deploy and destroy of        *)
(* examples/persistent_cli/main.go.  Every command is a process: its       *)
(* executor is the one of SagaExecutor, its memory is gone when it ends or *)
(* is killed, and only the store and the outside world go on.  destroy     *)
(* makes its executor from what the store holds (NewExecutorFromState).    *)
(***************************************************************************)
EXTENDS SagaExecutor, FiniteSetsExt

CONSTANTS
  MaxDeploys,   \* bound: deploy commands
  MaxMishaps    \* bound: a process is killed while the mishaps are below it

ASSUME LifeBoundsAssumption == MaxDeploys \in Nat /\ MaxMishaps \in Nat

VARIABLES
  command,   \* the command that runs, or "none"
  loaded,    \* runDestroy's state: what the store held when destroy began
  outcome,   \* how the last command ended
  deploys,   \* deploy commands so far
  mishaps,   \* crashes, and failed actions that left something, so far
  unread     \* history: what was on record when a deploy began that could not read it

lifeVars == <<command, loaded, outcome, deploys, mishaps, unread>>
allVars == <<vars, lifeVars>>

LifeInit ==
  /\ Init
  /\ command = "none" /\ loaded = NoState /\ outcome = "none"
  /\ deploys = 0 /\ mishaps = 0 /\ unread = {}

\* A process has an executor with these nodes completed, and no call made on it.
Executor(list, states, outputs) ==
  /\ completed' = list /\ nodeState' = states /\ ancestorTree' = outputs
  /\ failed' = <<>> /\ executionTrace' = <<>>
  /\ pc' = "idle" /\ caller' = "none" /\ result' = "none"
  /\ order' = <<>> /\ pos' = 0
  /\ executes' = 0 /\ rollbacks' = 0

NewExecutor == Executor(<<>>, AllPending, NoOutputs)

\* The memory of the process is gone, its executor with it.
Exit(how) == NewExecutor /\ command' = "none" /\ outcome' = how

\* A command that ends before it makes an executor.
Refuse(how) ==
  /\ outcome' = how
  /\ UNCHANGED <<nodeVars, listVars, controlVars, callVars, command, loaded>>

\* The name and the output of what a DoIt made; those on record.
Entry(r) == <<NameOf[r[1]], r[2]>>
Listed(state) == {<<a.name, a.output>> : a \in ToSet(state.actions)}

----------------------------------------------------------------------------
(* deploy *)

StartDeploy == NewExecutor /\ command' = "deploy" /\ outcome' = "none" /\ UNCHANGED loaded

\* Mutant: only a saga that is running or completed stands in the way.
DeployOverFailed ==
  /\ command = "none" /\ deploys < MaxDeploys
  /\ deploys' = deploys + 1
  /\ IF store.status \in {"running", "completed"} THEN Refuse("exists") ELSE StartDeploy
  /\ UNCHANGED <<dagVars, storeVars, worldVars, mishaps, unread>>

\* runDeploy up to Execute.  Whatever error Load returns is taken for the id being
\* free: that there is no such saga, that its record is torn, and also that a record
\* which is whole could not be read this time.
Deploy ==
  /\ command = "none" /\ deploys < MaxDeploys
  /\ deploys' = deploys + 1
  /\ \/ Readable /\ Refuse("exists") /\ UNCHANGED unread
     \/ ~Readable /\ StartDeploy /\ UNCHANGED unread
     \/ Readable /\ StartDeploy /\ unread' = unread \cup Listed(store)
  /\ UNCHANGED <<dagVars, storeVars, worldVars, mishaps>>

DeployReturns ==
  /\ command = "deploy" /\ pc = "idle" /\ executes = 1
  /\ Exit(IF result = "completed" THEN "deployed" ELSE "deployFailed")
  /\ UNCHANGED <<dagVars, storeVars, worldVars, loaded, deploys, mishaps, unread>>

----------------------------------------------------------------------------
(* destroy *)

\* The saved actions with a node in the DAG; of the others a warning is printed.
Found ==
  Kept(store.actions, {a \in ToSet(store.actions) : \E n \in Nodes : NameOf[n] = a.name})

\* Of two actions with one name, the later one's output is in the tree.
RestoredOutputs(actions) ==
  [name \in Names |->
     LET given == {i \in DOMAIN actions : actions[i].name = name /\ actions[i].output # NoOutput}
     IN  IF given = {} THEN NoOutput ELSE actions[Max(given)].output]

\* GetNodeIndex finds some node of each name.
NodesOf(actions) ==
  {list \in [DOMAIN actions -> Nodes] : \A i \in DOMAIN actions : NameOf[list[i]] = actions[i].name}

\* Mutants of Restore: without the outputs; the list the wrong way round.
RestoreWithoutOutputs(actions) ==
  \E list \in NodesOf(actions) :
    Executor(list, [n \in Nodes |-> IF n \in ToSet(list) THEN "completed" ELSE "pending"], NoOutputs)
RestoreReversed(actions) ==
  \E list \in NodesOf(Reverse(actions)) :
    Executor(list, [n \in Nodes |-> IF n \in ToSet(list) THEN "completed" ELSE "pending"],
             RestoredOutputs(actions))

\* NewExecutorFromState.
Restore(actions) ==
  \E list \in NodesOf(actions) :
    Executor(list, [n \in Nodes |-> IF n \in ToSet(list) THEN "completed" ELSE "pending"],
             RestoredOutputs(actions))

\* runDestroy up to Rollback.  Load can fail on a record that is whole, too.
Destroy ==
  /\ command = "none"
  /\ \/ Refuse("notLoaded")
     \/ store.status = "rolled_back" /\ Refuse("alreadyRolledBack")
     \/ /\ Readable /\ store.status # "rolled_back"
        /\ Restore(Found)
        /\ loaded' = store /\ command' = "destroy" /\ outcome' = "none"
  /\ UNCHANGED <<dagVars, storeVars, worldVars, deploys, mishaps, unread>>

\* Mutant: the state is deleted whatever Rollback returned.
DestroyReturnsDeleted ==
  /\ command = "destroy" /\ pc = "idle" /\ rollbacks = 1
  /\ Exit(IF result = "rolledBack" THEN "destroyed" ELSE "destroyFailed")
  /\ store' = NoState
  /\ UNCHANGED <<dagVars, warned, worldVars, loaded, deploys, mishaps, unread>>

\* The end of runDestroy; a Delete that fails is a warning.
DestroyReturns ==
  /\ command = "destroy" /\ pc = "idle" /\ rollbacks = 1
  /\ \/ result = "rolledBack" /\ Exit("destroyed") /\ store' \in {NoState, store}
     \/ result # "rolledBack" /\ Exit("destroyFailed") /\ UNCHANGED store
  /\ UNCHANGED <<dagVars, warned, worldVars, loaded, deploys, mishaps, unread>>

----------------------------------------------------------------------------
(* The executor of the command, and the end of its process *)

\* The command's one call, and the steps of the executor in it.
Running ==
  /\ \/ command = "deploy" /\ executes = 0 /\ Execute
     \/ command = "destroy" /\ rollbacks = 0 /\ Rollback
     \/ Step
  /\ mishaps' = IF pc' = "nodeFailed" /\ live' # live THEN mishaps + 1 ELSE mishaps
  /\ UNCHANGED <<command, loaded, outcome, deploys, unread>>

\* The process is killed, possibly within DoIt or UndoIt with their effect made.  A
\* kill within Save is a save that leaves the old or a torn state, then a kill.
Crash ==
  /\ command # "none" /\ mishaps < MaxMishaps
  /\ mishaps' = mishaps + 1
  /\ \/ UNCHANGED worldVars
     \/ /\ pc = "DoIt"
        /\ serial' = serial + 1
        /\ live' = live \cup {<<CurrentNode, serial'>>}
     \/ /\ pc = "UndoIt"
        /\ live' = {r \in live : r[2] # OutputOf(NodeToUndo)}
        /\ UNCHANGED serial
  /\ Exit("crashed")
  /\ UNCHANGED <<dagVars, storeVars, loaded, deploys, unread>>

LifeNext == Deploy \/ DeployReturns \/ Destroy \/ DestroyReturns \/ Running \/ Crash

LifeSpec == LifeInit /\ [][LifeNext]_allVars

\* A command goes on until it ends, the user calls destroy again and again, and neither
\* Load nor an UndoIt fails for ever.
LifeFairSpec ==
  /\ LifeSpec
  /\ WF_allVars(Running) /\ WF_allVars(DeployReturns) /\ WF_allVars(DestroyReturns)
  /\ WF_allVars(Destroy /\ command' = "destroy")
  /\ \A n \in Nodes : SF_allVars(Running /\ UndoItSucceeds /\ NodeToUndo = n)

----------------------------------------------------------------------------
(* Properties *)

Commands == {"none", "deploy", "destroy"}
Outcomes == {"none", "exists", "deployed", "deployFailed", "notLoaded",
             "alreadyRolledBack", "destroyed", "destroyFailed", "crashed"}

\* The executor's types in every process, a restored one too; an executor exists
\* only while its command runs.
LifeTypeOK ==
  /\ TypeOK
  /\ command \in Commands /\ outcome \in Outcomes
  /\ loaded = NoState \/ loaded.status \in Statuses
  /\ deploys \in 0 .. MaxDeploys /\ mishaps \in 0 .. MaxDeploys + MaxMishaps
  /\ unread \subseteq Names \X Nat
  /\ command = "none" => pc = "idle" /\ completed = <<>>

\* The resources the store does not list, but for the one that is just being added and
\* for those whose record a deploy has overwritten, its Load having failed.
Untracked ==
  {r \in live : /\ Entry(r) \notin Listed(store) \cup unread
                /\ ~(pc = "nodeDone" /\ r = <<CurrentNode, OutputOf(CurrentNode)>>)}

\* Over any number of commands, a crash or a failed action loses track of one
\* resource at most, provided that no save is torn and no warning was printed.  What
\* a deploy overwrites because its Load of a whole record failed is not counted: that
\* may be every resource of a saga at once.
OneLostPerMishap ==
  ~warned /\ "torn" \notin FailedSaves /\ NamesIdentify => Cardinality(Untracked) <= mishaps

\* The first save of a deploy that began although its Load failed on a whole record.
OverwritesUnread == command = "deploy" /\ pc = "idle" /\ Execute

\* A resource that the store lists stays listed until it is removed, with one exception,
\* the first save of a deploy whose Load failed: no other step of a deploy, no restart,
\* no failed save and no rollback that fails forgets one.
ListedUntilRemoved ==
  [][ "torn" \notin FailedSaves /\ NamesIdentify =>
      \A r \in live \cap live' : Entry(r) \in Listed(store) =>
        Entry(r) \in Listed(store') \/ (OverwritesUnread /\ Entry(r) \in unread)
    ]_allVars

\* In a process that knows its nodes only from the store too, an UndoIt is called
\* when nothing that was completed after its node and depends on it is in place.
UndoRespectsDependencies ==
  pc = "UndoIt" /\ NamesIdentify =>
    \A m \in ToSet(completed) : <<NodeToUndo, m>> \in edges => <<m, OutputOf(m)>> \notin live

\* A destroy that reports success has removed what the state it loaded lists,
\* whatever failed or was killed before it.
DestroyedWhatWasListed ==
  outcome = "destroyed" /\ NamesIdentify => \A r \in live : Entry(r) \notin Listed(loaded)

\* However often destroy fails or is killed, calling it again removes in the end
\* everything that the store lists, unless a deploy whose Load failed overwrites the
\* record before.
ListedIsRemoved ==
  \A k \in 1 .. MaxDeploys * Cardinality(ActionNodes) :
    (\E r \in live : r[2] = k /\ Entry(r) \in Listed(store))
      ~> (\A r \in live : r[2] = k => Entry(r) \in unread \ Listed(store))

----------------------------------------------------------------------------
(* What the program says of itself *)

\* runDeploy's refusal: "Use a different ID or destroy the existing saga first".
ExistingSagaCanBeDestroyed == outcome = "exists" ~> ~Readable
=============================================================================
