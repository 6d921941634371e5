# compensate: TLA+ models, model checking and proofs

`compensate` is a Go library that runs *sagas*: a DAG of actions, each with a
`DoIt` and an `UndoIt`. An executor runs the actions along the dependencies,
saves its progress in a store after every node and, when one fails or when the
caller asks for it, compensates: it undoes what was done, in reverse order.

This directory holds the models of that code, what TLC checks of them and what
TLAPS proves about them.

## Inventory

| Component | State | Operations | What is hard about it |
|---|---|---|---|
| `SagaExecutor` (`saga_executor.go`) | node states, completed and failed lists, ancestor tree of outputs, execution trace | `Execute`, `Rollback`, `NewExecutorFromState`, `persistState`, `getTopologicalOrder`, `getExecutionLevels` | order of `DoIt` and `UndoIt`; `DoIt`, `UndoIt` and `Save` fail; repeated calls; a crash between two steps |
| Store, `MemoryStore` (`store.go`) | one saga state per id, behind a `sync.RWMutex` | `Save`, `Load`, `Delete` | readers that overlap; the context is shared with the caller by pointer; failing saves |
| `FileStore` (`file_store.go`) | one file per id, behind a `sync.Mutex` | `Save`, `Load`, `Delete` | `os.WriteFile` truncates and then writes; its mutex does not reach other processes; a kill in between |
| `DagBuilder` (`dag_builder.go`) | the graph, the nodes added last, the names in use, the error | `Append`, `AppendParallel`, `Build` | stages that fail half way, subsagas flattened into the parent, names |
| `Dag`, `SagaDag` (`dag.go`, `sagadag.go`) | the graph | `AddNode`, `AddEdge`, `NewSagaDag`, `GetNodeIndex` | start and end nodes are added to the shared graph; lookup by a name that is not unique |
| `ActionRegistry` (`action_registry.go`) | actions by name, in a concurrent map | `Register`, `Get` | check and then act, by concurrent callers |
| `SagaLog` (`saga_log.go`) | events, load status of each node, unwinding flag | `Record`, `NewSagaLogRecover`, getters | the status machine of a node; a mutex taken twice; replay of stored events |
| Actions (`saga_action_*.go`) | none | `DoIt`, `UndoIt`, `LookupTyped` | outputs are looked up by node name |
| `persistent_cli` (`examples/`) | one state file per saga | `deploy`, `destroy`, `list` | crashes, restarts, two processes, repeated commands |
| `aws-infrastructure` (`examples/`) | the cloud's resources | actions of several calls each | an action fails between two of its calls |
| `sec.go` | - | - | commented out as a whole: no behaviour |

Interactions: the caller builds a `Dag` with a `DagBuilder` (which registers the
actions of its nodes in the `ActionRegistry`), turns it into a `SagaDag`, and
makes a `SagaExecutor` from it. `Execute` calls the actions' `DoIt` with the
ancestor tree, and the store's `Save`; `Rollback` calls `UndoIt` and `Save`. A
command line program loads a state that an earlier process saved, makes an
executor from it with `NewExecutorFromState`, rolls it back and deletes the
state. `SagaLog` is a separate component: the executor does not use it.

## Plan

In this order; what is marked with * is done.

1. `SagaExecutor` *, the core: one executor, `Execute` and `Rollback`, all
   failures. `AbstractSaga` *: what a saga promises. `SagaExecutorProofs` *.
2. `SagaLifecycle` *: the commands `deploy` and `destroy` as processes around
   `SagaExecutor`, which it extends, with kills and restarts.
   `SagaLifecycleProofs` *.
3. `DagBuilder` * with `DagBuilderProofs` *: where the graphs come from. Its
   theorem that no graph has a cycle says that an executor never meets one; the
   executor is modelled for graphs with cycles all the same, and returns an error
   for them.
4. `ExecutionLevels` * with `ExecutionLevelsProofs` *: the grouping for a
   concurrent executor, which the repository computes and does not use yet.
5. `SagaLog` *: the event log at the level of its mutex.
6. `AwsInfrastructure` * with `AwsInfrastructureProofs` *: actions of several
   calls, two processes at once on one state file.
7. `SagaStore` *: goroutines that share a store, over `AbstractStore` *, with
   `SagaStoreProofs` *.
8. `ActionRegistry` *: `Register` as the load and the store that it is, by
   several goroutines.
9. A second `Execute` on one executor *, when nothing is left of the first.
   `SagaRetryProofs` *.
10. Theorems: `Spec => Abstract!Spec` of the executor, for one `Execute` and
    distinct names *, and for several; all that the executor's invariants say of
    the record *; the safety of `SagaLifecycle` *; for `DagBuilder`
    `ActionsRegistered` * and, with reachability replaced by a closure that can be
    proved about, `StagesInOrder` and the other results of the walk *; the safety of
    `AwsInfrastructure` *.

Bounds are chosen so that TLC finishes a run within two minutes: three or four
nodes, two attempts of whatever can be attempted again, one or two failures of
what can fail.

## Modules

### SagaExecutor

One executor and one goroutine that calls `Execute` and `Rollback` on it.

| Model | Code |
|---|---|
| `edges`, `registered` | `e.dag.Graph`; which actions `e.actionRegistry` holds |
| `nodeState`, `completed`, `failed`, `ancestorTree`, `executionTrace` | the fields of that name |
| `store`, `warned` | what `e.store` holds under the saga's id; whether a "Warning: failed to persist" was printed |
| `pc`, `caller`, `order`, `pos`, `result` | where the goroutine is, in which call; the loop's list and index; what the call returned |
| `live`, `serial` | the outside world: the resources that `DoIt` made and `UndoIt` has not removed |

`pc` has a value for every place where control can be when user code runs or
where the code branches: `node` (head of the loop of `Execute`), `DoIt` (in the
action), `nodeDone` and `nodeFailed` (`executeNode` has returned), `undo` (head
of the loop of `compensate`), `UndoIt`, `undoFailed`, and `idle`.

* `Execute` is the call up to the loop: the first save, whose failure is
  returned, and the topological sort, whose failure is returned too.
* `SkipNode`, `ActionMissing`, `StartNode`, `DoItSucceeds`, `DoItFails` are
  `executeNode`; a failing `DoIt` may have made its resource before it failed.
* `NodeCompleted`, `NodeFailed`, `SagaCompleted` are the rest of the loop, each
  with its save; a save that fails leaves the old state or a torn one and sets
  `warned`.
* `Rollback` is the call up to `compensate`; `SkipUndo`, `StartUndo`,
  `UndoItSucceeds`, `UndoItFails` are `undoNode`; `CompensationSucceeds` and
  `CompensationFails` are what `Execute` and `Rollback` do with the outcome.

Abstractions: an output is the serial number of the `DoIt` call that made it
(so that two calls never yield the same resource); a saved state is its status
and its completed actions; `UndoIt` finds its resource by its output, removes it
if it is there and returns nil, or returns an error and removes nothing.
`topo.SortStabilized` is any topological order; the code's is one of them.

### AbstractSaga

What a saga promises: effects are made along the dependencies, removed against
them, never made again after the first removal unless all were removed and the
saga begins anew, and a reported outcome is the one that holds. `SagaExecutor`
implements it under the mapping `Done`, `Direction`, `Outcome` at its end, for
distinct names.

### AbstractStore

What the `Store` interface promises to goroutines that share a store: a call
takes effect at one moment between its beginning and its return, and answers by
what is on record at that moment. A save that reports an error, or that a crash
interrupts, has changed nothing or made the record unreadable.

### SagaStore

The goroutines of one process that share a `MemoryStore` or a `FileStore`
(`kind`), with kills of the process.

| Model | Code |
|---|---|
| `contents`, `contexts` | `m.states`, or the files: the number of the save under each id; the context in each file |
| `context`, `savedWith` | what the pointer to a saga's context leads to now; what it led to at each save |
| `holders`, `pc` | who holds the mutex; where each goroutine is: `called`, `waiting` (a writer that the readers let pass), `locked`, `truncated`, `returning` |
| `Announce`, `LockShared`, `LockExclusive`, `Return` | `Lock`, `RLock` and the deferred unlocks; a waiting writer of a `sync.RWMutex` keeps new readers out |
| `SaveToMemory`, `Truncate`, `WriteFile`, `SaveFails`, `Load`, `LoadFails`, `Delete`, `DeleteFails` | the methods, with every error return |
| `Crash` | a kill: a `MemoryStore` is lost, a file that was truncated stays so |

A state is the number of its save, which stands for all of its fields but the
context. `MemoryStore` copies the struct and with it the pointer to the context;
`FileStore` marshals what it points to (`ContextFound`). `SagaStore` implements
`AbstractStore` under the mapping `Value`, `Phase` at its end: a truncated file
counts as what it was until it is written, or for ever torn.

### ActionRegistry

Goroutines that share an `ActionRegistry`: each builds a saga, where the builder
gets each action's name and registers what it does not find, and then runs it,
where the executor gets the action again for the `DoIt` and for the `UndoIt` of
each node. Every step is one call on the registry's concurrent map, so that
`Register` is two (`RegisterLoads`, `RegisterStores`). The action under a name is
the instance that some goroutine has registered.

### SagaExecutorProofs, SagaRetryProofs, SagaExecutorRefinement, SagaLifecycleProofs, SagaStoreProofs, DagBuilderProofs, ExecutionLevelsProofs, AwsInfrastructureProofs

Theorems about the module of that name, `SagaRetryProofs` about `SagaExecutor`;
see "What is proved".

### SagaLifecycle

Extends `SagaExecutor`. A command of `examples/persistent_cli` is a process with
an executor of its own; when the process ends or is killed (`Exit`), all of the
executor's variables are reset, and only `store`, `live` and `serial` go on.

| Model | Code |
|---|---|
| `command`, `outcome` | which command runs; how the last one ended |
| `loaded` | `state` in `runDestroy` |
| `Deploy` | `runDeploy` up to `Execute`: the check that the id is free, which takes any error of `Load` for a yes: no record, a torn one, and also a whole one that could not be read this time |
| `unread` | history: what was on record when a deploy began that could not read it |
| `Destroy` | `runDestroy` up to `Rollback`: `Load`, which can fail on a whole record too, the check for `rolled_back`, `NewExecutorFromState` (`Restore`) |
| `Running` | the command's one call of the executor, and all its steps |
| `DeployReturns`, `DestroyReturns` | the rest of the commands; a `Delete` that fails is a warning |
| `Crash` | a kill between two steps, or within a `DoIt` or `UndoIt` whose effect was made |

`Restore` finds some node of each saved name, as `GetNodeIndex` iterates over a
map: there is one when no other node, an action or not, has the name of an action
(`NamesIdentify`). Distinct names of the actions are not enough: a constant with
the name of an action is on record as well, and a restored process can take it
for the action. TLC shows that `StoredIsPrefix`, `OneLostPerMishap`,
`DestroyedWhatWasListed` and `ListedUntilRemoved` are then wrong.

### DagBuilder

A builder, the `Dag` that `Build` returns and the `SagaDag`s made of it, which
all share one graph. A step is one pass of a loop: a node of a stage
(`AddAction`, `AddConstant`, `StartSubsaga`), a node of a subsaga that the
breadth-first walk meets (`WalkFirst`, `WalkNext`, `WalkDequeue`), the end of a
subsaga or of a stage (`SubsagaAdded`, `StageAdded`), or the error or panic that
leaves the loop (`NameTaken`, `RejectSubsaga`, `SubsagaPanics`). What a failing
call has already added stays, as in the code; `broken` records it.

Ids count from 1 instead of 0, so that they are the indices of `nodes`. Two of
the code's loops over a subsaga take positions for ids, and are modelled so.

### ExecutionLevels

`getExecutionLevels`, one pass of the outer loop per step, for any graph. A
level is a set; the code sorts it.

### SagaLog

`Record`, `loadStatusForNode`, the reading methods and `NewSagaLogRecover`, by
goroutines that take the log's mutex step by step. The mutex is not reentrant.
One goroutine may recover the log before the others have it (`shared`): it
replays a list of events (`replay`) in any order that the sort by type allows,
and gives up at an event of another saga or one that is not legal.

### AwsInfrastructure

`examples/aws-infrastructure`: processes that run `deploy` or `destroy`, at once
or in turn. `Network` is the saga that `main.go` builds, of the four actions that it
registers. Two more go on with the security group, the instance and the attachment,
`GroupFirst` and `InstanceFirst`. No code builds such a saga: `ec2.go` and
`security_group.go` provide the actions, and their lookups say only that the
attachment follows both of the others; what is said of these two is said of a
program that is not there yet. `DoIts` and `UndoIts` are the actions as
the sequences of calls they make, each with what the cloud needs for it, what
blocks it and what it makes or removes; a call can be refused, fail, lose its
reply, or be the last one of its process. The cloud's rules are external: they are what the order of
the calls in the code and its comments presuppose (detach before delete, "cleanup
in reverse order of creation"), namely that a call on what is absent and a
removal of what is in use return an error.

The executor is here a position in a chain of nodes: with a chain there is one
topological order. `file` is the state file; a save truncates it (`Truncate`)
and writes it (`SaveSucceeds`), so that another process can find it empty, and
two saves at once can leave the end of the longer one behind the shorter. A file
that is removed and made again while a third save is under way is taken for the
same file. A `Load` can fail on a whole file, which `Destroy` returns as an error
and `Deploy` takes for a free id. Two history variables: `disturbed`, two commands
have overlapped or a file was torn; `unread`, the actions on file when a deploy
began that could not read it.

### MCSubsagaNames

`SagaExecutor` on a graph as the builder makes it of a saga with a subsaga.

## Runs

### executor

`executor` (`MCSagaExecutor`): three actions and the start node, the eight graphs
over the actions and one with a cycle, a registry that holds all actions or
lacks the last one, one `Execute`, and over a fork, a join and a chain
(`RetryDags`) a second one, two `Rollback`s, every failure. 278 533 distinct
states. Three actions are enough for a chain, a fork, a join and an independent
node; two rollbacks are enough to compensate again what a failed `Execute` has
compensated, and to retry a rollback that failed. A second `Execute` comes, at
any time after the first, when nothing is left of what was made and no warning
was printed (`MayRetry`). The caller may stop calling, so that deadlock is not
checked.

Fairness: `WF_vars(Step)`. A call that has begun goes on, because the code has
no wait of its own: `DoIt`, `UndoIt` and `Save` are assumed to return. Nothing
is assumed of the caller, and nothing of which outcome a step has.

Properties:

* `DependenciesInPlace`: when `DoIt` is called, all dependencies have completed,
  with the output the node will look up.
* `DependentsGone`: when `UndoIt` is called, no dependent is still in place.
* `NothingLeftBehind`: a compensation that reports success undid everything that
  had succeeded. What a *failed* `DoIt` left is not included: the code never
  undoes a failed node.
* `StatusTruthful`, `CrashLosesAtMostOne`, `StoredIsPrefix`: what the state on
  record says of the world, at every point where the process may die.
* `TraceAccountsForCompleted`: the trace and the completed list agree.
* `RetryIsClean`: a second `Execute` runs every action again, since nothing skips
  completed nodes, and the completed list then names nodes twice, with the states
  and outputs of the first call still there; none of that makes a compensation
  wrong, incomplete or untrue on record.
* `CallsReturn`, `FailureIsCompensated`: liveness.
* `ImplementsAbstract`: refinement.

Some are stated of one `Execute` only (`executes <= 1`): they speak of `nodeState`
and of the whole completed list, which a second call reuses; `RetryIsClean` says
what is left of them. A second `Execute` while resources are in place is outside
of all of them: it makes these again under the same names, and compensation
reaches the second set only. Some hold only when every action has a name of its
own (`DistinctNames`), and those that speak of what is found again under the names
on record only when no other node has such a name (`NamesIdentify`).

### lifecycle, lifecycle_destroy_first

`lifecycle`: a database and then a server, as in the program's own saga; two
deploys, any number of destroys, two mishaps (a kill, or a `DoIt` that fails and
leaves its resource), every failure of `Save`, but for a torn file, and of the
`Load` of either command. 75 819 states. Two mishaps are enough for a kill in a
deploy and another in its destroy, and two deploys for one that cannot read what
the other saved.

Fairness (`LifeFairSpec`): a command that runs goes on and ends; the user calls
`destroy` until it has loaded the record, again and again; and no node's `UndoIt`
fails for ever (strong fairness, as an attempt can end in between). Nothing is
assumed of `deploy`. The retry by the user, and a `Load` and an undo that do
succeed at last, are what the commands' own messages presuppose; the properties
that use them are `ListedIsRemoved` and the violated `ExistingSagaCanBeDestroyed`.

* `OneLostPerMishap`: over any number of commands, each mishap loses track of
  one resource at most. What a deploy overwrites because its `Load` failed
  (`unread`) is not counted: that can be all resources of a saga at once, and no
  mishap is needed for it.
* `ListedUntilRemoved`: what is on record stays on record until it is removed,
  with one exception, the first save of a deploy whose `Load` failed
  (`OverwritesUnread`): no other step of any command forgets a resource. With torn
  files it is wrong: `deploy` takes such a file for a free id as well.
* `UndoRespectsDependencies`, `DestroyedWhatWasListed`: the order of undoing,
  and the meaning of success, in a process that knows the nodes from the store.
* `ListedIsRemoved`: destroying again and again removes all that is on record,
  unless a deploy that could not read the record overwrites it before.

The exception is a flaw of `deploy`, which prints "To destroy these resources
later, run:" when it has succeeded: another deploy of the id whose `Load` fails,
though the file is whole, overwrites that record with its first save, and no
`destroy` finds the resources any more. So does `deploy` of `aws-infrastructure`.

`lifecycle_destroy_first`, on the same module, with side by side actions too,
without failures of actions and saves and with one kill, refutes "destroy the
existing saga first": a deploy killed before its first action completed leaves a
state that `Rollback` refuses. With no kill at all (`MaxMishaps` 0) TLC refutes it
by a `Delete` that fails: the state `rolled_back` stays, for which every later
`destroy` returns before its `Delete`.
That "All resources have been cleaned up", which `destroy` prints, is no more
than `OneLostPerMishap` allows: a kill between `DoIt` and the save leaves a
resource that no `destroy` knows.

### builder, builder_params

Up to four stages of one or two nodes, chosen among thirteen: actions,
constants, and subsagas whose graph is a chain, a fork and join, a join with two
roots, one that holds a start node, and two that a failed builder left. Two
`SagaDag`s at most. 184 101 states. Four stages are enough for a stage before
and after a subsaga, a refused stage, and a call after `Build`.

* `GraphOrdered`: no cycle, whatever was appended. `StagesInOrder`: a stage
  depends on all of the earlier ones, the insides of subsagas included.
* `SubsagaCopied`: a subsaga is copied whole, when the walk does not panic.
* `OneRootNeverPanics`: it panics, with "this is a bug in the framework", only at a
  subsaga with several roots. One whose first stage has two nodes is such, although
  `Build` accepts it: the walk begins at the first node and meets the join of both
  before the second.
* `EndsKnown`, `WrappedWhole`: the roots and leaves the builder keeps are those
  of the graph, and its only `SagaDag` encloses all of it. Both hold only when no
  subsaga is accepted in the first stage, and the stages of the run are such: the
  builder takes a subsaga's end node for a root (`SubsagasComeLater`, below). Nothing
  is said of a second `SagaDag` of one `Dag`, whose graph holds the ends of the
  first.
* `ActionsRegistered`: the executor finds the action of every node, also after a
  stage that was refused halfway. The node that such a stage leaves behind, on
  which nothing depends, is no property's subject: the ones about order and ends
  exclude such a builder (`broken`).

`builder_params` refutes the comment that a subsaga depends on the node of its
parameters, with a stage that holds both.

### subsaga_names

Refutes that the outputs inside of a subsaga are hidden from the outer saga: on
one chain of a subsaga between two actions, of which the first has the name of
the subsaga's own.

### levels

All 4 096 graphs of four nodes without self-loops. 11 269 states. Fairness: the
loop goes on.

* `LevelsInOrder`, `LevelsEarliest`, `ErrorMeansCycle`, `Terminates`: the levels
  can run one after the other, none could be left out, and an error is returned
  exactly for a graph with a cycle. That no node is in two levels is proved only
  (`EveryNodeOnce`).

### store

Three goroutines on one id, either store, two saves, one change of the context,
one kill, any number of loads and deletes, every failure. 36 292 states. Three
goroutines are enough for two readers that overlap while a writer waits; one id,
since ids share nothing but the mutex; two saves for one that overtakes another.

Fairness: a goroutine in a method goes on (weak), since the code has no wait of
its own there; one that waits for a mutex that is free again and again gets it
(strong), which both mutexes promise. Without the pending writer of a
`sync.RWMutex` (`Announce`) overlapping readers would starve a `Save`.

* `WritersAlone`: nothing is written beside another access.
* `ContextAsSaved`: a state loaded from a file has the context of its save, after
  later changes and after a restart. It does not hold of `MemoryStore`, whose
  states point to the live context, against the comment "Create a copy to avoid
  external modifications" (`store.go`, line 72).
* `EveryCallReturns`: no error path keeps the mutex and no caller starves.
* `ImplementsStore`: both stores implement `AbstractStore`.

### registry_race

Two goroutines, sagas of one and two actions with names in common. Refutes that
an action is identified by its name: both goroutines find a name free, both
store their action, and a node of the first saga is undone by an action that is
not the one that was done.

### log_deadlock

Two goroutines, two calls of `Record`, a recovery of up to two events. `Record`
locks the mutex and calls `loadStatusForNode`, which locks it again: it never
returns, and neither does a recovery that calls it. Fairness: each
goroutine that can take a step infinitely often takes one, which is what
`sync.Mutex` promises.

### aws, aws_destroy_failed

Two interchangeable processes, two deploys in all, any number of destroys, and one
mishap (a call, a save, the configuration or a process that fails) or a deploy
that fails to read a whole file (`WithinBound`); a destroy's `Load` fails at
will. The commands on `Network` run at once, those on the sagas with a server in
turn (`AtOnce`, a bound). 964 756 states. Two deploys are enough for both to find
the id free, or for one to follow a failed one; one mishap, since the cloud's
refusals are not counted, which follow from it. The theorems hold for any number
of both.

* `UndoneMeansGone`: reported success means that all the listed resources are
  gone, with other commands running beside, and although the failure of a
  detachment, or of the wait for the end of an instance, is only a warning.
* `LeftoversPerMishap`: each mishap leaves the resources of one action without a
  record, however many calls the action makes. That it does leave them is why
  "The saga has automatically rolled back any created resources" (`runDeploy`)
  need not be true. A deploy that could not read the file is no mishap, and costs
  the record of all that was on it (`unread`), but of nothing else.
* `NothingLaterInPlace`: compensation never passes an action it could not undo.
  It excepts an instance that still ends because the wait for it failed: the
  deletion of its subnet is then refused, and the rollback fails as it should.
* `NeverRefusedInPeace`: when nothing goes wrong, the calls are in an order that
  the cloud accepts.

The last two except a membership in the group when the instance was made before
it (`LeftToInstance`): the attachment's own `UndoIt` does nothing, so that the
group's is called while the instance is still a member, and refused, also in
peace. With the group first nothing is excepted. Which of both a program with a
server would have is not decided in the repository.

`aws_destroy_failed` (one process, fairness: a command goes on, and `destroy` is
called until it has loaded the file, again and again) refutes "destroy the existing saga first": after a
failed deploy that was compensated completely, every `destroy` deletes what is
deleted already and stops at the cloud's refusal.

## What is proved

`SagaExecutorProofs` proves for every DAG, registry, naming and bound, from the
assumptions on the constants in `SagaExecutor`:

* `TypeCorrect`: `Spec => []TypeOK`, one lemma per part of the invariant.
* `DependenciesHold`, `DependentsHold`, `NothingIsLeftBehind`: from the inductive
  invariant `IInv`. The properties are not inductive: that a dependency is in
  place when `DoIt` is called needs that everything before `pos` in the order is
  (`ForwardInv`), and that the order is topological and lists a node once
  (`OrderInv`, `OrderFacts`). That dependents are gone when `UndoIt` is called
  needs that the completed list is a prefix of that order (`PrefixInv`), that
  every resource belongs to a node of the list and is the one its output names
  (`ResourceInv`), and that the nodes the loop has passed are undone
  (`BackwardInv`).
* `StatusIsTruthful`: with `StatusInv`, which says that a final status is on
  record only between calls.
* `TraceAccounts`: `Spec => []TraceAccountsForCompleted`. `CountInv` says it in
  every state; a step that extends the trace extends the list by the same node
  later, and what `Kept` keeps of a longer sequence is what it kept, and the last
  element when that is in the set (`KeptAppend`).
* `RecordIsPrefix`, `CrashLosesOne`: `Spec => []StoredIsPrefix` and `Spec =>
  []CrashLosesAtMostOne`, from `PrefixStored` and `AllStored`, which say of the
  record what it was made of: however many saves were lost, the list of an earlier
  moment, with outputs that no later `DoIt` replaces, since a name that is listed
  is not the current node's (`CurrentNotListed`). What a save stores is known by
  where each entry comes from: places in the completed list, in ascending order,
  of all named nodes (`KeptPlaces`, `ListingPlaces`, `ListedPairs`).

`Kept` is a recursive function on 0 .. Len(s), and not `SelectSeq`, whose recursive
definition the prover cannot open. What holds of it by induction over a sequence is
proved by the least counterexample, from the well-foundedness of the naturals
(`SetInduction`), since the library's induction theorems cannot be used.

`SagaRetryProofs` proves from the same assumptions `RetryHolds`: `Spec =>
[]RetryIsClean`, for any number of `Execute`s. The executor's `IInv` speaks of one
`Execute`; a second one runs over a completed list that has every node already,
with states and outputs that are out of date. What is true then is said of the
trace, not of the states: what DoIts that succeeded made and what is still there
(`Successes`). `Since(b)` says that the part of the list above `b` is a prefix of
the order of the last `Execute`, that all successes were made by it and have the
output found under their node's name, and that compensation has them at or below
its position; `LastInv` that there is such a `b`. It moves only when a loop begins,
and then there are no successes (`ExecuteFindsNothing`). `CallsInv` ties outputs to
the records of the trace; `FinalInv` and `RecordInv` say what is on record.

`SagaLifecycleProofs` proves for any number of commands, mishaps and kills, every
DAG and naming:

* `LifeTypes`, `UndoRespects`, `DestroyedIsGone` and `OneLost`: `LifeSpec =>
  []LifeTypeOK`, `[]UndoRespectsDependencies`, `[]DestroyedWhatWasListed` and
  `[]OneLostPerMishap`; `StaysListedUntilRemoved`: the action property
  `ListedUntilRemoved`.
* The executor's `IInv` does not hold of a restored process: its list is what was
  saved and may lack what a lost save knew, and the states of its nodes are made
  up. `LInv` is what both kinds of process share. Resources have numbers of their
  own (`WorldInv`), so that an output names one resource. The completed list, and
  the list on record, have dependencies before dependents (`ListInv`, `StoreInv`),
  which a prefix of a topological order has and a restoration keeps, and a name has
  one output on record. A process can undo all that is on record: its node is on
  the list and the tree has its output (`KnownInv`), unless it is a deploy that has
  not saved yet; what is on record then is `unread` (`UnreadInv`), and only that is
  forgotten when it does save. What a compensation has passed
  is gone (`GoneInv`), and what is not on record is no more than the mishaps, one of
  which a deploy still has to spend while an action of it may fail (`MishapInv`).
* A step adds one untracked resource at most, and when it adds one it is a mishap
  (`OneMoreUntracked`).

`SagaExecutorRefinement` proves, from the same assumptions, distinct names and at
most one call of `Execute` (any number of `Rollback`s):

* `ExecutorImplementsAbstract`: `Spec => ImplementsAbstract`. `AbstractSaga`
  counts an action as done by the trace of its calls, any other node by its
  state. `RInv` ties both to the executor's lists: the trace has the call that
  made each resource, and fails with its node's state, and an output in the tree
  is of its own node (`TraceInv`); nodes ahead of the loop are pending, hence not
  done yet (`PendingInv`); a completed node that is no action is listed, and
  above the position of `compensate` there is none (`OthersInv`). Then what is
  done is `InPlace` and those nodes (`MadeIsInPlace`), the dependencies of the
  next node are among it (`DependenciesDone`), the dependents of the node being
  undone are not (`DependentsUndone`), and each action has a lemma that names its
  abstract step.

`SagaStoreProofs` proves for any goroutines, ids and bounds, and both stores:

* `StoreTypeCorrect`.
* `AWriterIsAlone`: from `LockInv`, by which a goroutine is in a method exactly
  while it holds the mutex, and a writer holds it alone.
* `ContextIsAsSaved`: from `ContextInv`, by which the context in a file is that
  given to the save whose number the file holds. It needs that a saga does not
  change its context while it is saved, and that no other save writes between.
* `StoresImplementAbstract`: `Spec => ImplementsStore`, the whole refinement. A
  truncated file has one truncator, because of `LockInv`, and is unreadable until
  then (`FileInv`), so that `Value` is well defined and no other step sees it;
  each lemma maps the steps of one method to a step of the abstract store or to a
  stutter, and `Crash` to its `Crash`.

`DagBuilderProofs` proves for all stages, subsagas and bounds:

* `TypeCorrect`: every id that the builder, its loops and its `Dag`s hold is the
  id of a node.
* `EdgesAscend` (`GraphOrdered`) and `NoCycle`: each set of nodes has one that no
  node of the set leads to. The invariant `IInv` adds that no id the builder keeps
  is that of a `SagaDag`'s start node (`EndsPlain`), and that during a walk the
  copies are newer than the node that will lead to them (`CopiesPlain`): only
  then do the edges that later steps draw ascend. `Growth` carries all of it over
  the steps that add nodes; `NoCycle` takes the least node of a set, or a start
  node.
* `ActionsAreRegistered`: `Spec => []ActionsRegistered`, provided that each
  subsaga's actions are in the registry that the builder starts from
  (`SubsagasRegistered`); `ActionsInv` carries that proviso along the stage.
* `SubsagaIsCopied`: `Spec => []SubsagaCopied`, provided that the nodes of a
  subsaga that is accepted hang together when its leaves are reached at all
  (`SubsagasHangTogether`). `WalkInv` says that with a node its predecessors have
  been copied, and its successors are or are yet to come; at the end of a walk the
  copied nodes have then no neighbour that is not copied.
* `StagesAreInOrder`: `Spec => []StagesInOrder`, provided also that the first nodes
  of a subsaga lead to all of its nodes, and these to its last
  (`SubsagasLeadThrough`). `StagesInOrder` is stated with the recursive function
  `Dependents`; the proof is about `Leads`, the least set closed under the edges,
  and `LedAreDependents` shows that one is in the other, which rests on the graph
  having no cycle. `OrderInv` says of each stage that is done that it leads to the
  later ones and to what `lastAdded` holds, of the stage that is being added that
  the last one leads to it (`StageInv`), and of a walk that the last stage leads to
  the start node and all newer nodes are copies (`LinkInv`).
* `EndsAreKnown` and `WrappedAreWhole`: `Spec /\ []SubsagasComeLater =>
  []EndsKnown`, and `[]WrappedWhole`, with the same provisos. `SubsagasComeLater`
  says that the first stage holds no subsaga: the builder takes a subsaga's end node
  for the first of that stage, so that without it neither holds. The code accepts
  such a subsaga only when the name of its parameters node is its own, stands in
  its own stage, or was left by a subsaga that was refused. `EndsInv` says which
  nodes are first, and between which stages there are edges.
* `BuiltCanBeAppended`: the first two provisos hold of every `Dag` that `Build`
  returns under the third, as long as no stage was refused halfway. The code uses
  the positions of a subsaga's first nodes as their ids; they are the same because
  the nodes of the first stage are the oldest ones (`FirstAreOldest`).

The stages of the run `builder` keep to the three provisos, and so do the
subsagas in it that a failed builder has left: their leaves are not reached, and
the walk panics.

`ExecutionLevelsProofs` proves for every graph, finite or not, `TypeCorrect`,
`EveryNodeOnce`, `OrderHolds`, `EarliestHolds` and `ErrorIsCycle`. The invariant
adds that a node which is not in a level waits for one that is not in an earlier
level (`Waiting`), which makes the levels the earliest ones, and that no cycle
touches what is in a level (`CyclesLeftOut`).

`AwsInfrastructureProofs` proves for any number of processes, deploys and mishaps,
over any of the three sagas, whichever of them several commands may run at once
(`GroupNode` and `InstanceNode` are the places of the group and the instance):

* `AwsTypes`: `Spec => []TypeOK`, which says too that no process steps past the
  last call of an action. `Sane` ties where a process is to what it has done and
  to the call it is at.
* `UndoneIsGone`: `Spec => []UndoneMeansGone`. `GoneInv` says that what a
  compensation has passed is gone: at its last call, which is no warning, because
  that call removed it or would have been refused while it was there
  (`GoneAtLast`). `GoneAt` names the node from whose UndoIt on each thing is gone;
  for an instance that is not its own but the subnet's, and for the membership the
  group's, since a wait for the instance that fails is a warning. That another
  command puts none of it back needs `AheadInv`: no two deploys have one id, and
  neither a process nor the file knows more of a deploy than it has done, so that
  what a running deploy makes is beyond what a destroy beside it has on its list.
  `OneStep` shows once that a step of one process disturbs no other; each action
  has then to be shown only for its own process.
* `NothingLater`: `Spec => []NothingLaterInPlace`. `GoneInv` gives what the
  UndoIts of the later actions have removed. The instance and the membership are
  the exception, since they go some time after their end was asked for:
  `EndingInv` says that what is in place of them then ends.
* `NeverRefused`: `Spec => []NeverRefusedInPeace`. `AloneInv` says that a deploy
  that runs alone finds in the cloud all that its calls so far have made, and that
  the file knows of no other deploy once it has saved; `PeaceInv` that without a
  mishap a destroy finds a whole deployment, and a compensation what it has not
  undone yet. With the instance first a destroy may fail in peace, at the group, and
  be called again: it has then removed nothing but the instance, whose end can be
  asked for again, so that the next one finds a whole deployment too (`Lasting`).
  Two tables, `DoItFinds` and `UndoItFinds`, give for each call of the actions of
  the example that it needs only what is made before it, and removes what no call
  before it has.
* `OneLeftPerMishap`: `Spec => []LeftoversPerMishap`. The property counts what no
  running deploy will save; the count that a step preserves is `Lost`, which
  leaves out what the process has in hand, that is, the action it is at and the
  one it saves, and what is `unread`. Each step adds nothing to `Lost`, or one
  action and a mishap. That the first save of a deploy adds nothing to it is
  `BlindInv`: what is on file until then was there when the deploy began, hence is
  `unread`.

Assumed are only the named assumptions on constants of the modules: graphs join
nodes, stages consist of the three kinds of nodes, names are names, there is a
goroutine and an id, bounds are numbers and sagas those the example has. What a
theorem of `DagBuilderProofs` asks of the subsagas besides is a hypothesis in its
statement.

Only model-checked:

* liveness (`CallsReturn`, `FailureIsCompensated`, `ListedIsRemoved`,
  `Terminates`, `EveryCallReturns`) and the violated leads-to properties: out of the prover's reach;
* so far, the refinement of `AbstractSaga` when `Execute` is called twice.

## What is not modelled

* `sec.go` is commented out; `saga_exec.go`, `lib.go` and `doc.go` hold no code.
* The executor's getters return copies, but for `GetExecutionState`, which
  hands out its nodes. The DOT encoding and the command `list` only read.
* Typed lookups and error values convert data; the models look an output up by
  name and find it or do not.
* A program that builds a saga of the server's actions: there is none.
* The graph of gonum, the concurrent map, JSON and the EC2 client are external.
* The mock actions of `manual_rollback` and `persistent_cli` and their injected
  failures: the models allow every failure.
* The action of `vpc.go`: no code makes it, and the four `create_*` actions have
  replaced it. Its `UndoIt` returns nil whatever its deletions return.
* `SagaDagIterator`, which no code uses: it begins at the start node, whose id is
  higher than all but the end node's, and yields no named node.
* A second `Execute` while something of the first is in place.
* Two goroutines in one executor: no code of the repository does it, and the
  executor has no lock.
