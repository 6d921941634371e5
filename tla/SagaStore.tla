------------------------------ MODULE SagaStore ------------------------------
(***************************************************************************)
(* The goroutines of one process that share a Store: the MemoryStore of    *)
(* store.go, a map behind a sync.RWMutex, or the FileStore of              *)
(* file_store.go, a directory behind a sync.Mutex, whose Save truncates a  *)
(* file and then writes it.  The process may be killed between any two     *)
(* steps, and a new one goes on with what the store still holds.           *)
(*                                                                         *)
(* A saved state is the number of its save, which stands for the status    *)
(* and the completed actions, and the saga context, which MemoryStore      *)
(* keeps as the pointer it was given and FileStore as what it points to.   *)
(***************************************************************************)
EXTENDS Integers, FiniteSets

CONSTANTS
  Goroutines,
  Ids,          \* saga ids
  Kinds,        \* the stores: "memory", "file"
  MaxSaves,     \* bound: calls of Save
  MaxChanges,   \* bound: changes that a saga's actions make to its context
  MaxCrashes    \* bound: kills of the process

ASSUME SomeoneAssumption == Goroutines # {} /\ Ids # {}
ASSUME KindsAssumption == Kinds \subseteq {"memory", "file"}
ASSUME StoreBoundsAssumption == MaxSaves \in Nat /\ MaxChanges \in Nat /\ MaxCrashes \in Nat

VARIABLES
  kind,      \* the store in use
  contents,  \* the number of the save under each id
  contexts,  \* the version of the context in the file of each
  holders,   \* the goroutines that hold the mutex
  pc,        \* where each goroutine is
  request,   \* the arguments of its call
  before,    \* what was under the id when the file was truncated
  answer,    \* what its call answers
  found,     \* the version of the context that a Load found
  context,   \* the version that each saga's context has now
  saves,     \* calls of Save so far: each is given a state of its own
  savedWith, \* the version of the context in the state given to each of them
  crashes

storeVars == <<contents, contexts>>
callVars == <<pc, request, before, answer, found>>
sagaVars == <<context, saves, savedWith>>
vars == <<kind, storeVars, holders, callVars, sagaVars, crashes>>

Absent == 0
Unreadable == -1
Readable(v) == v > 0

Ok(number) == [result |-> "ok", number |-> number]
Error == [result |-> "error", number |-> 0]

NoRequest == [op |-> "Load", id |-> CHOOSE id \in Ids : TRUE, number |-> 0]

Init ==
  /\ kind \in Kinds
  /\ contents = [id \in Ids |-> Absent]
  /\ contexts = [id \in Ids |-> 0]
  /\ holders = {}
  /\ pc = [g \in Goroutines |-> "idle"]
  /\ request = [g \in Goroutines |-> NoRequest]
  /\ before = [g \in Goroutines |-> Absent]
  /\ answer = [g \in Goroutines |-> Error]
  /\ found = [g \in Goroutines |-> 0]
  /\ context = [id \in Ids |-> 0]
  /\ saves = 0 /\ savedWith = [n \in 1 .. MaxSaves |-> 0]
  /\ crashes = 0

Goto(g, label) == pc' = [pc EXCEPT ![g] = label]
Id(g) == request[g].id
Answers(g, a) == Goto(g, "returning") /\ answer' = [answer EXCEPT ![g] = a]

----------------------------------------------------------------------------
(* The sagas *)

\* An action of the saga changes the context, through the pointer it is given; the
\* saga is not being saved then, since its executor does either in turn.
ChangeContext(id) ==
  /\ context[id] < MaxChanges
  /\ \A g \in Goroutines : ~(pc[g] # "idle" /\ request[g].op = "Save" /\ Id(g) = id)
  /\ context' = [context EXCEPT ![id] = @ + 1]
  /\ UNCHANGED <<kind, storeVars, holders, callVars, saves, savedWith, crashes>>

CallSave(g) ==
  /\ pc[g] = "idle" /\ saves < MaxSaves
  /\ saves' = saves + 1
  /\ \E id \in Ids :
       /\ savedWith' = [savedWith EXCEPT ![saves'] = context[id]]
       /\ request' = [request EXCEPT ![g] = [op |-> "Save", id |-> id, number |-> saves']]
  /\ Goto(g, "called")
  /\ UNCHANGED <<kind, storeVars, holders, before, answer, found, context, crashes>>

CallLoadOrDelete(g) ==
  /\ pc[g] = "idle"
  /\ \E op \in {"Load", "Delete"}, id \in Ids :
       request' = [request EXCEPT ![g] = [op |-> op, id |-> id, number |-> 0]]
  /\ Goto(g, "called")
  /\ UNCHANGED <<kind, storeVars, holders, before, answer, found, sagaVars, crashes>>

----------------------------------------------------------------------------
(* The mutex *)

\* Only MemoryStore's Load takes the lock of a reader.
Shared(g) == kind = "memory" /\ request[g].op = "Load"

Locks(g) ==
  /\ holders' = holders \cup {g}
  /\ Goto(g, "locked")
  /\ UNCHANGED <<kind, storeVars, request, before, answer, found, sagaVars, crashes>>

\* sync.RWMutex: one writer at a time waits for the readers to leave, and keeps new ones
\* from entering.
Announce(g) ==
  /\ pc[g] = "called" /\ kind = "memory" /\ ~Shared(g)
  /\ \A h \in Goroutines : pc[h] # "waiting" /\ (h \in holders => Shared(h))
  /\ Goto(g, "waiting")
  /\ UNCHANGED <<kind, storeVars, holders, request, before, answer, found, sagaVars, crashes>>

LockShared(g) ==
  /\ pc[g] = "called" /\ Shared(g)
  /\ \A h \in Goroutines : pc[h] # "waiting" /\ (h \in holders => Shared(h))
  /\ Locks(g)

\* Mutant of LockExclusive: a save to a file needs no lock.
LockExclusiveUnlessSave(g) ==
  /\ pc[g] = IF kind = "memory" THEN "waiting" ELSE "called"
  /\ ~Shared(g) /\ (holders = {} \/ (kind = "file" /\ request[g].op = "Save"))
  /\ Locks(g)

LockExclusive(g) ==
  /\ pc[g] = IF kind = "memory" THEN "waiting" ELSE "called"
  /\ ~Shared(g) /\ holders = {}
  /\ Locks(g)

Lock(g) == Announce(g) \/ LockShared(g) \/ LockExclusive(g)

Forgets(g) ==
  /\ Goto(g, "idle")
  /\ request' = [request EXCEPT ![g] = NoRequest] /\ before' = [before EXCEPT ![g] = Absent]
  /\ answer' = [answer EXCEPT ![g] = Error] /\ found' = [found EXCEPT ![g] = 0]

\* Mutant of Return: the mutex is released by a success only.
ReturnUnlocksIfOk(g) ==
  /\ pc[g] = "returning"
  /\ holders' = IF answer[g] = Error THEN holders ELSE holders \ {g}
  /\ Forgets(g)
  /\ UNCHANGED <<kind, storeVars, sagaVars, crashes>>

\* The deferred Unlock, and the return, of an error too.
Return(g) ==
  /\ pc[g] = "returning"
  /\ holders' = holders \ {g}
  /\ Forgets(g)
  /\ UNCHANGED <<kind, storeVars, sagaVars, crashes>>

----------------------------------------------------------------------------
(* The methods *)

Puts(g, v) == contents' = [contents EXCEPT ![Id(g)] = v]
Runs(g, op, k) == pc[g] = "locked" /\ request[g].op = op /\ kind \in k

\* MemoryStore's Save copies the state: its fields, and the pointer to the context.
SaveToMemory(g) ==
  /\ Runs(g, "Save", {"memory"})
  /\ Puts(g, request[g].number)
  /\ Answers(g, Ok(request[g].number))
  /\ UNCHANGED <<kind, contexts, holders, request, before, found, sagaVars, crashes>>

\* FileStore's Save: os.WriteFile opens and truncates the file, and then writes it.
Truncate(g) ==
  /\ Runs(g, "Save", {"file"})
  /\ Puts(g, Unreadable)
  /\ before' = [before EXCEPT ![g] = contents[Id(g)]]
  /\ Goto(g, "truncated")
  /\ UNCHANGED <<kind, contexts, holders, request, answer, found, sagaVars, crashes>>

WriteFile(g) ==
  /\ pc[g] = "truncated"
  /\ Puts(g, request[g].number)
  /\ contexts' = [contexts EXCEPT ![Id(g)] = context[Id(g)]]
  /\ Answers(g, Ok(request[g].number))
  /\ UNCHANGED <<kind, holders, request, before, found, sagaVars, crashes>>

\* Mutant of SaveFails: the error of the write is dropped.
SaveFailsUnnoticed(g) ==
  /\ Runs(g, "Save", {"file"}) \/ pc[g] = "truncated"
  /\ Answers(g, Ok(request[g].number))
  /\ UNCHANGED <<kind, storeVars, holders, request, before, found, sagaVars, crashes>>

\* The state cannot be marshalled, the file not be opened, or not be written: a file
\* that was truncated stays so.
SaveFails(g) ==
  /\ Runs(g, "Save", {"file"}) \/ pc[g] = "truncated"
  /\ Answers(g, Error)
  /\ UNCHANGED <<kind, storeVars, holders, request, before, found, sagaVars, crashes>>

\* Mutant of ContextFound: the file keeps a pointer too.
ContextFoundByPointer(id) == context[id]

\* The context of a loaded state: the one that was saved, or that which the pointer
\* that was saved leads to now.
ContextFound(id) == IF kind = "file" THEN contexts[id] ELSE context[id]

\* Mutant of Load: the error of json.Unmarshal is dropped.
LoadUnchecked(g) ==
  /\ Runs(g, "Load", {"memory", "file"})
  /\ contents[Id(g)] # Absent
  /\ Answers(g, Ok(contents[Id(g)]))
  /\ found' = [found EXCEPT ![g] = ContextFound(Id(g))]
  /\ UNCHANGED <<kind, storeVars, holders, request, before, sagaVars, crashes>>

Load(g) ==
  /\ Runs(g, "Load", {"memory", "file"})
  /\ Readable(contents[Id(g)])
  /\ Answers(g, Ok(contents[Id(g)]))
  /\ found' = [found EXCEPT ![g] = ContextFound(Id(g))]
  /\ UNCHANGED <<kind, storeVars, holders, request, before, sagaVars, crashes>>

\* No such saga; or a file that cannot be read or unmarshalled.
LoadFails(g) ==
  /\ Runs(g, "Load", {"memory", "file"})
  /\ kind = "file" \/ ~Readable(contents[Id(g)])
  /\ Answers(g, Error)
  /\ UNCHANGED <<kind, storeVars, holders, request, before, found, sagaVars, crashes>>

\* What is not there is deleted without an error.
Delete(g) ==
  /\ Runs(g, "Delete", {"memory", "file"})
  /\ Puts(g, Absent)
  /\ Answers(g, Ok(0))
  /\ UNCHANGED <<kind, contexts, holders, request, before, found, sagaVars, crashes>>

DeleteFails(g) ==
  /\ Runs(g, "Delete", {"file"})
  /\ Answers(g, Error)
  /\ UNCHANGED <<kind, storeVars, holders, request, before, found, sagaVars, crashes>>

\* The process is killed, and another is started: its goroutines are new ones, and so
\* is a MemoryStore.
Crash ==
  /\ crashes < MaxCrashes
  /\ crashes' = crashes + 1
  /\ holders' = {}
  /\ pc' = [g \in Goroutines |-> "idle"]
  /\ request' = [g \in Goroutines |-> NoRequest]
  /\ before' = [g \in Goroutines |-> Absent]
  /\ answer' = [g \in Goroutines |-> Error]
  /\ found' = [g \in Goroutines |-> 0]
  /\ contents' = IF kind = "file" THEN contents ELSE [id \in Ids |-> Absent]
  /\ UNCHANGED <<kind, contexts, sagaVars>>

Body(g) ==
  \/ SaveToMemory(g) \/ Truncate(g) \/ WriteFile(g) \/ SaveFails(g)
  \/ Load(g) \/ LoadFails(g) \/ Delete(g) \/ DeleteFails(g)

Next ==
  \/ \E g \in Goroutines :
       CallSave(g) \/ CallLoadOrDelete(g) \/ Lock(g) \/ Body(g) \/ Return(g)
  \/ \E id \in Ids : ChangeContext(id)
  \/ Crash

Spec == Init /\ [][Next]_vars

\* A goroutine in a method goes on, and one that waits for a mutex that is free again
\* and again gets it: a sync.Mutex goes to the goroutine that has waited longest once
\* that is a millisecond.
FairSpec ==
  /\ Spec
  /\ \A g \in Goroutines : WF_vars(Body(g)) /\ WF_vars(Return(g)) /\ SF_vars(Lock(g))

----------------------------------------------------------------------------
(* Properties *)

StoreTypeOK ==
  /\ kind \in {"memory", "file"}
  /\ contents \in [Ids -> Int]
  /\ contexts \in [Ids -> Nat] /\ context \in [Ids -> Nat]
  /\ holders \subseteq Goroutines
  /\ pc \in [Goroutines -> {"idle", "called", "waiting", "locked", "truncated", "returning"}]
  /\ request \in [Goroutines -> [op : {"Save", "Load", "Delete"}, id : Ids, number : Nat]]
  /\ before \in [Goroutines -> Int]
  /\ answer \in [Goroutines -> [result : {"ok", "error"}, number : Nat]]
  /\ found \in [Goroutines -> Nat]
  /\ saves \in 0 .. MaxSaves /\ savedWith \in [1 .. MaxSaves -> Nat] /\ crashes \in Nat

InMethod(g) == pc[g] \in {"locked", "truncated", "returning"}

\* Two goroutines are in methods of the store at once only if both read: the map of a
\* MemoryStore, which the runtime ends the process for, and the file of a FileStore
\* are never written beside another access.
WritersAlone ==
  \A g, h \in Goroutines : InMethod(g) /\ InMethod(h) /\ g # h => Shared(g) /\ Shared(h)

\* A state that was loaded from a file has the context that its Save was given,
\* whatever the saga has done to the context since, and after a restart too.  Of a
\* MemoryStore, whose states point to the live context, this does not hold.
ContextAsSaved ==
  kind = "file" =>
    \A g \in Goroutines :
      pc[g] = "returning" /\ request[g].op = "Load" /\ answer[g].result = "ok" =>
        found[g] = savedWith[answer[g].number]

\* Every call returns, or its process is killed, however many others are made
\* meanwhile: no error path keeps the mutex.
EveryCallReturns ==
  \A g \in Goroutines : pc[g] = "called" ~> pc[g] = "idle"

----------------------------------------------------------------------------
(* Both stores implement AbstractStore.  A call takes effect in its method's body; *)
(* a file that is truncated counts as what it was until it is written.             *)

Value ==
  [id \in Ids |->
     IF \E g \in Goroutines : pc[g] = "truncated" /\ Id(g) = id
       THEN before[CHOOSE g \in Goroutines : pc[g] = "truncated" /\ Id(g) = id]
       ELSE contents[id]]

Phase ==
  [g \in Goroutines |->
     CASE pc[g] = "idle" -> "idle"
       [] pc[g] = "returning" -> "answered"
       [] OTHER -> "called"]

Abstract == INSTANCE AbstractStore WITH
  durable <- (kind = "file"), value <- Value, phase <- Phase

\* Every step of a store is a step of the abstract one, or none.
ImplementsStore == Abstract!Spec
=============================================================================
