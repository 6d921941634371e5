--------------------------- MODULE SagaStoreProofs ---------------------------
(***************************************************************************)
(* Of SagaStore, for any number of goroutines, sagas, calls, changes and   *)
(* crashes: the variables keep their kinds, a writer is alone in the       *)
(* store, a file gives back the context it was given, and both stores      *)
(* implement AbstractStore.                                                *)
(***************************************************************************)
EXTENDS SagaStore, TLAPS

\* The arguments of no call are arguments.
LEMMA NoRequestIsRequest == NoRequest \in [op : {"Save", "Load", "Delete"}, id : Ids, number : Nat]
<1>1. (CHOOSE id \in Ids : TRUE) \in Ids
  BY SomeoneAssumption
<1> QED
  BY <1>1 DEF NoRequest

\* What is found in a store is a version of the context.
LEMMA FoundIsVersion ==
  ASSUME StoreTypeOK, NEW id \in Ids
  PROVE  ContextFound(id) \in Nat
BY DEF StoreTypeOK, ContextFound

\* The variables keep their kinds.
LEMMA TypeStep == StoreTypeOK /\ [Next]_vars => StoreTypeOK'
<1> SUFFICES ASSUME StoreTypeOK, [Next]_vars
             PROVE  StoreTypeOK'
  OBVIOUS
<1> USE DEF StoreTypeOK
<1>1. CASE UNCHANGED vars
  BY <1>1 DEF vars, storeVars, callVars, sagaVars
<1>2. ASSUME NEW g \in Goroutines, CallSave(g)
      PROVE  StoreTypeOK'
  <2>1. saves' \in 1 .. MaxSaves
    BY <1>2, StoreBoundsAssumption DEF CallSave
  <2>2. PICK id \in Ids :
          /\ savedWith' = [savedWith EXCEPT ![saves'] = context[id]]
          /\ request' = [request EXCEPT ![g] = [op |-> "Save", id |-> id, number |-> saves']]
    BY <1>2 DEF CallSave
  <2> QED
    BY <1>2, <2>1, <2>2 DEF CallSave, Goto, storeVars
<1>3. ASSUME NEW g \in Goroutines, CallLoadOrDelete(g)
      PROVE  StoreTypeOK'
  <2>1. PICK op \in {"Load", "Delete"}, id \in Ids :
          request' = [request EXCEPT ![g] = [op |-> op, id |-> id, number |-> 0]]
    BY <1>3 DEF CallLoadOrDelete
  <2> QED
    BY <1>3, <2>1 DEF CallLoadOrDelete, Goto, storeVars, sagaVars
<1>4. ASSUME NEW g \in Goroutines, Lock(g)
      PROVE  StoreTypeOK'
  BY <1>4 DEF Lock, Announce, LockShared, LockExclusive, Locks, Goto, storeVars, sagaVars
<1>5. ASSUME NEW g \in Goroutines, Body(g)
      PROVE  StoreTypeOK'
  <2> USE DEF Runs, Puts, Answers, Goto, Ok, Error, Id, Absent, Unreadable
  <2>1. CASE SaveToMemory(g)
    BY <2>1 DEF SaveToMemory, sagaVars
  <2>2. CASE Truncate(g)
    BY <2>2 DEF Truncate, sagaVars
  <2>3. CASE WriteFile(g)
    BY <2>3 DEF WriteFile, sagaVars
  <2>4. CASE SaveFails(g)
    BY <2>4 DEF SaveFails, sagaVars, storeVars
  <2>5. CASE Load(g)
    <3>1. ContextFound(request[g].id) \in Nat
      BY FoundIsVersion
    <3> QED
      BY <2>5, <3>1 DEF Load, Readable, sagaVars, storeVars
  <2>6. CASE LoadFails(g)
    BY <2>6 DEF LoadFails, sagaVars, storeVars
  <2>7. CASE Delete(g)
    BY <2>7 DEF Delete, sagaVars
  <2>8. CASE DeleteFails(g)
    BY <2>8 DEF DeleteFails, sagaVars, storeVars
  <2> QED
    BY <1>5, <2>1, <2>2, <2>3, <2>4, <2>5, <2>6, <2>7, <2>8 DEF Body
<1>6. ASSUME NEW g \in Goroutines, Return(g)
      PROVE  StoreTypeOK'
  <2>1. request' \in [Goroutines -> [op : {"Save", "Load", "Delete"}, id : Ids, number : Nat]]
    BY <1>6, NoRequestIsRequest DEF Return, Forgets
  <2>2. answer' \in [Goroutines -> [result : {"ok", "error"}, number : Nat]]
    BY <1>6 DEF Return, Forgets, Error
  <2>3. pc' \in [Goroutines -> {"idle", "called", "waiting", "locked", "truncated", "returning"}]
    BY <1>6 DEF Return, Forgets, Goto
  <2>4. before' \in [Goroutines -> Int] /\ found' \in [Goroutines -> Nat]
    BY <1>6 DEF Return, Forgets, Absent
  <2>5. /\ holders' \subseteq Goroutines
        /\ UNCHANGED <<kind, contents, contexts, context, saves, savedWith, crashes>>
    BY <1>6 DEF Return, storeVars, sagaVars
  <2> QED
    BY <2>1, <2>2, <2>3, <2>4, <2>5
<1>7. ASSUME NEW id \in Ids, ChangeContext(id)
      PROVE  StoreTypeOK'
  BY <1>7 DEF ChangeContext, storeVars, callVars
<1>8. CASE Crash
  BY <1>8, NoRequestIsRequest DEF Crash, Error, Absent, sagaVars
<1> QED
  BY <1>1, <1>2, <1>3, <1>4, <1>5, <1>6, <1>7, <1>8 DEF Next

\* The kinds of the variables, in every behaviour.
THEOREM StoreTypeCorrect == Spec => []StoreTypeOK
<1>1. Init => StoreTypeOK
  BY NoRequestIsRequest, StoreBoundsAssumption, KindsAssumption DEF Init, StoreTypeOK, Error, Absent
<1> QED
  BY <1>1, TypeStep, PTL DEF Spec

----------------------------------------------------------------------------
(* The mutex: whoever holds it is in a method, and shares it with readers only. *)

LockInv ==
  /\ \A g \in Goroutines : g \in holders <=> InMethod(g)
  /\ \A g, h \in holders : g # h => Shared(g) /\ Shared(h)

\* Only the goroutine that acts moves, and only the calls that lock and return change
\* who holds the mutex.
LEMMA LockStep == StoreTypeOK /\ LockInv /\ [Next]_vars => LockInv'
<1> SUFFICES ASSUME StoreTypeOK, LockInv, [Next]_vars
             PROVE  LockInv'
  OBVIOUS
<1> USE DEF LockInv
<1>1. CASE UNCHANGED vars
  BY <1>1 DEF vars, storeVars, callVars, sagaVars, InMethod, Shared
<1>2. ASSUME NEW g \in Goroutines, CallSave(g) \/ CallLoadOrDelete(g)
      PROVE  LockInv'
  <2>1. /\ pc[g] = "idle" /\ pc' = [pc EXCEPT ![g] = "called"]
        /\ holders' = holders /\ kind' = kind
        /\ \A h \in Goroutines \ {g} : request'[h] = request[h]
    BY <1>2 DEF CallSave, CallLoadOrDelete, Goto, StoreTypeOK
  <2>2. g \notin holders
    BY <2>1 DEF InMethod
  <2>3. \A h \in Goroutines : InMethod(h)' <=> InMethod(h)
    BY <2>1 DEF InMethod, StoreTypeOK
  <2>4. \A h \in holders : Shared(h)' <=> Shared(h)
    BY <2>1, <2>2 DEF Shared, StoreTypeOK
  <2> QED
    BY <2>1, <2>3, <2>4
<1>3. ASSUME NEW g \in Goroutines, Announce(g)
      PROVE  LockInv'
  BY <1>3 DEF Announce, Goto, InMethod, Shared, StoreTypeOK
<1>4. ASSUME NEW g \in Goroutines, LockShared(g) \/ LockExclusive(g)
      PROVE  LockInv'
  <2>1. /\ holders' = holders \cup {g} /\ pc' = [pc EXCEPT ![g] = "locked"]
        /\ kind' = kind /\ request' = request
    BY <1>4 DEF LockShared, LockExclusive, Locks, Goto
  <2>2. holders = {} \/ (Shared(g) /\ \A h \in holders : Shared(h))
    BY <1>4 DEF LockShared, LockExclusive, StoreTypeOK
  <2> QED
    BY <2>1, <2>2 DEF InMethod, Shared, StoreTypeOK
<1>5. ASSUME NEW g \in Goroutines, Body(g)
      PROVE  LockInv'
  <2>1. /\ InMethod(g) /\ pc' \in [Goroutines -> {"idle", "called", "waiting", "locked", "truncated", "returning"}]
        /\ pc'[g] \in {"truncated", "returning"}
        /\ \A h \in Goroutines \ {g} : pc'[h] = pc[h]
        /\ holders' = holders /\ kind' = kind /\ request' = request
    BY <1>5 DEF Body, SaveToMemory, Truncate, WriteFile, SaveFails, Load, LoadFails, Delete,
                DeleteFails, Runs, Answers, Goto, InMethod, StoreTypeOK
  <2> QED
    BY <2>1 DEF InMethod, Shared, StoreTypeOK
<1>6. ASSUME NEW g \in Goroutines, Return(g)
      PROVE  LockInv'
  <2>1. /\ holders' = holders \ {g} /\ kind' = kind
        /\ pc' = [pc EXCEPT ![g] = "idle"]
        /\ \A h \in Goroutines \ {g} : request'[h] = request[h]
    BY <1>6 DEF Return, Forgets, Goto, StoreTypeOK
  <2> QED
    BY <2>1 DEF InMethod, Shared, StoreTypeOK
<1>7. ASSUME NEW id \in Ids, ChangeContext(id)
      PROVE  LockInv'
  BY <1>7 DEF ChangeContext, callVars, InMethod, Shared
<1>8. CASE Crash
  BY <1>8 DEF Crash, InMethod
<1> QED
  BY <1>1, <1>2, <1>3, <1>4, <1>5, <1>6, <1>7, <1>8 DEF Next, Lock

\* Both together, in every behaviour.
LEMMA LockHolds == Spec => [](StoreTypeOK /\ LockInv)
<1>1. Init => LockInv
  BY DEF Init, LockInv, InMethod
<1>2. Init => StoreTypeOK
  BY NoRequestIsRequest, StoreBoundsAssumption, KindsAssumption DEF Init, StoreTypeOK, Error, Absent
<1> QED
  BY <1>1, <1>2, TypeStep, LockStep, PTL DEF Spec

\* Whatever the number of goroutines, a writer is alone in the store: an RLock lets in
\* readers only, and a Lock nobody.
THEOREM AWriterIsAlone == Spec => []WritersAlone
<1>1. LockInv => WritersAlone
  BY DEF LockInv, WritersAlone
<1> QED
  BY <1>1, LockHolds, PTL

----------------------------------------------------------------------------
(* The context of a FileStore.  A save writes the context that is current when it *)
(* writes; that it was given this one is the executor's doing, which calls no      *)
(* action during a save.                                                           *)

Saving(g) == pc[g] # "idle" /\ request[g].op = "Save"
Loaded(g) == pc[g] = "returning" /\ request[g].op = "Load" /\ answer[g].result = "ok"

ContextInv ==
  /\ \A g \in Goroutines : pc[g] = "truncated" => kind = "file" /\ request[g].op = "Save"
  /\ \A g \in Goroutines : Saving(g) =>
       /\ request[g].number \in 1 .. saves
       /\ savedWith[request[g].number] = context[request[g].id]
  /\ kind = "file" => \A id \in Ids : Readable(contents[id]) =>
       contents[id] \in 1 .. saves /\ contexts[id] = savedWith[contents[id]]
  /\ kind = "file" => \A g \in Goroutines : Loaded(g) =>
       answer[g].number \in 1 .. saves /\ found[g] = savedWith[answer[g].number]

\* A step that leaves the files and the sagas alone, and begins no save and ends no load.
LEMMA ContextCarried ==
  ASSUME ContextInv,
         UNCHANGED <<kind, contents, contexts, context, saves, savedWith>>,
         \A h \in Goroutines : pc'[h] = "truncated" => pc[h] = "truncated" /\ request'[h] = request[h],
         \A h \in Goroutines : Saving(h)' => Saving(h) /\ request'[h] = request[h],
         \A h \in Goroutines : Loaded(h)' => Loaded(h) /\ answer'[h] = answer[h] /\ found'[h] = found[h]
  PROVE  ContextInv'
<1>1. ASSUME NEW h \in Goroutines, pc'[h] = "truncated"
      PROVE  kind' = "file" /\ request'[h].op = "Save"
  BY <1>1 DEF ContextInv
<1>2. ASSUME NEW h \in Goroutines, Saving(h)'
      PROVE  request'[h].number \in 1 .. saves' /\ savedWith'[request'[h].number] = context'[request'[h].id]
  <2>1. Saving(h) /\ request'[h] = request[h]
    BY <1>2
  <2> QED
    BY <2>1 DEF ContextInv
<1>3. ASSUME NEW h \in Goroutines, kind' = "file", Loaded(h)'
      PROVE  answer'[h].number \in 1 .. saves' /\ found'[h] = savedWith'[answer'[h].number]
  <2>1. Loaded(h) /\ answer'[h] = answer[h] /\ found'[h] = found[h]
    BY <1>3
  <2> QED
    BY <1>3, <2>1 DEF ContextInv
<1>4. ASSUME NEW id \in Ids, kind' = "file", Readable(contents'[id])
      PROVE  contents'[id] \in 1 .. saves' /\ contexts'[id] = savedWith'[contents'[id]]
  BY <1>4 DEF ContextInv
<1> QED
  BY <1>1, <1>2, <1>3, <1>4 DEF ContextInv

\* The context on file is the one its save was given; so is that of a loaded state.
LEMMA ContextStep == StoreTypeOK /\ ContextInv /\ [Next]_vars => ContextInv'
<1> SUFFICES ASSUME StoreTypeOK, ContextInv, [Next]_vars
             PROVE  ContextInv'
  OBVIOUS
<1> USE DEF ContextInv
<1>1. CASE UNCHANGED vars
  BY <1>1 DEF vars, storeVars, callVars, sagaVars, Saving, Loaded
<1>2. ASSUME NEW g \in Goroutines, CallSave(g)
      PROVE  ContextInv'
  <2>1. PICK id \in Ids :
          /\ savedWith' = [savedWith EXCEPT ![saves + 1] = context[id]]
          /\ request' = [request EXCEPT ![g] = [op |-> "Save", id |-> id, number |-> saves + 1]]
    BY <1>2 DEF CallSave
  <2>2. /\ pc[g] = "idle" /\ pc' = [pc EXCEPT ![g] = "called"]
        /\ saves < MaxSaves /\ saves' = saves + 1
        /\ UNCHANGED <<kind, contents, contexts, answer, found, context>>
    BY <1>2 DEF CallSave, Goto, storeVars
  <2>3. saves + 1 \in 1 .. MaxSaves /\ 1 .. saves \subseteq 1 .. saves'
        /\ \A n \in 1 .. saves : savedWith'[n] = savedWith[n]
    BY <2>1, <2>2, StoreBoundsAssumption DEF StoreTypeOK
  <2>4. ASSUME NEW h \in Goroutines, Saving(h)'
        PROVE  request'[h].number \in 1 .. saves' /\ savedWith'[request'[h].number] = context'[request'[h].id]
    <3>1. CASE h = g
      BY <2>1, <2>2, <2>3, <3>1 DEF StoreTypeOK
    <3>2. CASE h # g
      BY <2>1, <2>2, <2>3, <2>4, <3>2 DEF StoreTypeOK, Saving
    <3> QED
      BY <3>1, <3>2
  <2>5. ASSUME NEW h \in Goroutines, kind = "file", Loaded(h)'
        PROVE  answer'[h].number \in 1 .. saves' /\ found'[h] = savedWith'[answer'[h].number]
    BY <2>1, <2>2, <2>3, <2>5 DEF StoreTypeOK, Loaded
  <2>6. ASSUME NEW j \in Ids, kind = "file", Readable(contents[j])
        PROVE  contents[j] \in 1 .. saves' /\ contexts[j] = savedWith'[contents[j]]
    BY <2>3, <2>6
  <2>7. \A h \in Goroutines : pc'[h] = "truncated" => pc[h] = "truncated" /\ request'[h] = request[h]
    BY <2>1, <2>2 DEF StoreTypeOK
  <2> QED
    BY <2>2, <2>4, <2>5, <2>6, <2>7
<1>3. ASSUME NEW g \in Goroutines, CallLoadOrDelete(g)
      PROVE  ContextInv'
  <2>1. PICK op \in {"Load", "Delete"}, id \in Ids :
          request' = [request EXCEPT ![g] = [op |-> op, id |-> id, number |-> 0]]
    BY <1>3 DEF CallLoadOrDelete
  <2> QED
    BY <1>3, <2>1 DEF CallLoadOrDelete, Goto, Saving, Loaded, StoreTypeOK, storeVars, sagaVars
<1>4. ASSUME NEW g \in Goroutines, Lock(g)
      PROVE  ContextInv'
  <2>1. /\ pc[g] # "idle" /\ \E l \in {"waiting", "locked"} : pc' = [pc EXCEPT ![g] = l]
        /\ UNCHANGED <<kind, contents, contexts, request, answer, found, context, saves, savedWith>>
    BY <1>4 DEF Lock, Announce, LockShared, LockExclusive, Locks, Goto, storeVars, sagaVars
  <2>2. \A h \in Goroutines : pc'[h] = "truncated" => pc[h] = "truncated" /\ request'[h] = request[h]
    BY <2>1 DEF StoreTypeOK
  <2>3. \A h \in Goroutines : Saving(h)' => Saving(h) /\ request'[h] = request[h]
    BY <2>1 DEF Saving, StoreTypeOK
  <2>4. \A h \in Goroutines : Loaded(h)' => Loaded(h) /\ answer'[h] = answer[h] /\ found'[h] = found[h]
    BY <2>1 DEF Loaded, StoreTypeOK
  <2> QED
    BY <2>1, <2>2, <2>3, <2>4, ContextCarried
<1>5. ASSUME NEW g \in Goroutines, Body(g)
      PROVE  ContextInv'
  <2> USE DEF StoreTypeOK, Saving, Loaded, Runs, Puts, Answers, Goto, Id
  <2>1. CASE SaveToMemory(g)
    BY <2>1 DEF SaveToMemory, sagaVars
  <2>2. CASE Truncate(g)
    BY <2>2 DEF Truncate, sagaVars, Readable, Unreadable
  <2>3. CASE WriteFile(g)
    BY <2>3 DEF WriteFile, sagaVars, Ok
  <2>4. CASE SaveFails(g)
    BY <2>4 DEF SaveFails, sagaVars, storeVars
  <2>5. CASE Load(g)
    BY <2>5 DEF Load, ContextFound, Ok, sagaVars, storeVars
  <2>6. CASE LoadFails(g)
    BY <2>6 DEF LoadFails, Error, sagaVars, storeVars
  <2>7. CASE Delete(g)
    BY <2>7 DEF Delete, Readable, Absent, sagaVars
  <2>8. CASE DeleteFails(g)
    BY <2>8 DEF DeleteFails, sagaVars, storeVars
  <2> QED
    BY <1>5, <2>1, <2>2, <2>3, <2>4, <2>5, <2>6, <2>7, <2>8 DEF Body
<1>6. ASSUME NEW g \in Goroutines, Return(g)
      PROVE  ContextInv'
  <2>1. /\ pc' = [pc EXCEPT ![g] = "idle"]
        /\ \A h \in Goroutines \ {g} :
             request'[h] = request[h] /\ answer'[h] = answer[h] /\ found'[h] = found[h]
        /\ UNCHANGED <<kind, contents, contexts, context, saves, savedWith>>
    BY <1>6 DEF Return, Forgets, Goto, StoreTypeOK, storeVars, sagaVars
  <2>2. \A h \in Goroutines : pc'[h] = "truncated" => pc[h] = "truncated" /\ request'[h] = request[h]
    BY <2>1 DEF StoreTypeOK
  <2>3. \A h \in Goroutines : Saving(h)' => Saving(h) /\ request'[h] = request[h]
    BY <2>1 DEF Saving, StoreTypeOK
  <2>4. \A h \in Goroutines : Loaded(h)' => Loaded(h) /\ answer'[h] = answer[h] /\ found'[h] = found[h]
    BY <2>1 DEF Loaded, StoreTypeOK
  <2> QED
    BY <2>1, <2>2, <2>3, <2>4, ContextCarried
<1>7. ASSUME NEW id \in Ids, ChangeContext(id)
      PROVE  ContextInv'
  BY <1>7 DEF ChangeContext, Id, Saving, Loaded, StoreTypeOK, storeVars, callVars
<1>8. CASE Crash
  BY <1>8 DEF Crash, Saving, Loaded, sagaVars
<1> QED
  BY <1>1, <1>2, <1>3, <1>4, <1>5, <1>6, <1>7, <1>8 DEF Next

\* A state that was loaded from a file has the context its Save was given.
THEOREM ContextIsAsSaved == Spec => []ContextAsSaved
<1>1. Init => ContextInv /\ StoreTypeOK
  BY NoRequestIsRequest, StoreBoundsAssumption, KindsAssumption
     DEF Init, ContextInv, StoreTypeOK, Saving, Loaded, Readable, Error, Absent
<1>2. ContextInv => ContextAsSaved
  BY DEF ContextInv, ContextAsSaved, Loaded
<1> QED
  BY <1>1, <1>2, TypeStep, ContextStep, PTL DEF Spec

----------------------------------------------------------------------------
(* Both stores implement AbstractStore. *)

\* A file that is truncated is being saved, and stays so until its save writes it.
FileInv ==
  \A g \in Goroutines : pc[g] = "truncated" =>
    kind = "file" /\ request[g].op = "Save" /\ contents[Id(g)] = Unreadable

SafeInv == StoreTypeOK /\ LockInv /\ FileInv

\* While a file is truncated its goroutine is the only one in a method.
LEMMA TruncatorAlone ==
  ASSUME SafeInv, NEW g \in Goroutines, InMethod(g), NEW h \in Goroutines \ {g}
  PROVE  pc[h] # "truncated"
<1> SUFFICES ASSUME pc[h] = "truncated"
             PROVE  FALSE
  OBVIOUS
<1>1. g \in holders /\ h \in holders
  BY DEF SafeInv, LockInv, InMethod
<1>2. kind = "file"
  BY DEF SafeInv, FileInv
<1> QED
  BY <1>1, <1>2 DEF SafeInv, LockInv, Shared

LEMMA FileStep == SafeInv /\ [Next]_vars => FileInv'
<1> SUFFICES ASSUME SafeInv, [Next]_vars, NEW h \in Goroutines, pc'[h] = "truncated"
             PROVE  kind' = "file" /\ request'[h].op = "Save" /\ contents'[request'[h].id] = Unreadable
  BY DEF FileInv, Id
<1> USE DEF SafeInv, StoreTypeOK
<1>1. CASE UNCHANGED vars
  BY <1>1 DEF vars, storeVars, callVars, sagaVars, FileInv, Id
<1>2. ASSUME NEW g \in Goroutines, CallSave(g) \/ CallLoadOrDelete(g) \/ Lock(g) \/ Return(g)
      PROVE  kind' = "file" /\ request'[h].op = "Save" /\ contents'[request'[h].id] = Unreadable
  <2>1. /\ pc' \in [Goroutines -> {"idle", "called", "waiting", "locked", "truncated", "returning"}]
        /\ pc'[g] # "truncated" /\ kind' = kind /\ contents' = contents
        /\ \A i \in Goroutines \ {g} : pc'[i] = pc[i] /\ request'[i] = request[i]
    BY <1>2 DEF CallSave, CallLoadOrDelete, Lock, Announce, LockShared, LockExclusive, Locks,
                Return, Forgets, Goto, storeVars
  <2> QED
    BY <2>1 DEF FileInv, Id
<1>3. ASSUME NEW g \in Goroutines, Body(g)
      PROVE  kind' = "file" /\ request'[h].op = "Save" /\ contents'[request'[h].id] = Unreadable
  <2>1. InMethod(g)
    BY <1>3 DEF Body, SaveToMemory, Truncate, WriteFile, SaveFails, Load, LoadFails, Delete,
                DeleteFails, Runs, InMethod
  <2>2. CASE Truncate(g)
    <3>1. h = g
      BY <2>1, <2>2, TruncatorAlone DEF Truncate, Goto
    <3> QED
      BY <2>2, <3>1 DEF Truncate, Runs, Puts, Id
  <2>3. CASE ~Truncate(g)
    <3>1. pc' = [pc EXCEPT ![g] = "returning"]
      BY <1>3, <2>3 DEF Body, SaveToMemory, WriteFile, SaveFails, Load, LoadFails, Delete,
                        DeleteFails, Answers, Goto
    <3> QED
      BY <2>1, <3>1, TruncatorAlone
  <2> QED
    BY <2>2, <2>3
<1>4. ASSUME NEW id \in Ids, ChangeContext(id)
      PROVE  kind' = "file" /\ request'[h].op = "Save" /\ contents'[request'[h].id] = Unreadable
  BY <1>4 DEF ChangeContext, storeVars, callVars, FileInv, Id
<1>5. CASE Crash
  BY <1>5 DEF Crash
<1> QED
  BY <1>1, <1>2, <1>3, <1>4, <1>5 DEF Next

LEMMA SafeHolds == Spec => []SafeInv
<1>1. Init => SafeInv
  BY NoRequestIsRequest, StoreBoundsAssumption, KindsAssumption
     DEF Init, SafeInv, LockInv, FileInv, InMethod, StoreTypeOK, Error, Absent
<1>2. SafeInv /\ [Next]_vars => SafeInv'
  BY TypeStep, LockStep, FileStep DEF SafeInv
<1> QED
  BY <1>1, <1>2, PTL DEF Spec

\* What the abstract store has on record.
LEMMA ValueIs ==
  SafeInv =>
    /\ (\A h \in Goroutines : pc[h] # "truncated") => Value = contents
    /\ \A g \in Goroutines : pc[g] = "truncated" => Value = [contents EXCEPT ![Id(g)] = before[g]]
<1> SUFFICES ASSUME SafeInv
             PROVE  /\ (\A h \in Goroutines : pc[h] # "truncated") => Value = contents
                    /\ \A g \in Goroutines : pc[g] = "truncated" =>
                         Value = [contents EXCEPT ![Id(g)] = before[g]]
  OBVIOUS
<1>1. ASSUME \A h \in Goroutines : pc[h] # "truncated"
      PROVE  Value = contents
  BY <1>1 DEF Value, SafeInv, StoreTypeOK
<1>2. ASSUME NEW g \in Goroutines, pc[g] = "truncated"
      PROVE  Value = [contents EXCEPT ![Id(g)] = before[g]]
  <2>1. \A h \in Goroutines : pc[h] = "truncated" => h = g
    BY <1>2, TruncatorAlone DEF InMethod
  <2>2. ASSUME NEW id \in Ids
        PROVE  Value[id] = IF id = Id(g) THEN before[g] ELSE contents[id]
    <3>1. CASE id = Id(g)
      <4>1. \A h \in Goroutines : pc[h] = "truncated" /\ Id(h) = id <=> h = g
        BY <1>2, <2>1, <3>1
      <4>2. (CHOOSE h \in Goroutines : pc[h] = "truncated" /\ Id(h) = id) = g
        BY <4>1
      <4> QED
        BY <3>1, <4>1, <4>2 DEF Value
    <3>2. CASE id # Id(g)
      BY <2>1, <3>2 DEF Value
    <3> QED
      BY <3>1, <3>2
  <2>3. Value = [id \in Ids |-> Value[id]]
    BY DEF Value
  <2>4. Value = [id \in Ids |-> IF id = Id(g) THEN before[g] ELSE contents[id]]
    BY <2>2, <2>3
  <2>5. Id(g) \in Ids /\ contents = [id \in Ids |-> contents[id]]
    BY DEF SafeInv, StoreTypeOK, Id
  <2> QED
    BY <2>4, <2>5
<1> QED
  BY <1>1, <1>2

\* The same of the state after a step.
LEMMA ValueIsNext ==
  SafeInv' =>
    /\ (\A h \in Goroutines : pc'[h] # "truncated") => Value' = contents'
    /\ \A g \in Goroutines : pc'[g] = "truncated" =>
         Value' = [contents' EXCEPT ![request'[g].id] = before'[g]]
<1>1. (SafeInv =>
        /\ (\A h \in Goroutines : pc[h] # "truncated") => Value = contents
        /\ \A g \in Goroutines : pc[g] = "truncated" => Value = [contents EXCEPT ![Id(g)] = before[g]])'
  BY ValueIs, PTL
<1> QED
  BY <1>1 DEF Id

\* A step that truncates and writes nothing changes nothing on record.
LEMMA ValueUnchanged ==
  ASSUME SafeInv, SafeInv', contents' = contents,
         \A h \in Goroutines : pc'[h] = "truncated" <=> pc[h] = "truncated",
         \A h \in Goroutines : pc[h] = "truncated" => request'[h] = request[h] /\ before'[h] = before[h]
  PROVE  Value' = Value
<1>1. CASE \A h \in Goroutines : pc[h] # "truncated"
  BY <1>1, ValueIs, ValueIsNext
<1>2. ASSUME NEW g \in Goroutines, pc[g] = "truncated"
      PROVE  Value' = Value
  <2>1. Value = [contents EXCEPT ![request[g].id] = before[g]]
    BY <1>2, ValueIs DEF Id
  <2>2. Value' = [contents' EXCEPT ![request'[g].id] = before'[g]]
    BY <1>2, ValueIsNext
  <2> QED
    BY <1>2, <2>1, <2>2
<1> QED
  BY <1>1, <1>2

\* What the body of a method does, between its lock and its return, is the moment at
\* which the call takes effect; truncating the file is nothing yet.
LEMMA BodyTakesEffect ==
  ASSUME SafeInv, SafeInv', NEW g \in Goroutines, Body(g)
  PROVE  Abstract!TakeEffect(g) \/ UNCHANGED Abstract!vars
<1>1. /\ InMethod(g) /\ pc[g] \in {"locked", "truncated"}
      /\ kind' = kind /\ request' = request
      /\ \A h \in Goroutines \ {g} : pc'[h] = pc[h] /\ before'[h] = before[h]
  BY DEF Body, SaveToMemory, Truncate, WriteFile, SaveFails, Load, LoadFails, Delete, DeleteFails,
         Runs, Answers, Goto, InMethod, SafeInv, StoreTypeOK
<1>2. \A h \in Goroutines \ {g} : pc[h] # "truncated" /\ pc'[h] # "truncated"
  BY <1>1, TruncatorAlone
<1>3. pc[g] = "locked" => Value = contents
  BY <1>1, <1>2, ValueIs
<1>4. pc[g] = "truncated" => /\ Value = [contents EXCEPT ![Id(g)] = before[g]]
                             /\ contents[Id(g)] = Unreadable /\ request[g].op = "Save"
  BY ValueIs DEF SafeInv, FileInv
<1>5. Id(g) \in Ids /\ contents \in [Ids -> Int] /\ Id(g) = request[g].id
  BY DEF SafeInv, StoreTypeOK, Id
<1>6. CASE Truncate(g)
  <2>1. /\ pc[g] = "locked" /\ pc' = [pc EXCEPT ![g] = "truncated"] /\ answer' = answer
        /\ contents' = [contents EXCEPT ![Id(g)] = Unreadable] /\ before'[g] = contents[Id(g)]
    BY <1>6 DEF Truncate, Runs, Puts, Goto, SafeInv, StoreTypeOK
  <2>2. pc'[g] = "truncated"
    BY <2>1 DEF SafeInv, StoreTypeOK
  <2>3. Value' = [contents' EXCEPT ![Id(g)] = before'[g]]
    BY <1>1, <1>5, <2>2, ValueIsNext
  <2>4. Value' = Value
    BY <1>3, <1>5, <2>1, <2>3
  <2>5. Phase' = Phase
    BY <2>1 DEF Phase, SafeInv, StoreTypeOK
  <2> QED
    BY <1>1, <2>1, <2>4, <2>5 DEF Abstract!vars
<1>7. CASE ~Truncate(g)
  <2>1. pc' = [pc EXCEPT ![g] = "returning"] /\ \E a : answer' = [answer EXCEPT ![g] = a]
    BY <1>7 DEF Body, SaveToMemory, WriteFile, SaveFails, Load, LoadFails, Delete, DeleteFails,
                Answers, Goto
  <2>2. Value' = contents'
    BY <1>2, <2>1, ValueIsNext DEF SafeInv, StoreTypeOK
  <2>3. Phase[g] = "called" /\ Phase' = [Phase EXCEPT ![g] = "answered"]
    BY <1>1, <2>1 DEF Phase, SafeInv, StoreTypeOK
  <2>4. Abstract!Save(g) \/ Abstract!Load(g) \/ Abstract!Delete(g)
    <3> USE DEF Runs, Answers, Puts, Ok, Error, Readable, Unreadable, Absent,
                Abstract!Puts, Abstract!Ok, Abstract!Error, Abstract!Readable, Abstract!Unreadable,
                Abstract!Absent
    <3>1. CASE SaveToMemory(g)
      BY <1>3, <1>5, <2>2, <3>1 DEF SaveToMemory, Abstract!Save
    <3>2. CASE WriteFile(g)
      BY <1>4, <1>5, <2>2, <3>2 DEF WriteFile, Abstract!Save
    <3>3. CASE SaveFails(g)
      <4>1. /\ contents' = contents /\ answer' = [answer EXCEPT ![g] = [result |-> "error", number |-> 0]]
            /\ request[g].op = "Save"
        BY <1>4, <3>3 DEF SaveFails, storeVars
      <4>2. CASE pc[g] = "locked"
        BY <1>3, <2>2, <4>1, <4>2 DEF Abstract!Save
      <4>3. CASE pc[g] = "truncated"
        <5>1. Value' = [Value EXCEPT ![request[g].id] = -1]
          BY <1>4, <1>5, <2>2, <4>1, <4>3
        <5> QED
          BY <4>1, <5>1 DEF Abstract!Save
      <4> QED
        BY <1>1, <4>2, <4>3
    <3>4. CASE Load(g)
      BY <1>3, <1>5, <2>2, <3>4 DEF Load, Abstract!Load, storeVars
    <3>5. CASE LoadFails(g)
      BY <1>3, <2>2, <3>5 DEF LoadFails, Abstract!Load, storeVars
    <3>6. CASE Delete(g)
      BY <1>3, <1>5, <2>2, <3>6 DEF Delete, Abstract!Delete
    <3>7. CASE DeleteFails(g)
      BY <1>3, <2>2, <3>7 DEF DeleteFails, Abstract!Delete, storeVars
    <3> QED
      BY <1>7, <3>1, <3>2, <3>3, <3>4, <3>5, <3>6, <3>7 DEF Body
  <2> QED
    BY <1>1, <2>3, <2>4 DEF Abstract!TakeEffect
<1> QED
  BY <1>6, <1>7

\* A kill empties a MemoryStore, and leaves of a FileStore all but the file that was
\* truncated.
LEMMA CrashIsCrash ==
  ASSUME SafeInv, SafeInv', Crash
  PROVE  Abstract!Crash
<1>1. /\ pc' = [g \in Goroutines |-> "idle"] /\ kind' = kind
      /\ contents' = IF kind = "file" THEN contents ELSE [id \in Ids |-> Absent]
  BY DEF Crash
<1>2. Value' = contents'
  BY <1>1, ValueIsNext
<1>3. Phase' = [g \in Goroutines |-> "idle"]
  BY <1>1 DEF Phase
<1>4. /\ request' = [g \in Goroutines |-> Abstract!NoRequest]
      /\ answer' = [g \in Goroutines |-> Abstract!Error]
  BY DEF Crash, NoRequest, Error, Abstract!NoRequest, Abstract!Error
<1>5. CASE kind # "file"
  BY <1>1, <1>2, <1>3, <1>4, <1>5 DEF Abstract!Crash, Absent, Abstract!Absent
<1>6. CASE kind = "file"
  <2>1. PICK lost \in SUBSET {id \in Ids : Abstract!SaveInProgress(id)} :
          Value' = [id \in Ids |-> IF id \in lost THEN Unreadable ELSE Value[id]]
    <3>1. contents \in [Ids -> Int]
      BY DEF SafeInv, StoreTypeOK
    <3>2. CASE \A g \in Goroutines : pc[g] # "truncated"
      <4>1. Value' = [id \in Ids |-> IF id \in {} THEN Unreadable ELSE Value[id]]
        BY <1>1, <1>2, <1>6, <3>1, <3>2, ValueIs
      <4>2. {} \in SUBSET {id \in Ids : Abstract!SaveInProgress(id)}
        OBVIOUS
      <4> WITNESS {} \in SUBSET {id \in Ids : Abstract!SaveInProgress(id)}
      <4> QED
        BY <4>1
    <3>3. ASSUME NEW g \in Goroutines, pc[g] = "truncated"
          PROVE  \E lost \in SUBSET {id \in Ids : Abstract!SaveInProgress(id)} :
                   Value' = [id \in Ids |-> IF id \in lost THEN Unreadable ELSE Value[id]]
      <4>1. /\ Value = [contents EXCEPT ![request[g].id] = before[g]]
            /\ contents[request[g].id] = Unreadable /\ request[g].op = "Save" /\ request[g].id \in Ids
        BY <3>3, ValueIs DEF SafeInv, FileInv, StoreTypeOK, Id
      <4>2. Value' = [id \in Ids |-> IF id \in {request[g].id} THEN Unreadable ELSE Value[id]]
        BY <1>1, <1>2, <1>6, <3>1, <4>1
      <4>3. Abstract!SaveInProgress(request[g].id)
        BY <3>3, <4>1 DEF Abstract!SaveInProgress, Phase
      <4>4. {request[g].id} \in SUBSET {id \in Ids : Abstract!SaveInProgress(id)}
        BY <4>1, <4>3
      <4> WITNESS {request[g].id} \in SUBSET {id \in Ids : Abstract!SaveInProgress(id)}
      <4> QED
        BY <4>2
    <3> QED
      BY <3>2, <3>3
  <2> QED
    BY <1>1, <1>3, <1>4, <1>6, <2>1 DEF Abstract!Crash, Unreadable, Abstract!Unreadable
<1> QED
  BY <1>5, <1>6

\* Every step of either store is a step of the abstract store, or none.
LEMMA StepImplements ==
  ASSUME SafeInv, SafeInv', [Next]_vars
  PROVE  Abstract!Next \/ UNCHANGED Abstract!vars
<1> USE DEF SafeInv, StoreTypeOK
<1>1. CASE UNCHANGED vars
  <2>1. Value' = Value /\ Phase' = Phase
    BY <1>1 DEF vars, storeVars, callVars, Value, Phase, Id
  <2> QED
    BY <1>1, <2>1 DEF vars, callVars, Abstract!vars
<1>2. ASSUME NEW g \in Goroutines, CallSave(g) \/ CallLoadOrDelete(g)
      PROVE  Abstract!Next
  <2>1. /\ pc[g] = "idle" /\ pc' = [pc EXCEPT ![g] = "called"]
        /\ UNCHANGED <<kind, contents, before, answer>>
        /\ \A h \in Goroutines \ {g} : request'[h] = request[h]
    BY <1>2 DEF CallSave, CallLoadOrDelete, Goto, storeVars
  <2>2. Value' = Value
    BY <2>1, ValueUnchanged
  <2>3. Phase[g] = "idle" /\ Phase' = [Phase EXCEPT ![g] = "called"]
    BY <2>1 DEF Phase
  <2>4. request' \in [Goroutines -> Abstract!Requests]
    BY DEF Abstract!Requests
  <2>5. Abstract!Call(g)
    BY <2>1, <2>2, <2>3, <2>4 DEF Abstract!Call
  <2> QED
    BY <2>5 DEF Abstract!Next
<1>3. ASSUME NEW g \in Goroutines, Lock(g)
      PROVE  UNCHANGED Abstract!vars
  <2>1. /\ pc[g] \in {"called", "waiting"} /\ \E l \in {"waiting", "locked"} : pc' = [pc EXCEPT ![g] = l]
        /\ UNCHANGED <<kind, contents, request, before, answer>>
    BY <1>3 DEF Lock, Announce, LockShared, LockExclusive, Locks, Goto, storeVars
  <2>2. Value' = Value
    BY <2>1, ValueUnchanged
  <2>3. Phase' = Phase
    BY <2>1 DEF Phase
  <2> QED
    BY <2>1, <2>2, <2>3 DEF Abstract!vars
<1>4. ASSUME NEW g \in Goroutines, Body(g)
      PROVE  Abstract!Next \/ UNCHANGED Abstract!vars
  <2>1. Abstract!TakeEffect(g) \/ UNCHANGED Abstract!vars
    BY <1>4, BodyTakesEffect
  <2> QED
    BY <2>1 DEF Abstract!Next
<1>5. ASSUME NEW g \in Goroutines, Return(g)
      PROVE  Abstract!Next
  <2>1. /\ pc[g] = "returning" /\ pc' = [pc EXCEPT ![g] = "idle"]
        /\ request' = [request EXCEPT ![g] = NoRequest] /\ answer' = [answer EXCEPT ![g] = Error]
        /\ UNCHANGED <<kind, contents>>
        /\ \A h \in Goroutines \ {g} : before'[h] = before[h]
    BY <1>5 DEF Return, Forgets, Goto, storeVars
  <2>2. Value' = Value
    BY <2>1, ValueUnchanged
  <2>3. Phase[g] = "answered" /\ Phase' = [Phase EXCEPT ![g] = "idle"]
    BY <2>1 DEF Phase
  <2>4. Abstract!Return(g)
    BY <2>1, <2>2, <2>3 DEF Abstract!Return, NoRequest, Error, Abstract!NoRequest, Abstract!Error
  <2> QED
    BY <2>4 DEF Abstract!Next
<1>6. ASSUME NEW id \in Ids, ChangeContext(id)
      PROVE  UNCHANGED Abstract!vars
  <2>1. UNCHANGED <<kind, contents, pc, request, before, answer>>
    BY <1>6 DEF ChangeContext, storeVars, callVars
  <2>2. Value' = Value /\ Phase' = Phase
    BY <2>1 DEF Value, Phase, Id
  <2> QED
    BY <2>1, <2>2 DEF Abstract!vars
<1>7. CASE Crash
  BY <1>7, CrashIsCrash DEF Abstract!Next
<1> QED
  BY <1>1, <1>2, <1>3, <1>4, <1>5, <1>6, <1>7 DEF Next

LEMMA InitImplements == Init => Abstract!Init
<1> SUFFICES ASSUME Init
             PROVE  Abstract!Init
  OBVIOUS
<1>1. Value = [id \in Ids |-> Absent]
  BY DEF Init, Value
<1>2. Phase = [g \in Goroutines |-> "idle"]
  BY DEF Init, Phase
<1> QED
  BY <1>1, <1>2 DEF Init, Abstract!Init, NoRequest, Error, Absent, Abstract!NoRequest,
                    Abstract!Error, Abstract!Absent

\* For any number of goroutines and sagas, MemoryStore and FileStore do what the
\* interface promises: every call takes effect at one moment, and a save that failed
\* or was killed leaves the old record or an unreadable one.
THEOREM StoresImplementAbstract == Spec => ImplementsStore
<1>1. Init => Abstract!Init
  BY InitImplements
<1>2. SafeInv /\ SafeInv' /\ [Next]_vars => [Abstract!Next]_(Abstract!vars)
  BY StepImplements
<1> QED
  BY <1>1, <1>2, SafeHolds, PTL DEF Spec, ImplementsStore, Abstract!Spec
=============================================================================
