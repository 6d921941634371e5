---------------------------- MODULE ActionRegistry ----------------------------
(***************************************************************************)
(* Goroutines that share one ActionRegistry "across multiple sagas"        *)
(* (action_registry.go): each builds its saga, where DagBuilder registers  *)
(* the actions that are not registered yet, and then runs it, where the    *)
(* executor looks up the action of a node for its DoIt and again for its   *)
(* UndoIt.  The map of the registry is safe to use from several goroutines *)
(* call by call; Register makes two calls.                                 *)
(***************************************************************************)
EXTENDS Integers, Sequences

CONSTANTS
  Goroutines,
  Names,    \* action names
  Sagas     \* the sagas that may be built: the sequences of their actions' names

VARIABLES
  actions,  \* the registry: whose instance of the action is under each name
  saga,     \* the saga of each goroutine
  pc,       \* where it is
  at,       \* the node it is at
  looked,   \* for each of its nodes, the instances it has found for it
  result    \* how its Append, or its saga, ended

vars == <<actions, saga, pc, at, looked, result>>

NotRegistered == "none"

Init ==
  /\ actions = [name \in Names |-> NotRegistered]
  /\ saga \in [Goroutines -> Sagas]
  /\ pc = [g \in Goroutines |-> "append"] /\ at = [g \in Goroutines |-> 1]
  /\ looked = [g \in Goroutines |-> [i \in 1 .. Len(saga[g]) |-> {}]]
  /\ result = [g \in Goroutines |-> "none"]

Goto(g, label) == pc' = [pc EXCEPT ![g] = label]
Name(g) == saga[g][at[g]]
Found(g) == actions[Name(g)] # NotRegistered
Ends(g, r) ==
  /\ Goto(g, "ended") /\ result' = [result EXCEPT ![g] = r]
  /\ UNCHANGED <<actions, saga, at, looked>>

\* The node is in the graph; after the last one the saga is executed.
Appended(g) ==
  /\ at' = [at EXCEPT ![g] = IF @ = Len(saga[g]) THEN 1 ELSE @ + 1]
  /\ Goto(g, IF at[g] = Len(saga[g]) THEN "execute" ELSE "append")
  /\ UNCHANGED <<saga, looked, result>>

----------------------------------------------------------------------------
(* appendParallelSlice and Register *)

\* The builder's Get: a name that is registered is not registered again.
AppendGets(g) ==
  /\ pc[g] = "append" /\ at[g] <= Len(saga[g])
  /\ \/ Found(g) /\ Appended(g) /\ UNCHANGED actions
     \/ ~Found(g) /\ Goto(g, "register") /\ UNCHANGED <<actions, saga, at, looked, result>>

\* Register's Load: its error is that of Append.
RegisterLoads(g) ==
  /\ pc[g] = "register"
  /\ \/ Found(g) /\ Ends(g, "alreadyRegistered")
     \/ ~Found(g) /\ Goto(g, "store") /\ UNCHANGED <<actions, saga, at, looked, result>>

\* Register's Store, of the instance that is in the hands of the goroutine.
RegisterStores(g) ==
  /\ pc[g] = "store"
  /\ actions' = [actions EXCEPT ![Name(g)] = g]
  /\ Appended(g)

----------------------------------------------------------------------------
(* executeNode and undoNode *)

LooksUp(g) == looked' = [looked EXCEPT ![g][at[g]] = @ \cup {actions[Name(g)]}]

\* A DoIt succeeds, or fails and is followed by the compensation of those before it.
Execute(g) ==
  /\ pc[g] = "execute" /\ at[g] <= Len(saga[g])
  /\ LooksUp(g)
  /\ \/ at' = [at EXCEPT ![g] = @ + 1] /\ UNCHANGED pc
     \/ at' = [at EXCEPT ![g] = @ - 1] /\ Goto(g, "undo")
  /\ UNCHANGED <<actions, saga, result>>

\* The saga is complete, and may be rolled back later.
Completed(g) ==
  /\ pc[g] = "execute" /\ at[g] > Len(saga[g])
  /\ at' = [at EXCEPT ![g] = @ - 1] /\ Goto(g, "undo")
  /\ UNCHANGED <<actions, saga, looked, result>>

Undo(g) ==
  /\ pc[g] = "undo" /\ at[g] > 0
  /\ LooksUp(g)
  /\ \/ at' = [at EXCEPT ![g] = @ - 1] /\ UNCHANGED <<pc, result>>
     \/ Goto(g, "ended") /\ result' = [result EXCEPT ![g] = "undoFailed"] /\ UNCHANGED at
  /\ UNCHANGED <<actions, saga>>

Undone(g) == pc[g] = "undo" /\ at[g] = 0 /\ Ends(g, "undone")

Next ==
  \E g \in Goroutines :
    \/ AppendGets(g) \/ RegisterLoads(g) \/ RegisterStores(g)
    \/ Execute(g) \/ Completed(g) \/ Undo(g) \/ Undone(g)

Spec == Init /\ [][Next]_vars

----------------------------------------------------------------------------
(* What the registry says of itself *)

\* "Actions are identified by their ActionName": whatever a node finds under its name,
\* for its DoIt and for its UndoIt, is one action.
IdentifiedByName ==
  \A g \in Goroutines :
    \A i \in DOMAIN looked[g] : \A a, b \in looked[g][i] : a = b
=============================================================================
