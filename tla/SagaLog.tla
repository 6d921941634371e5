------------------------------- MODULE SagaLog -------------------------------
(***************************************************************************)
(* saga_log.go: goroutines that record events in one SagaLog and read it.  *)
(* The log is new, or one of them recovers it from a list of events first. *)
(* The log embeds a sync.Mutex, which is not reentrant: Lock waits until   *)
(* the mutex is free, whoever holds it.                                    *)
(***************************************************************************)
EXTENDS Integers, SequencesExt

CONSTANTS
  Goroutines,  \* the callers of the log
  NodeIds,     \* the nodes events are about
  MaxEvents    \* bound: calls of Record by the goroutines, events to recover

VARIABLES
  locked,      \* the state of l.Mutex
  nodeStatus, unwinding, events,  \* the fields of the log
  pc,          \* where each goroutine is
  event,       \* the event each goroutine records
  status,      \* currentStatus in Record, of each goroutine
  calls,       \* calls of Record so far, for the bound
  shared,      \* the goroutines have the log: it is not being recovered
  replay       \* the events that its recovery has still to record

logVars == <<nodeStatus, unwinding, events>>
vars == <<locked, logVars, pc, event, status, calls, shared, replay>>

EventTypes == <<"started", "succeeded", "failed", "undo_started", "undo_finished", "undo_failed">>
Events == [node : NodeIds, type : Range(EventTypes), saga : {"this", "other"}]
NoEvent == [node |-> 0, type |-> "none", saga |-> "this"]

\* sort.Slice by the type of the event, which keeps no order among those of one type.
Sorted(list) ==
  \A i, j \in DOMAIN list : \A s, t \in DOMAIN EventTypes :
    i < j /\ list[i].type = EventTypes[s] /\ list[j].type = EventTypes[t] => s <= t

\* nextStatus, as a set of <<status, event type, next status>>.
Transitions ==
  {<<"NeverStarted", "started", "Started">>,
   <<"Started", "succeeded", "Succeeded">>, <<"Started", "failed", "Failed">>,
   <<"Succeeded", "undo_started", "UndoStarted">>,
   <<"UndoStarted", "undo_finished", "UndoFinished">>, <<"UndoStarted", "undo_failed", "UndoFailed">>}

Init ==
  /\ locked = FALSE
  /\ nodeStatus = [n \in NodeIds |-> "NeverStarted"] /\ unwinding = FALSE /\ events = <<>>
  /\ pc = [g \in Goroutines |-> "idle"]
  /\ event = [g \in Goroutines |-> NoEvent]
  /\ status = [g \in Goroutines |-> "NeverStarted"]
  /\ calls = 0
  /\ shared = TRUE /\ replay = <<>>

At(g, label) == pc[g] = label
Goto(g, label) == pc' = [pc EXCEPT ![g] = label]

\* NewSagaLogRecover, before the log has any other user.
CallRecover(g) ==
  /\ At(g, "idle") /\ calls = 0 /\ shared /\ \A h \in Goroutines : At(h, "idle")
  /\ shared' = FALSE
  /\ replay' \in {list \in BoundedSeq(Events, MaxEvents) : Sorted(list)}
  /\ Goto(g, "recover")
  /\ UNCHANGED <<locked, logVars, event, status, calls>>

RecoverEvent(g) ==
  /\ At(g, "recover") /\ replay # <<>> /\ Head(replay).saga = "this"
  /\ event' = [event EXCEPT ![g] = Head(replay)]
  /\ replay' = Tail(replay)
  /\ Goto(g, "Record")
  /\ UNCHANGED <<locked, logVars, status, calls, shared>>

\* The log is returned, or an error and no log, which the others then never get.
RecoverReturns(g) ==
  /\ At(g, "recover")
  /\ \/ replay = <<>> /\ shared' = TRUE
     \/ replay # <<>> /\ Head(replay).saga = "other" /\ UNCHANGED shared
  /\ Goto(g, "idle")
  /\ UNCHANGED <<locked, logVars, event, status, calls, replay>>

CallRecord(g) ==
  /\ At(g, "idle") /\ shared /\ calls < MaxEvents
  /\ calls' = calls + 1
  /\ \E e \in Events : event' = [event EXCEPT ![g] = e]
  /\ Goto(g, "Record")
  /\ UNCHANGED <<locked, logVars, status, shared, replay>>

RecordLocks(g) ==
  /\ At(g, "Record") /\ ~locked
  /\ locked' = TRUE
  /\ Goto(g, "loadStatusForNode")
  /\ UNCHANGED <<logVars, event, status, calls, shared, replay>>

\* loadStatusForNode, called by Record, locks the mutex again.
LoadStatusLocks(g) ==
  /\ At(g, "loadStatusForNode") /\ ~locked
  /\ locked' = TRUE
  /\ Goto(g, "loadStatus")
  /\ UNCHANGED <<logVars, event, status, calls, shared, replay>>

LoadStatus(g) ==
  /\ At(g, "loadStatus")
  /\ status' = [status EXCEPT ![g] = nodeStatus[event[g].node]]
  /\ locked' = FALSE
  /\ Goto(g, "record")
  /\ UNCHANGED <<logVars, event, calls, shared, replay>>

\* The rest of Record: an event that is legal now is added, any other an error.
Record(g) ==
  /\ At(g, "record")
  /\ LET legal == {t \in Transitions : t[1] = status[g] /\ t[2] = event[g].type}
     IN  \/ /\ legal = {} /\ UNCHANGED logVars
            /\ Goto(g, "idle")
         \/ \E t \in legal :
              /\ nodeStatus' = [nodeStatus EXCEPT ![event[g].node] = t[3]]
              /\ unwinding' = (unwinding \/ t[3] \in {"Failed", "UndoStarted", "UndoFinished"})
              /\ events' = Append(events, event[g])
              /\ Goto(g, IF shared THEN "idle" ELSE "recover")
  /\ locked' = FALSE
  /\ event' = [event EXCEPT ![g] = NoEvent]
  /\ UNCHANGED <<status, calls, shared, replay>>

\* Unwinding, Events and String hold the mutex while they read.
CallRead(g) ==
  /\ At(g, "idle") /\ shared
  /\ Goto(g, "read")
  /\ UNCHANGED <<locked, logVars, event, status, calls, shared, replay>>

ReadLocks(g) ==
  /\ At(g, "read") /\ ~locked
  /\ locked' = TRUE
  /\ Goto(g, "reading")
  /\ UNCHANGED <<logVars, event, status, calls, shared, replay>>

ReadReturns(g) ==
  /\ At(g, "reading")
  /\ locked' = FALSE
  /\ Goto(g, "idle")
  /\ UNCHANGED <<logVars, event, status, calls, shared, replay>>

Recording(g) == RecordLocks(g) \/ LoadStatusLocks(g) \/ LoadStatus(g) \/ Record(g)
Reading(g) == ReadLocks(g) \/ ReadReturns(g)

Recovering(g) == RecoverEvent(g) \/ RecoverReturns(g)

Next ==
  \E g \in Goroutines :
    \/ CallRecover(g) \/ CallRecord(g) \/ CallRead(g)
    \/ Recovering(g) \/ Recording(g) \/ Reading(g)

\* sync.Mutex lets no goroutine wait for ever while others come and go.
FairSpec ==
  /\ Init /\ [][Next]_vars
  /\ \A g \in Goroutines : SF_vars(Recording(g)) /\ SF_vars(Recovering(g)) /\ SF_vars(Reading(g))

\* The comments of the log, "thread-safe", and of Record: "Record adds an event to the
\* SagaLog".  It returns, then, to the goroutine that called it, as does the recovery
\* that calls it for every event.
RecordReturns ==
  \A g \in Goroutines : pc[g] \notin {"idle", "read", "reading"} ~> pc[g] = "idle"
=============================================================================
