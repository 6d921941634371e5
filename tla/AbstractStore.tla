---------------------------- MODULE AbstractStore ----------------------------
(***************************************************************************)
(* What the Store interface promises to the goroutines that share a store: *)
(* every call takes effect at one moment between its beginning and its     *)
(* return, and answers by what is on record at that moment.  A save that   *)
(* reports an error has changed nothing, or made the record unreadable; a  *)
(* crash does the same to the saves in progress, and empties a store that  *)
(* is not durable.                                                         *)
(***************************************************************************)
EXTENDS Integers

CONSTANTS Goroutines, Ids

VARIABLES
  durable,  \* the store survives a crash
  value,    \* the number of the save that is on record under each id
  phase,    \* of each goroutine's call: "idle", "called", "answered"
  request,  \* its arguments
  answer    \* what it answers

vars == <<durable, value, phase, request, answer>>

Absent == 0
Unreadable == -1
Readable(v) == v > 0

Requests == [op : {"Save", "Load", "Delete"}, id : Ids, number : Nat]
NoRequest == [op |-> "Load", id |-> CHOOSE id \in Ids : TRUE, number |-> 0]
Ok(number) == [result |-> "ok", number |-> number]
Error == [result |-> "error", number |-> 0]

Init ==
  /\ durable \in BOOLEAN
  /\ value = [id \in Ids |-> Absent]
  /\ phase = [g \in Goroutines |-> "idle"]
  /\ request = [g \in Goroutines |-> NoRequest]
  /\ answer = [g \in Goroutines |-> Error]

Call(g) ==
  /\ phase[g] = "idle"
  /\ phase' = [phase EXCEPT ![g] = "called"]
  /\ request' \in [Goroutines -> Requests]
  /\ \A h \in Goroutines \ {g} : request'[h] = request[h]
  /\ UNCHANGED <<durable, value, answer>>

Puts(g, v) == value' = [value EXCEPT ![request[g].id] = v]

Save(g) ==
  /\ request[g].op = "Save"
  /\ \/ Puts(g, request[g].number) /\ answer' = [answer EXCEPT ![g] = Ok(request[g].number)]
     \/ UNCHANGED value /\ answer' = [answer EXCEPT ![g] = Error]
     \/ Puts(g, Unreadable) /\ answer' = [answer EXCEPT ![g] = Error]

Load(g) ==
  /\ request[g].op = "Load"
  /\ UNCHANGED value
  /\ \/ Readable(value[request[g].id]) /\ answer' = [answer EXCEPT ![g] = Ok(value[request[g].id])]
     \/ answer' = [answer EXCEPT ![g] = Error]

Delete(g) ==
  /\ request[g].op = "Delete"
  /\ \/ Puts(g, Absent) /\ answer' = [answer EXCEPT ![g] = Ok(0)]
     \/ UNCHANGED value /\ answer' = [answer EXCEPT ![g] = Error]

\* The moment at which a call takes effect.
TakeEffect(g) ==
  /\ phase[g] = "called"
  /\ phase' = [phase EXCEPT ![g] = "answered"]
  /\ Save(g) \/ Load(g) \/ Delete(g)
  /\ UNCHANGED <<durable, request>>

Return(g) ==
  /\ phase[g] = "answered"
  /\ phase' = [phase EXCEPT ![g] = "idle"]
  /\ request' = [request EXCEPT ![g] = NoRequest] /\ answer' = [answer EXCEPT ![g] = Error]
  /\ UNCHANGED <<durable, value>>

SaveInProgress(id) ==
  \E g \in Goroutines : phase[g] = "called" /\ request[g].op = "Save" /\ request[g].id = id

Crash ==
  /\ phase' = [g \in Goroutines |-> "idle"]
  /\ request' = [g \in Goroutines |-> NoRequest] /\ answer' = [g \in Goroutines |-> Error]
  /\ \/ ~durable /\ value' = [id \in Ids |-> Absent]
     \/ /\ durable
        /\ \E lost \in SUBSET {id \in Ids : SaveInProgress(id)} :
             value' = [id \in Ids |-> IF id \in lost THEN Unreadable ELSE value[id]]
  /\ UNCHANGED durable

Next ==
  \/ \E g \in Goroutines : Call(g) \/ TakeEffect(g) \/ Return(g)
  \/ Crash

Spec == Init /\ [][Next]_vars
=============================================================================
