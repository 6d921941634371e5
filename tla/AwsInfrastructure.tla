------------------------- MODULE AwsInfrastructure -------------------------
(***************************************************************************)
(* examples/aws-infrastructure: processes that run its commands deploy and *)
(* destroy on one saga id, at once or one after the other, over one file   *)
(* and one cloud.  The saga is a chain of actions: the four that main.go   *)
(* builds it of, or, of a program that is not there yet, these and the     *)
(* three for a server that ec2.go and security_group.go provide.  Each     *)
(* action is several calls to the cloud, any of which can fail or lose its *)
(* reply, or be the last one before the process is killed.                 *)
(***************************************************************************)
EXTENDS Integers, Sequences, FiniteSets

CONSTANTS
  Processes,
  Sagas,        \* sagas: the actions of each, by their nodes' names, as they are executed
  AtOnce,       \* those of which several commands may run at once
  MaxDeploys,   \* bound: deploys that start
  MaxMishaps    \* bound: failing calls, saves and configurations, and kills

ASSUME AwsBoundsAssumption == MaxDeploys \in Nat /\ MaxMishaps \in Nat

VARIABLES
  saga,       \* the saga of this program
  cloud,      \* the resources in place: <<kind, the deploy that made it>>
  file,       \* the state file of the saga
  proc,       \* the processes
  deploys,    \* deploys that started
  mishaps,    \* those so far
  disturbed,  \* two commands have run at once, or a file was torn
  unread      \* history: the actions on file when a deploy began that could not read it

vars == <<saga, cloud, file, proc, deploys, mishaps, disturbed, unread>>

----------------------------------------------------------------------------
(* The actions, as the calls they make *)

\* The cloud refuses a call unless what it needs is in place, and a removal while
\* what blocks it is.
Call(needs, makes) ==
  [needs |-> needs, blockers |-> {}, makes |-> makes, removes |-> {}, warnOnly |-> FALSE]
Removal(removes, needs, blockers) ==
  [needs |-> needs, blockers |-> blockers, makes |-> {}, removes |-> removes, warnOnly |-> FALSE]
Tolerated(call) == [call EXCEPT !.warnOnly = TRUE]

CreateVPC == <<Call({}, {"vpc"}), Call({"vpc"}, {})>>
CreateInternetGateway == <<Call({}, {"igw"}), Call({"igw", "vpc"}, {"attachment"})>>
CreateSubnet == <<Call({}, {}), Call({"vpc"}, {"subnet"}), Call({"subnet"}, {})>>
CreateRouteTable ==
  <<Call({"vpc"}, {"table"}), Call({"table", "attachment"}, {}), Call({"table", "subnet"}, {"association"})>>

AddIngressRules == <<Call({"group"}, {})>>
CreateSecurityGroup == <<Call({"vpc"}, {"group"})>> \o AddIngressRules
GetLatestAmazonLinuxAMI == <<Call({}, {})>>
LaunchInstance == <<Call({"subnet"}, {"instance"})>>
WaitForInstanceRunning == <<Call({"instance"}, {}), Call({"instance"}, {})>>
CreateInstance == GetLatestAmazonLinuxAMI \o LaunchInstance \o WaitForInstanceRunning
AttachSecurityGroup == <<Call({"instance", "group"}, {"membership"})>>

DeleteVPC == <<Removal({"vpc"}, {"vpc"}, {"attachment", "subnet", "table", "group"})>>
DeleteInternetGateway ==
  <<Tolerated(Removal({"attachment"}, {"attachment"}, {})), Removal({"igw"}, {"igw"}, {"attachment"})>>
DeleteSubnet == <<Removal({"subnet", "association"}, {"subnet"}, {"instance"})>>
DeleteRouteTable ==
  <<Tolerated(Removal({"association"}, {"association"}, {})),
    Removal({"table"}, {"table"}, {"association"})>>
DeleteSecurityGroup == <<Removal({"group"}, {"group"}, {"membership"})>>

\* What is gone with an instance, some time after TerminateInstances has returned.
OfInstance == {"instance", "membership", "terminating"}
\* A termination can be asked for again; a wait for it that fails is a warning.
TerminateInstance == <<Call({}, {"terminating"}), Tolerated(Removal(OfInstance, {}, {}))>>
\* "Handled by instance termination": the group is not taken from the instance.
DetachSecurityGroup == <<>>

\* Mutant of DoIts: the route is made before the gateway is attached.
DoItsUnattached ==
  [create_vpc |-> CreateVPC, create_internet_gateway |-> <<CreateInternetGateway[1]>>,
   create_subnet |-> CreateSubnet, create_route_table |-> CreateRouteTable,
   security_group |-> CreateSecurityGroup, ec2_instance |-> CreateInstance,
   attach_security_group |-> AttachSecurityGroup]

DoIts ==
  [create_vpc |-> CreateVPC, create_internet_gateway |-> CreateInternetGateway,
   create_subnet |-> CreateSubnet, create_route_table |-> CreateRouteTable,
   security_group |-> CreateSecurityGroup, ec2_instance |-> CreateInstance,
   attach_security_group |-> AttachSecurityGroup]

\* Mutant of UndoIts: the gateway's deletion is a warning too.
UndoItsTolerant ==
  [create_vpc |-> DeleteVPC,
   create_internet_gateway |-> [i \in 1 .. 2 |-> Tolerated(DeleteInternetGateway[i])],
   create_subnet |-> DeleteSubnet, create_route_table |-> DeleteRouteTable,
   security_group |-> DeleteSecurityGroup, ec2_instance |-> TerminateInstance,
   attach_security_group |-> DetachSecurityGroup]

UndoIts ==
  [create_vpc |-> DeleteVPC, create_internet_gateway |-> DeleteInternetGateway,
   create_subnet |-> DeleteSubnet, create_route_table |-> DeleteRouteTable,
   security_group |-> DeleteSecurityGroup, ec2_instance |-> TerminateInstance,
   attach_security_group |-> DetachSecurityGroup]

\* The saga that main.go's buildDAG makes.
Network == <<"create_vpc", "create_internet_gateway", "create_subnet", "create_route_table">>

\* No program of the repository makes a saga of the other actions.  The group and the
\* instance need only what Network makes, so they can come in either order; the
\* attachment needs both.
GroupFirst == Network \o <<"security_group", "ec2_instance", "attach_security_group">>
InstanceFirst == Network \o <<"ec2_instance", "security_group", "attach_security_group">>

ASSUME SagasAssumption ==
  Sagas \subseteq {Network, GroupFirst, InstanceFirst} /\ AtOnce \subseteq Sagas

\* The nodes of the actions follow the start node 0 and precede the end node.
ActionNodes == DOMAIN saga
LastNode == Len(saga) + 1

\* The resources that the action of a node makes.
MadeBy(node) == UNION {DoIts[saga[node]][i].makes : i \in DOMAIN DoIts[saga[node]]}
Kinds == (UNION {MadeBy(node) : node \in ActionNodes}) \cup {"terminating"}

----------------------------------------------------------------------------
(* Processes and the file *)

NoFile == [status |-> "none", id |-> 0, done |-> 0]
TornFile == [status |-> "torn", id |-> 0, done |-> 0]
Readable(f) == f \notin {NoFile, TornFile}

NotRunning ==
  [pc |-> "ended", command |-> "none", id |-> 0, at |-> 0, done |-> 0, call |-> 1,
   status |-> "none", outcome |-> "none"]

Init ==
  /\ saga \in Sagas
  /\ cloud = {} /\ file = NoFile
  /\ proc = [p \in Processes |-> NotRunning]
  /\ deploys = 0 /\ mishaps = 0 /\ disturbed = FALSE /\ unread = {}

At(p, pc) == proc[p].pc = pc
Become(p, s) == proc' = [proc EXCEPT ![p] = s]
Goto(p, pc) == Become(p, [proc[p] EXCEPT !.pc = pc])
End(p, outcome) == Become(p, [proc[p] EXCEPT !.pc = "ended", !.outcome = outcome])
Persist(p, s, status) == Become(p, [s EXCEPT !.pc = "saving", !.status = status])

\* That a deploy could not be read is no mishap, but the bound has one mishap less then.
WithinBound == mishaps < IF unread = {} THEN MaxMishaps ELSE MaxMishaps - 1
Mishap == WithinBound /\ mishaps' = mishaps + 1

\* A command starts to run, perhaps beside another.
Starts(p, s) ==
  /\ saga \in AtOnce \/ \A q \in Processes : At(q, "ended")
  /\ Become(p, s)
  /\ disturbed' = (disturbed \/ \E q \in Processes \ {p} : ~At(q, "ended"))

\* A command ends before it has an executor.
Refuses(p, outcome) ==
  /\ Become(p, [NotRunning EXCEPT !.outcome = outcome])
  /\ UNCHANGED disturbed

\* The completed actions that a file holds, each with the id of its deploy.
OnRecord(f) == (1 .. f.done) \X {f.id}

StartsDeploy(p) ==
  /\ deploys' = deploys + 1 /\ UNCHANGED mishaps
  /\ Starts(p, [NotRunning EXCEPT !.pc = "saving", !.command = "deploy",
                                  !.id = deploys', !.status = "running"])

\* runDeploy up to Execute.  Whatever error Load returns is taken for the id being
\* free: that there is no file, that it is torn, and also that a file which is whole
\* could not be read this time.
Deploy(p) ==
  /\ At(p, "ended") /\ deploys < MaxDeploys
  /\ \/ Readable(file) /\ Refuses(p, "exists") /\ UNCHANGED <<deploys, mishaps, unread>>
     \/ Mishap /\ Refuses(p, "noConfig") /\ UNCHANGED <<deploys, unread>>
     \/ ~Readable(file) /\ StartsDeploy(p) /\ UNCHANGED unread
     \/ Readable(file) /\ WithinBound /\ StartsDeploy(p) /\ unread' = unread \cup OnRecord(file)
  /\ UNCHANGED <<saga, cloud, file>>

\* runDestroy up to Rollback, and the check for completed actions in Rollback.  Load
\* can fail on a file that is whole, too.
Destroy(p) ==
  /\ At(p, "ended")
  /\ \/ Refuses(p, "notLoaded") /\ UNCHANGED mishaps
     \/ file.status = "rolled_back" /\ Refuses(p, "alreadyRolledBack") /\ UNCHANGED mishaps
     \/ /\ Readable(file) /\ file.status # "rolled_back"
        /\ \/ Mishap /\ Refuses(p, "noConfig")
           \/ file.done = 0 /\ Refuses(p, "destroyFailed") /\ UNCHANGED mishaps
           \/ /\ file.done > 0 /\ UNCHANGED mishaps
              /\ Starts(p, [NotRunning EXCEPT !.pc = "saving", !.command = "destroy",
                             !.id = file.id, !.done = file.done, !.status = "rolling_back"])
  /\ UNCHANGED <<saga, cloud, file, deploys, unread>>

----------------------------------------------------------------------------
(* Saves: persistState, and what comes after it *)

Saving(p, command, status) ==
  /\ At(p, "saving") \/ At(p, "writing")
  /\ proc[p].command = command /\ proc[p].status = status

\* os.WriteFile opens and truncates the file, and then writes it: in between, other
\* processes, whose mutex is another one, find it empty.
Truncate(p) ==
  /\ At(p, "saving")
  /\ file' = TornFile
  /\ Goto(p, "writing")
  /\ UNCHANGED <<saga, cloud, deploys, mishaps, disturbed, unread>>

\* What another process has written since then may be longer, and its end remain; a
\* file that was removed since then stays removed.
SaveSucceeds(p) ==
  /\ At(p, "writing")
  /\ \/ file # NoFile /\ file' = [status |-> proc[p].status, id |-> proc[p].id, done |-> proc[p].done]
     \/ Readable(file) /\ file' = TornFile
     \/ file = NoFile /\ UNCHANGED file
  /\ UNCHANGED <<saga, cloud, deploys, mishaps, disturbed, unread>>

SaveFails(p) ==
  /\ Mishap
  /\ \/ At(p, "saving") /\ UNCHANGED <<file, disturbed>>
     \/ /\ At(p, "writing") /\ disturbed' = TRUE
        /\ UNCHANGED file \/ (Readable(file) /\ file' = TornFile)
  /\ UNCHANGED <<saga, cloud, deploys, unread>>

Save(p) == SaveSucceeds(p) \/ SaveFails(p)

\* The first save of Execute is the only one whose failure ends the command.
ExecuteBegins(p) ==
  /\ Saving(p, "deploy", "running") /\ proc[p].at = 0
  /\ \/ SaveSucceeds(p) /\ Become(p, [proc[p] EXCEPT !.pc = "doing"])
     \/ SaveFails(p) /\ End(p, "deployFailed")

\* Mutant of NodeSaved: what completed is saved at the end only.
NodeUnsaved(p) ==
  /\ At(p, "writing") /\ Saving(p, "deploy", "running") /\ proc[p].at > 0
  /\ \/ proc[p].at <= LastNode /\ Goto(p, "doing")
     \/ proc[p].at > LastNode /\ Persist(p, proc[p], "completed")
  /\ file' = [status |-> "running", id |-> proc[p].id, done |-> 0]
  /\ UNCHANGED <<saga, cloud, deploys, mishaps, disturbed, unread>>

NodeSaved(p) ==
  /\ Saving(p, "deploy", "running") /\ proc[p].at > 0
  /\ Save(p)
  /\ \/ proc[p].at <= LastNode /\ Goto(p, "doing")
     \/ proc[p].at > LastNode /\ Persist(p, proc[p], "completed")

CompletionSaved(p) == Saving(p, "deploy", "completed") /\ Save(p) /\ End(p, "deployed")

\* compensate begins, in Execute or in Rollback.
CompensationBegins(p) ==
  /\ Saving(p, "deploy", "failed") \/ Saving(p, "destroy", "rolling_back")
  /\ Save(p)
  /\ Become(p, [proc[p] EXCEPT !.pc = "undoing", !.at = proc[p].done, !.call = 1])

RollbackSaved(p) ==
  /\ \/ Saving(p, "destroy", "rolled_back") /\ Goto(p, "deleting")
     \/ Saving(p, "destroy", "failed") /\ End(p, "destroyFailed")
  /\ Save(p)

\* A Delete that fails is a warning.
Delete(p) ==
  /\ At(p, "deleting")
  /\ \/ file' = NoFile /\ UNCHANGED mishaps
     \/ Mishap /\ UNCHANGED file
  /\ End(p, "destroyed")
  /\ UNCHANGED <<saga, cloud, deploys, disturbed, unread>>

----------------------------------------------------------------------------
(* The calls of the actions *)

Of(p, kinds) == {<<kind, proc[p].id>> : kind \in kinds}
CallsOf(p) == (IF At(p, "doing") THEN DoIts ELSE UndoIts)[saga[proc[p].at]]
HasCalls(p) == proc[p].at \in ActionNodes /\ CallsOf(p) # <<>>
CurrentCall(p) == CallsOf(p)[proc[p].call]
Refused(p) ==
  \/ ~(Of(p, CurrentCall(p).needs) \subseteq cloud)
  \/ Of(p, CurrentCall(p).blockers) \cap cloud # {}
After(p) == (cloud \cup Of(p, CurrentCall(p).makes)) \ Of(p, CurrentCall(p).removes)

Answered(p) == ~Refused(p) /\ cloud' = After(p) /\ UNCHANGED mishaps
\* The cloud refuses; or the call fails, or its reply is lost.
Failing(p) ==
  \/ Refused(p) /\ UNCHANGED <<cloud, mishaps>>
  \/ ~Refused(p) /\ Mishap /\ cloud' \in {cloud, After(p)}

LastCall(p) == proc[p].call = Len(CallsOf(p))
NextCall(p) == ~LastCall(p) /\ Become(p, [proc[p] EXCEPT !.call = @ + 1])

SkipNode(p) ==
  /\ At(p, "doing") /\ proc[p].at \notin ActionNodes
  /\ Persist(p, [proc[p] EXCEPT !.at = @ + 1], "running")
  /\ UNCHANGED <<saga, cloud, file, deploys, mishaps, disturbed, unread>>

DoIt(p) ==
  /\ At(p, "doing") /\ proc[p].at \in ActionNodes
  /\ \/ Answered(p) /\ NextCall(p)
     \/ /\ Answered(p) /\ LastCall(p)
        /\ Persist(p, [proc[p] EXCEPT !.at = @ + 1, !.done = @ + 1, !.call = 1], "running")
     \/ Failing(p) /\ Persist(p, proc[p], "failed")
  /\ UNCHANGED <<saga, file, deploys, disturbed, unread>>

\* compensate returns; the state of a failed Execute is not saved again.
CompensationEnds(p, status) ==
  \/ proc[p].command = "deploy" /\ End(p, "deployFailed")
  \/ proc[p].command = "destroy" /\ Persist(p, proc[p], status)

\* Mutant of UndoIt: an action that cannot be undone is a warning.
UndoItWarns(p) ==
  /\ At(p, "undoing") /\ HasCalls(p)
  /\ Answered(p) \/ Failing(p)
  /\ \/ NextCall(p)
     \/ LastCall(p) /\ Become(p, [proc[p] EXCEPT !.at = @ - 1, !.call = 1])
  /\ UNCHANGED <<saga, file, deploys, disturbed, unread>>

\* Mutant of UndoIt: the next action begins with the call that the last one ended with.
UndoItKeepsCall(p) ==
  /\ At(p, "undoing") /\ HasCalls(p)
  /\ \/ /\ Answered(p) \/ (Failing(p) /\ CurrentCall(p).warnOnly)
        /\ \/ NextCall(p)
           \/ LastCall(p) /\ Become(p, [proc[p] EXCEPT !.at = @ - 1])
     \/ Failing(p) /\ ~CurrentCall(p).warnOnly /\ CompensationEnds(p, "failed")
  /\ UNCHANGED <<saga, file, deploys, disturbed, unread>>

UndoIt(p) ==
  /\ At(p, "undoing") /\ HasCalls(p)
  /\ \/ /\ Answered(p) \/ (Failing(p) /\ CurrentCall(p).warnOnly)
        /\ \/ NextCall(p)
           \/ LastCall(p) /\ Become(p, [proc[p] EXCEPT !.at = @ - 1, !.call = 1])
     \/ Failing(p) /\ ~CurrentCall(p).warnOnly /\ CompensationEnds(p, "failed")
  /\ UNCHANGED <<saga, file, deploys, disturbed, unread>>

\* The UndoIt of an action that makes no call.
UndoesNothing(p) ==
  /\ At(p, "undoing") /\ proc[p].at \in ActionNodes /\ ~HasCalls(p)
  /\ Become(p, [proc[p] EXCEPT !.at = @ - 1])
  /\ UNCHANGED <<saga, cloud, file, deploys, mishaps, disturbed, unread>>

AllUndone(p) ==
  /\ At(p, "undoing") /\ proc[p].at = 0
  /\ CompensationEnds(p, "rolled_back")
  /\ UNCHANGED <<saga, cloud, file, deploys, mishaps, disturbed, unread>>

\* The process is killed: the call it makes, or its Delete, has its effect or has not;
\* a file it writes remains empty.
Kill(p) ==
  /\ ~At(p, "ended") /\ Mishap
  /\ \/ UNCHANGED <<cloud, file>>
     \/ /\ At(p, "doing") \/ At(p, "undoing")
        /\ HasCalls(p) /\ ~Refused(p)
        /\ cloud' = After(p) /\ UNCHANGED file
     \/ At(p, "deleting") /\ file' = NoFile /\ UNCHANGED cloud
  /\ disturbed' = (disturbed \/ At(p, "writing"))
  /\ End(p, "killed")
  /\ UNCHANGED <<saga, deploys, unread>>

\* An instance whose termination was asked for is gone, and its group free.
InstanceTerminates(id) ==
  /\ <<"terminating", id>> \in cloud
  /\ cloud' = cloud \ (OfInstance \X {id})
  /\ UNCHANGED <<saga, file, proc, deploys, mishaps, disturbed, unread>>

Running(p) ==
  \/ Truncate(p) \/ ExecuteBegins(p) \/ NodeSaved(p) \/ CompletionSaved(p)
  \/ CompensationBegins(p) \/ RollbackSaved(p) \/ Delete(p)
  \/ SkipNode(p) \/ DoIt(p) \/ UndoIt(p) \/ UndoesNothing(p) \/ AllUndone(p)

Next ==
  \/ \E p \in Processes : Deploy(p) \/ Destroy(p) \/ Running(p) \/ Kill(p)
  \/ \E id \in 1 .. deploys : InstanceTerminates(id)

Spec == Init /\ [][Next]_vars

\* A destroy that loads the file and goes on with it.
DestroyStarts(p) == Destroy(p) /\ proc'[p].pc # "ended"

\* A command goes on until it ends, and the user calls destroy until it has loaded the
\* file, again and again; that calls fail only now and then is the bound on mishaps.
FairSpec ==
  /\ Spec
  /\ \A p \in Processes : WF_vars(Running(p)) /\ WF_vars(DestroyStarts(p))

----------------------------------------------------------------------------
(* Properties *)

PCs == {"ended", "saving", "writing", "doing", "undoing", "deleting"}
Statuses == {"running", "completed", "failed", "rolling_back", "rolled_back"}
Outcomes == {"none", "exists", "noConfig", "notLoaded", "alreadyRolledBack", "deployed",
             "deployFailed", "destroyed", "destroyFailed", "killed"}

\* The types, and that the calls a process is at exist.
TypeOK ==
  /\ saga \in Sagas
  /\ cloud \subseteq Kinds \X (1 .. MaxDeploys)
  /\ file \in [status : Statuses, id : 1 .. MaxDeploys, done : 0 .. Len(saga)] \cup {NoFile, TornFile}
  /\ proc \in [Processes ->
       [pc : PCs, command : {"none", "deploy", "destroy"}, id : 0 .. MaxDeploys,
        at : 0 .. LastNode + 1, done : 0 .. Len(saga), call : 1 .. 4,
        status : Statuses \cup {"none"}, outcome : Outcomes]]
  /\ deploys \in 0 .. MaxDeploys /\ mishaps \in 0 .. MaxMishaps /\ disturbed \in BOOLEAN
  /\ unread \subseteq ActionNodes \X (1 .. MaxDeploys)
  /\ \A p \in Processes :
       (At(p, "doing") \/ At(p, "undoing")) /\ HasCalls(p) =>
         proc[p].call \in DOMAIN CallsOf(p)

\* What the first n actions of a deploy made.
Results(n, id) == (UNION {MadeBy(node) : node \in 1 .. n}) \X {id}

\* A destroy that reports success, and a failed deploy whose compensation came to its
\* end, have removed all that the completed actions made, the attachment and the
\* association too whose removal may fail, and with other commands running beside.
UndoneMeansGone ==
  \A p \in Processes :
    proc[p].outcome \in {"destroyed", "deployFailed"} /\ proc[p].at = 0 =>
      Results(proc[p].done, proc[p].id) \cap cloud = {}

\* The actions whose resources are in place but not on record, nor in the hands of
\* the deploy that still runs, and that no later deploy has failed to read.
LeftoverActions ==
  {leftover \in ActionNodes \X (1 .. deploys) :
     LET node == leftover[1]
         id == leftover[2]
     IN  /\ (MadeBy(node) \X {id}) \cap cloud # {}
         /\ ~(Readable(file) /\ file.id = id /\ node <= file.done)
         /\ \A p \in Processes : ~(~At(p, "ended") /\ proc[p].id = id)
         /\ leftover \notin unread}

\* Each failing call or save and each kill leaves the resources of one action at
\* most without a record, however many calls the action makes.  A deploy whose Load
\* fails on a whole file is no mishap here: it goes on, and its first save costs the
\* record of all that the file held, which unread names, but of nothing else.
LeftoversPerMishap ==
  ~disturbed => Cardinality(LeftoverActions) <= mishaps

\* Where the instance is undone after the group it is a member of, nothing takes the
\* membership away before: the UndoIt of the attachment leaves that to the instance's.
LeftToInstance == IF saga = InstanceFirst THEN {"membership"} ELSE {}

\* A removal is never called while something that was made after it, by an action the
\* process knows of, is still in place and blocks it: what the cloud refuses, it
\* refuses for an action that is not on record, for the gateway's own attachment and
\* the table's own association, for an instance that has not ended when the wait for
\* that failed, or for a membership that is left to an instance made before the group.
NothingLaterInPlace ==
  \A p \in Processes :
    At(p, "undoing") /\ HasCalls(p) /\ <<"terminating", proc[p].id>> \notin cloud =>
      \A node \in proc[p].at + 1 .. proc[p].done :
        Of(p, (MadeBy(node) \cap CurrentCall(p).blockers) \ LeftToInstance) \cap cloud = {}

\* Without another command beside it and without a mishap, every call of an action
\* finds what it needs, which earlier actions made, and no removal finds anything in
\* its way, but that of the group a membership left to an instance made before it.
NeverRefusedInPeace ==
  mishaps = 0 /\ ~disturbed =>
    \A p \in Processes :
      (At(p, "doing") \/ At(p, "undoing")) /\ HasCalls(p) =>
        /\ Of(p, CurrentCall(p).needs) \subseteq cloud
        /\ Of(p, CurrentCall(p).blockers \ LeftToInstance) \cap cloud = {}

----------------------------------------------------------------------------
(* What the program says of itself *)

\* runDeploy's refusal: "Use a different ID or destroy the existing saga first".  It is
\* stated here of a deploy that failed with completed actions, since the executor rolls
\* back no saga without, and with nothing left in the cloud that could stand in the way.
FailedSagaCanBeDestroyed ==
  \A p \in Processes :
    /\ proc[p].outcome = "exists" /\ file.status = "failed" /\ file.done > 0
    /\ cloud = {}
    ~> file = NoFile
=============================================================================
