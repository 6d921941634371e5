----------------------- MODULE AwsInfrastructureProofs -----------------------
(***************************************************************************)
(* Theorems about the aws-infrastructure example, for any number of        *)
(* processes, deploys and mishaps, over its own saga and one with a server *)
(* in either order, each by one command at a time or by any number at      *)
(* once.                                                                   *)
(***************************************************************************)
EXTENDS AwsInfrastructure, TLAPS, FiniteSetTheorems

USE SagasAssumption, AwsBoundsAssumption

\* The longest saga that this one may be the beginning of, and where its order puts the
\* group and the instance.
Server == IF saga = InstanceFirst THEN InstanceFirst ELSE GroupFirst
GroupNode == IF saga = InstanceFirst THEN 6 ELSE 5
InstanceNode == IF saga = InstanceFirst THEN 5 ELSE 6

\* The node whose action makes a resource of each kind, and the node from whose UndoIt
\* on such a resource is gone: later for the instance, whose end is awaited in vain
\* perhaps, and for its membership in a group.
MadeAt ==
  [vpc |-> 1, igw |-> 2, attachment |-> 2, subnet |-> 3, table |-> 4, association |-> 4,
   group |-> GroupNode, instance |-> InstanceNode, membership |-> 7]
GoneAt ==
  [vpc |-> 1, igw |-> 2, attachment |-> 2, subnet |-> 3, table |-> 4, association |-> 4,
   group |-> GroupNode, instance |-> 3, membership |-> GroupNode]
Things == DOMAIN MadeAt

----------------------------------------------------------------------------
(* The sagas and the calls of their actions *)

\* The server's saga, node by node.
LEMMA ServerShape ==
  /\ GroupNode \in {5, 6} /\ InstanceNode = 11 - GroupNode
  /\ Len(Server) = 7 /\ DOMAIN Server = 1 .. 7
  /\ Server[1] = "create_vpc" /\ Server[2] = "create_internet_gateway"
  /\ Server[3] = "create_subnet" /\ Server[4] = "create_route_table"
  /\ Server[GroupNode] = "security_group" /\ Server[InstanceNode] = "ec2_instance"
  /\ Server[7] = "attach_security_group"
<1>1. CASE saga = InstanceFirst
  BY <1>1 DEF Server, InstanceFirst, Network, GroupNode, InstanceNode
<1>2. CASE saga # InstanceFirst
  BY <1>2 DEF Server, GroupFirst, Network, GroupNode, InstanceNode
<1>3. QED
  BY <1>1, <1>2

\* The network saga is the beginning of the other.
LEMMA SagaShape ==
  ASSUME saga \in Sagas
  PROVE  /\ ActionNodes = 1 .. Len(saga) /\ Len(saga) \in {4, 7}
         /\ \A n \in ActionNodes : n \in 1 .. 7 /\ saga[n] = Server[n]
<1>1. CASE saga = Network
  BY <1>1, ServerShape DEF ActionNodes, Network
<1>2. CASE saga = Server
  BY <1>2, ServerShape DEF ActionNodes
<1>3. QED
  BY <1>1, <1>2 DEF Server

\* What is made and gone, thing by thing.
LEMMA WhatIsMade ==
  /\ Things = {"vpc", "igw", "attachment", "subnet", "table", "association", "group",
               "instance", "membership"}
  /\ MadeAt["vpc"] = 1 /\ MadeAt["igw"] = 2 /\ MadeAt["attachment"] = 2 /\ MadeAt["subnet"] = 3
  /\ MadeAt["table"] = 4 /\ MadeAt["association"] = 4 /\ MadeAt["group"] = GroupNode
  /\ MadeAt["instance"] = InstanceNode /\ MadeAt["membership"] = 7
  /\ GoneAt["vpc"] = 1 /\ GoneAt["igw"] = 2 /\ GoneAt["attachment"] = 2 /\ GoneAt["subnet"] = 3
  /\ GoneAt["table"] = 4 /\ GoneAt["association"] = 4 /\ GoneAt["group"] = GroupNode
  /\ GoneAt["instance"] = 3 /\ GoneAt["membership"] = GroupNode
  /\ GroupNode \in {5, 6} /\ InstanceNode = 11 - GroupNode
BY ServerShape DEF Things, MadeAt, GoneAt

\* As long as the saga stays, so do the nodes.
LEMMA NodesStay ==
  ASSUME UNCHANGED saga
  PROVE  UNCHANGED <<GroupNode, InstanceNode, MadeAt, GoneAt, Things>>
<1>1. UNCHANGED <<GroupNode, InstanceNode>>
  BY DEF GroupNode, InstanceNode
<1>2. QED
  BY <1>1 DEF MadeAt, GoneAt, Things

\* The actions of the nodes.
LEMMA ActionsOf ==
  /\ DoIts[Server[1]] = CreateVPC /\ DoIts[Server[2]] = CreateInternetGateway
  /\ DoIts[Server[3]] = CreateSubnet /\ DoIts[Server[4]] = CreateRouteTable
  /\ DoIts[Server[GroupNode]] = CreateSecurityGroup /\ DoIts[Server[InstanceNode]] = CreateInstance
  /\ DoIts[Server[7]] = AttachSecurityGroup
  /\ UndoIts[Server[1]] = DeleteVPC /\ UndoIts[Server[2]] = DeleteInternetGateway
  /\ UndoIts[Server[3]] = DeleteSubnet /\ UndoIts[Server[4]] = DeleteRouteTable
  /\ UndoIts[Server[GroupNode]] = DeleteSecurityGroup
  /\ UndoIts[Server[InstanceNode]] = TerminateInstance
  /\ UndoIts[Server[7]] = DetachSecurityGroup
BY ServerShape DEF DoIts, UndoIts

\* These calls make what is made at node n, and remove nothing.
MakeOnly(calls, n) ==
  /\ Len(calls) \in 1 .. 4 /\ DOMAIN calls = 1 .. Len(calls)
  /\ \A i \in DOMAIN calls : calls[i].removes = {}
  /\ \A i \in DOMAIN calls : \A x \in calls[i].makes : x \in Things /\ MadeAt[x] = n

\* A call of a DoIt makes what its node is to make.
LEMMA DoItCalls == \A n \in 1 .. 7 : MakeOnly(DoIts[Server[n]], n)
<1> USE WhatIsMade DEF MakeOnly, Call
<1>1. MakeOnly(CreateVPC, 1)
  BY DEF CreateVPC
<1>2. MakeOnly(CreateInternetGateway, 2)
  BY DEF CreateInternetGateway
<1>3. MakeOnly(CreateSubnet, 3)
  BY DEF CreateSubnet
<1>4. MakeOnly(CreateRouteTable, 4)
  BY DEF CreateRouteTable
<1>5. MakeOnly(CreateSecurityGroup, GroupNode)
  BY DEF CreateSecurityGroup, AddIngressRules
<1>6. MakeOnly(CreateInstance, InstanceNode)
  BY DEF CreateInstance, GetLatestAmazonLinuxAMI, LaunchInstance, WaitForInstanceRunning
<1>7. MakeOnly(AttachSecurityGroup, 7)
  BY DEF AttachSecurityGroup
<1> HIDE DEF MakeOnly
<1>8. QED
  BY <1>1, <1>2, <1>3, <1>4, <1>5, <1>6, <1>7, ActionsOf, ServerShape

\* These calls make nothing that they are to remove, and an instance's end is over with
\* the instance; the last one may not fail, and when it is answered what is to be gone
\* from node n on is gone.
EndWith(calls, n) ==
  /\ Len(calls) \in 0 .. 4 /\ DOMAIN calls = 1 .. Len(calls)
  /\ calls = <<>> <=> Len(calls) = 0
  /\ \A i \in DOMAIN calls :
       /\ calls[i].makes \subseteq {"terminating"}
       /\ "terminating" \in calls[i].removes => {"instance", "membership"} \subseteq calls[i].removes
  /\ \A x \in Things : GoneAt[x] = n =>
       /\ calls # <<>> /\ ~calls[Len(calls)].warnOnly
       /\ x \in calls[Len(calls)].removes \cup calls[Len(calls)].blockers

\* A call of an UndoIt removes what its node is to leave gone.
LEMMA UndoItCalls == \A n \in 1 .. 7 : EndWith(UndoIts[Server[n]], n)
<1> USE WhatIsMade DEF EndWith, Call, Removal, Tolerated
<1>1. EndWith(DeleteVPC, 1)
  BY DEF DeleteVPC
<1>2. EndWith(DeleteInternetGateway, 2)
  BY DEF DeleteInternetGateway
<1>3. EndWith(DeleteSubnet, 3)
  BY DEF DeleteSubnet
<1>4. EndWith(DeleteRouteTable, 4)
  BY DEF DeleteRouteTable
<1>5. EndWith(DeleteSecurityGroup, GroupNode)
  BY DEF DeleteSecurityGroup
<1>6. EndWith(TerminateInstance, InstanceNode)
  BY DEF TerminateInstance, OfInstance
<1>7. EndWith(DetachSecurityGroup, 7)
  BY DEF DetachSecurityGroup
<1> HIDE DEF EndWith
<1>8. QED
  BY <1>1, <1>2, <1>3, <1>4, <1>5, <1>6, <1>7, ActionsOf, ServerShape

\* The same of the nodes of a program's saga.
LEMMA NodeCalls ==
  ASSUME saga \in Sagas, NEW n \in ActionNodes
  PROVE  MakeOnly(DoIts[saga[n]], n) /\ EndWith(UndoIts[saga[n]], n)
<1>1. n \in 1 .. 7 /\ saga[n] = Server[n]
  BY SagaShape
<1>2. QED
  BY <1>1, DoItCalls, UndoItCalls

\* A DoIt makes a call, and an UndoIt that makes one begins with the first.
LEMMA FirstCall ==
  ASSUME saga \in Sagas, NEW n \in ActionNodes
  PROVE  /\ 1 \in DOMAIN DoIts[saga[n]]
         /\ UndoIts[saga[n]] # <<>> => 1 \in DOMAIN UndoIts[saga[n]]
<1>1. 1 \in DOMAIN DoIts[saga[n]]
  BY NodeCalls DEF MakeOnly
<1>2. UndoIts[saga[n]] # <<>> => 1 \in DOMAIN UndoIts[saga[n]]
  BY NodeCalls DEF EndWith
<1>3. QED
  BY <1>1, <1>2

----------------------------------------------------------------------------
(* The inductive invariant *)

ProcessRecords ==
  [pc : PCs, command : {"none", "deploy", "destroy"}, id : 0 .. MaxDeploys,
   at : 0 .. LastNode + 1, done : 0 .. Len(saga), call : 1 .. 4,
   status : Statuses \cup {"none"}, outcome : Outcomes]
Files == [status : Statuses, id : 1 .. MaxDeploys, done : 0 .. Len(saga)]

IsSaving(s, status) == s.pc \in {"saving", "writing"} /\ s.status = status

\* A deploy that may make more.
Forward(s) == s.command = "deploy" /\ (s.pc = "doing" \/ IsSaving(s, "running"))

\* Where a process is agrees with what it has done and with the call it is at.
Sane(s) ==
  /\ s \in ProcessRecords
  /\ s.pc # "ended" => s.id > 0
  /\ s.pc = "doing" => s.command = "deploy" /\ s.status = "running" /\ s.at <= LastNode
  /\ s.pc \in {"saving", "writing"} => s.status \in Statuses
  /\ IsSaving(s, "running") => s.command = "deploy" /\ s.call = 1
  /\ Forward(s) => s.done = IF s.at = 0 THEN 0 ELSE IF s.at > Len(saga) THEN Len(saga) ELSE s.at - 1
  /\ s.pc = "doing" =>
       IF s.at \in ActionNodes THEN s.call \in DOMAIN DoIts[saga[s.at]] ELSE s.call = 1
  /\ s.pc = "undoing" =>
       /\ s.at <= Len(saga)
       /\ IF s.at \in ActionNodes /\ UndoIts[saga[s.at]] # <<>>
            THEN s.call \in DOMAIN UndoIts[saga[s.at]] ELSE s.call = 1
  /\ s.pc = "deleting" \/ IsSaving(s, "rolled_back") => s.at = 0

StateInv ==
  /\ saga \in Sagas /\ deploys \in 0 .. MaxDeploys
  /\ mishaps \in 0 .. MaxMishaps /\ disturbed \in BOOLEAN
  /\ file \in Files \cup {NoFile, TornFile} /\ (Readable(file) => file.id <= deploys)
  /\ DOMAIN proc = Processes /\ proc = [p \in Processes |-> proc[p]]
  /\ \A p \in Processes : Sane(proc[p]) /\ proc[p].id <= deploys

CloudInv == cloud \subseteq Kinds \X (1 .. MaxDeploys)

\* A deploy has an id of its own, and what others and the file know of it is not more
\* than it has done.
AheadInv ==
  /\ \A p, q \in Processes :
       p # q /\ proc[p].command = "deploy" /\ proc[q].command = "deploy" => proc[p].id # proc[q].id
  /\ \A p, q \in Processes :
       Forward(proc[p]) /\ proc[q].id = proc[p].id => proc[q].done <= proc[p].done
  /\ \A p \in Processes :
       Forward(proc[p]) /\ Readable(file) /\ file.id = proc[p].id => file.done <= proc[p].done

\* A compensation that runs, or has come to its end.
Compensating(s) ==
  \/ s.pc \in {"undoing", "deleting"} \/ IsSaving(s, "rolled_back")
  \/ s.pc = "ended" /\ s.outcome \in {"destroyed", "deployFailed"} /\ s.at = 0

GoneBehind(s, resources) ==
  \A x \in Things : s.at < GoneAt[x] /\ MadeAt[x] <= s.done => <<x, s.id>> \notin resources

\* What a compensation has passed is gone.
GoneInv == \A p \in Processes : Compensating(proc[p]) => GoneBehind(proc[p], cloud)

IInv == StateInv /\ CloudInv /\ AheadInv /\ GoneInv

----------------------------------------------------------------------------
(* What a step of one process does to the others *)

\* The process keeps its id and its command, and only a deploy that goes forward adds
\* to what is done.
Follows(s, t) ==
  /\ t.id = s.id /\ t.command = s.command
  /\ t.done = s.done \/ (Forward(s) /\ t.done = s.done + 1)
  /\ Forward(t) => Forward(s)

\* The file is left alone, gone or torn, or holds what this process knows.
WritesOwn(p) ==
  \/ UNCHANGED file \/ file' \in {NoFile, TornFile}
  \/ file' = [status |-> proc[p].status, id |-> proc[p].id, done |-> proc[p].done]

\* What comes into the cloud is of the action the deploy is at, or an instance's end.
MakesOwn(p) ==
  \A r \in cloud' \ cloud :
    \/ r[1] = "terminating" /\ r[2] \in 1 .. MaxDeploys /\ r = <<r[1], r[2]>>
    \/ /\ proc[p].pc = "doing" /\ proc[p].at \in ActionNodes
       /\ r \in MadeBy(proc[p].at) \X {proc[p].id}

\* What a node makes is of the things above.
LEMMA MadeThings ==
  ASSUME saga \in Sagas, NEW n \in ActionNodes, NEW x \in MadeBy(n)
  PROVE  x \in Things /\ MadeAt[x] = n
<1>1. n \in 1 .. 7 /\ saga[n] = Server[n]
  BY SagaShape
<1>2. PICK i \in DOMAIN DoIts[saga[n]] : x \in DoIts[saga[n]][i].makes
  BY DEF MadeBy
<1>3. MakeOnly(DoIts[Server[n]], n)
  BY <1>1, DoItCalls
<1>4. QED
  BY <1>1, <1>2, <1>3 DEF MakeOnly

\* A step of one process is a step of no other.
LEMMA OthersKept ==
  ASSUME StateInv, NEW p \in Processes, NEW t, Become(p, t)
  PROVE  /\ proc'[p] = t /\ \A q \in Processes : q # p => proc'[q] = proc[q]
         /\ DOMAIN proc' = Processes /\ proc' = [q \in Processes |-> proc'[q]]
BY DEF StateInv, Become

\* What the invariant says of one process.
LEMMA SaneOf ==
  ASSUME IInv, NEW p \in Processes
  PROVE  /\ Sane(proc[p]) /\ proc[p] \in ProcessRecords /\ proc[p].id <= deploys
         /\ proc[p].id \in 0 .. MaxDeploys /\ proc[p].at \in Nat /\ proc[p].done \in 0 .. Len(saga)
         /\ saga \in Sagas /\ Len(saga) \in {4, 7} /\ ActionNodes = 1 .. Len(saga)
         /\ mishaps \in 0 .. MaxMishaps /\ disturbed \in BOOLEAN /\ deploys \in 0 .. MaxDeploys
BY SagaShape DEF IInv, StateInv, Sane, ProcessRecords

\* What comes into the cloud is not of an action that any process knows to be done.
LEMMA MakesNotDone ==
  ASSUME IInv, NEW p \in Processes, MakesOwn(p),
         NEW q \in Processes, NEW x \in Things, MadeAt[x] <= proc[q].done,
         <<x, proc[q].id>> \in cloud'
  PROVE  <<x, proc[q].id>> \in cloud
<1> SUFFICES ASSUME <<x, proc[q].id>> \notin cloud
             PROVE  FALSE
  OBVIOUS
<1>1. x # "terminating"
  BY WhatIsMade
<1>2. /\ proc[p].pc = "doing" /\ proc[p].at \in ActionNodes
      /\ x \in MadeBy(proc[p].at) /\ proc[q].id = proc[p].id
  BY <1>1 DEF MakesOwn
<1>3. MadeAt[x] = proc[p].at
  BY <1>2, MadeThings DEF IInv, StateInv
<1>4. Forward(proc[p]) /\ proc[p].done = proc[p].at - 1
  <2>1. /\ Sane(proc[p]) /\ proc[p].at \in Nat /\ Len(saga) \in Nat
        /\ proc[p].at >= 1 /\ proc[p].at <= Len(saga)
    BY <1>2, SaneOf
  <2>2. Forward(proc[p])
    BY <1>2, <2>1 DEF Sane, Forward
  <2>3. proc[p].done = IF proc[p].at = 0 THEN 0
                       ELSE IF proc[p].at > Len(saga) THEN Len(saga) ELSE proc[p].at - 1
    BY <2>1, <2>2 DEF Sane
  <2>4. QED
    BY <2>1, <2>2, <2>3
<1>5. proc[q].done <= proc[p].done
  BY <1>2, <1>4 DEF IInv, AheadInv
<1>6. proc[p].at \in Nat /\ proc[q].done \in Nat
  BY SaneOf
<1>7. QED
  BY <1>3, <1>4, <1>5, <1>6

\* A step that Follows, writes its own and makes its own keeps the whole invariant, if
\* the process is sane after it and what it passed is gone.
LEMMA OneStep ==
  ASSUME IInv, NEW p \in Processes, NEW t, Become(p, t), Sane(t), UNCHANGED <<saga, deploys>>,
         mishaps' \in 0 .. MaxMishaps, disturbed' \in BOOLEAN,
         Follows(proc[p], t), WritesOwn(p), MakesOwn(p),
         proc[p].pc \in {"saving", "writing"} \/ file' \in {file, NoFile, TornFile},
         Compensating(t) => GoneBehind(t, cloud')
  PROVE  IInv'
<1> USE DEF LastNode, ActionNodes
<1>1. /\ proc'[p] = t /\ \A q \in Processes : q # p => proc'[q] = proc[q]
      /\ DOMAIN proc' = Processes /\ proc' = [q \in Processes |-> proc'[q]]
  BY OthersKept DEF IInv
<1>3. \A q \in Processes : Sane(proc[q]) /\ proc[q].id <= deploys
  BY DEF IInv, StateInv
<1>4. ASSUME NEW q \in Processes
      PROVE  (Sane(proc[q]))'
  <2>1. Sane(proc'[q])
    BY <1>1, <1>3
  <2>2. QED
    BY <2>1 DEF Sane, ProcessRecords
<1>5. file' \in Files \cup {NoFile, TornFile} /\ (Readable(file') => file'.id <= deploys)
  <2>1. CASE file' \in {file, NoFile, TornFile}
    BY <2>1 DEF IInv, StateInv, Readable
  <2>2. CASE /\ proc[p].pc \in {"saving", "writing"}
             /\ file' = [status |-> proc[p].status, id |-> proc[p].id, done |-> proc[p].done]
    BY <2>2, <1>3 DEF Sane, ProcessRecords, Files
  <2>3. QED
    BY <2>1, <2>2 DEF WritesOwn
<1>6. StateInv'
  <2>1. \A q \in Processes : proc'[q].id <= deploys
    BY <1>1 DEF IInv, StateInv, Follows
  <2>2. QED
    BY <1>1, <1>4, <1>5, <2>1 DEF IInv, StateInv, Files
<1>7. CloudInv'
  <2>1. Kinds' = Kinds
    BY DEF Kinds, MadeBy
  <2>2. ASSUME NEW r \in cloud', r \notin cloud
        PROVE  r \in Kinds \X (1 .. MaxDeploys)
    <3>1. CASE r[1] = "terminating" /\ r[2] \in 1 .. MaxDeploys /\ r = <<r[1], r[2]>>
      <4>1. "terminating" \in Kinds
        BY DEF Kinds
      <4>2. QED
        BY <3>1, <4>1
    <3>2. CASE /\ proc[p].pc = "doing" /\ proc[p].at \in ActionNodes
               /\ r \in MadeBy(proc[p].at) \X {proc[p].id}
      <4>1. proc[p].id \in 1 .. MaxDeploys
        BY <3>2, SaneOf DEF Sane
      <4>2. QED
        BY <3>2, <4>1 DEF Kinds
    <3>3. QED
      BY <2>2, <3>1, <3>2 DEF MakesOwn
  <2>3. QED
    BY <2>1, <2>2 DEF IInv, CloudInv
<1>8. AheadInv'
  <2>1. \A q \in Processes : proc[q].id \in Nat /\ proc[q].done \in Nat
    BY <1>3 DEF Sane, ProcessRecords
  <2>2. \A q \in Processes : proc'[q].id = proc[q].id /\ proc'[q].command = proc[q].command
    BY <1>1 DEF Follows
  <2>3. \A q \in Processes : Forward(proc'[q]) => Forward(proc[q])
    BY <1>1 DEF Follows
  <2>4. ASSUME NEW a \in Processes, NEW b \in Processes, Forward(proc'[a]), proc'[b].id = proc'[a].id
        PROVE  proc'[b].done <= proc'[a].done
    <3>1. proc[b].done <= proc[a].done /\ Forward(proc[a]) /\ proc[b].id = proc[a].id
      BY <2>2, <2>3, <2>4 DEF IInv, AheadInv
    <3>2. proc'[a].done >= proc[a].done
      BY <1>1, <2>1 DEF Follows
    <3>3. CASE proc'[b].done = proc[b].done
      BY <3>1, <3>2, <3>3, <2>1, <1>1 DEF Follows
    <3>4. CASE proc'[b].done # proc[b].done
      <4>1. b = p /\ Forward(proc[b])
        BY <3>4, <1>1 DEF Follows
      <4>2. a = b
        BY <3>1, <4>1 DEF IInv, AheadInv, Forward
      <4>3. QED
        BY <4>1, <4>2, <1>1, <2>1 DEF Follows
    <3>5. QED
      BY <3>3, <3>4
  <2>5. ASSUME NEW a \in Processes, Forward(proc'[a]), Readable(file'), file'.id = proc'[a].id
        PROVE  file'.done <= proc'[a].done
    <3>1. Forward(proc[a]) /\ proc'[a].done >= proc[a].done /\ proc'[a].done \in Nat
      BY <1>1, <2>1, <2>3, <2>5 DEF Follows
    <3>2. CASE file' = file
      <4>1. file.done <= proc[a].done /\ file.done \in Nat
        BY <3>1, <3>2, <2>2, <2>5 DEF IInv, AheadInv, StateInv, Readable, Files
      <4>2. QED
        BY <3>1, <3>2, <4>1, <2>1
    <3>3. CASE file' = [status |-> proc[p].status, id |-> proc[p].id, done |-> proc[p].done]
      <4>1. proc[p].done <= proc[a].done
        BY <3>1, <3>3, <2>2, <2>5 DEF IInv, AheadInv
      <4>2. QED
        BY <3>1, <3>3, <4>1, <2>1
    <3>4. QED
      BY <2>5, <3>2, <3>3 DEF WritesOwn, Readable
  <2>6. QED
    BY <2>2, <2>4, <2>5 DEF IInv, AheadInv
<1>9. GoneInv'
  <2>1. SUFFICES ASSUME NEW q \in Processes, q # p, Compensating(proc[q])
                 PROVE  GoneBehind(proc[q], cloud')
    BY <1>1, NodesStay DEF GoneInv, GoneBehind
  <2>2. GoneBehind(proc[q], cloud)
    BY <2>1 DEF IInv, GoneInv
  <2>3. QED
    BY <2>2, MakesNotDone DEF GoneBehind
<1>10. QED
  BY <1>6, <1>7, <1>8, <1>9 DEF IInv

\* A process that becomes one of a new command, or of none, keeps the invariant, if it
\* knows no more than the deploy of its id has done.
LEMMA NewCommand ==
  ASSUME IInv, NEW p \in Processes, NEW t, Become(p, t), Sane(t), UNCHANGED <<saga, cloud, file>>,
         deploys' \in {deploys, deploys + 1}, deploys' <= MaxDeploys, t.id <= deploys',
         mishaps' \in 0 .. MaxMishaps, disturbed' \in BOOLEAN, ~Compensating(t),
         t.command = "deploy" => t.id = deploys + 1,
         Forward(t) => t.done = 0,
         \A q \in Processes : Forward(proc[q]) /\ proc[q].id = t.id => t.done <= proc[q].done
  PROVE  IInv'
<1> USE DEF LastNode, ActionNodes
<1>1. /\ proc'[p] = t /\ \A q \in Processes : q # p => proc'[q] = proc[q]
      /\ DOMAIN proc' = Processes /\ proc' = [q \in Processes |-> proc'[q]]
  BY OthersKept DEF IInv
<1>2. \A q \in Processes : Sane(proc[q]) /\ proc[q].id <= deploys
  BY DEF IInv, StateInv
<1>3. deploys \in Nat /\ deploys' \in 0 .. MaxDeploys
  BY DEF IInv, StateInv
<1>4. \A q \in Processes : proc[q].id \in Nat /\ proc[q].done \in Nat
  BY <1>2 DEF Sane, ProcessRecords
<1>5. t.id \in Nat /\ t.done \in Nat
  BY DEF Sane, ProcessRecords
<1>6. ASSUME NEW q \in Processes
      PROVE  (Sane(proc[q]))' /\ proc'[q].id <= deploys'
  <2>1. Sane(proc'[q])
    BY <1>1, <1>2
  <2>2. proc'[q].id <= deploys'
    BY <1>1, <1>2, <1>3, <1>4
  <2>3. QED
    BY <2>1, <2>2 DEF Sane, ProcessRecords
<1>7. StateInv'
  <2>1. Readable(file) => file.id \in Nat /\ file.id <= deploys'
    BY <1>3 DEF IInv, StateInv, Files, Readable
  <2>2. QED
    BY <1>1, <1>3, <1>6, <2>1 DEF IInv, StateInv, Files, Readable
<1>8. CloudInv'
  <2>1. Kinds' = Kinds
    BY DEF Kinds, MadeBy
  <2>2. QED
    BY <2>1 DEF IInv, CloudInv
<1>9. AheadInv'
  <2>1. ASSUME NEW a \in Processes, NEW b \in Processes, a # b,
               proc'[a].command = "deploy", proc'[b].command = "deploy"
        PROVE  proc'[a].id # proc'[b].id
    BY <2>1, <1>1, <1>2, <1>3, <1>4 DEF IInv, AheadInv
  <2>2. ASSUME NEW a \in Processes, NEW b \in Processes, Forward(proc'[a]), proc'[b].id = proc'[a].id
        PROVE  proc'[b].done <= proc'[a].done
    <3>1. CASE a = b
      BY <3>1, <1>1, <1>4, <1>5
    <3>2. CASE a # b /\ a = p
      BY <2>2, <3>2, <1>1, <1>2, <1>3, <1>4 DEF Forward
    <3>3. CASE a # p /\ b = p
      BY <2>2, <3>3, <1>1
    <3>4. CASE a # p /\ b # p
      BY <2>2, <3>4, <1>1 DEF IInv, AheadInv
    <3>5. QED
      BY <3>1, <3>2, <3>3, <3>4
  <2>3. ASSUME NEW a \in Processes, Forward(proc'[a]), Readable(file), file.id = proc'[a].id
        PROVE  file.done <= proc'[a].done
    <3>1. CASE a = p
      <4>1. t.id = deploys + 1
        BY <2>3, <3>1, <1>1 DEF Forward
      <4>2. file.id \in Nat /\ file.id <= deploys
        BY <2>3 DEF IInv, StateInv, Readable, Files
      <4>3. QED
        BY <2>3, <3>1, <4>1, <4>2, <1>1, <1>3
    <3>2. CASE a # p
      BY <2>3, <3>2, <1>1 DEF IInv, AheadInv
    <3>3. QED
      BY <3>1, <3>2
  <2>4. QED
    BY <2>1, <2>2, <2>3 DEF AheadInv, Readable
<1>10. GoneInv'
  BY <1>1, NodesStay DEF IInv, GoneInv, GoneBehind
<1>11. QED
  BY <1>7, <1>8, <1>9, <1>10 DEF IInv

----------------------------------------------------------------------------
(* The commands' steps *)

\* A mishap is one of those allowed.
LEMMA MishapBounded ==
  ASSUME IInv, Mishap
  PROVE  mishaps' \in 0 .. MaxMishaps
BY DEF IInv, StateInv, Mishap, WithinBound

\* A step that leaves the cloud alone makes nothing.
LEMMA MakesNothing ==
  ASSUME NEW p, cloud' = cloud
  PROVE  MakesOwn(p)
BY DEF MakesOwn

\* A save leaves all but the file alone, and writes what the process knows.
LEMMA SaveFacts ==
  ASSUME IInv, NEW p \in Processes, Save(p)
  PROVE  /\ UNCHANGED <<saga, cloud, deploys>> /\ mishaps' \in 0 .. MaxMishaps
         /\ disturbed' \in BOOLEAN /\ proc[p].pc \in {"saving", "writing"} /\ WritesOwn(p)
<1>1. mishaps \in 0 .. MaxMishaps /\ disturbed \in BOOLEAN
  BY DEF IInv, StateInv
<1>2. CASE SaveSucceeds(p)
  BY <1>1, <1>2 DEF SaveSucceeds, WritesOwn, At
<1>3. CASE SaveFails(p)
  BY <1>1, <1>3, MishapBounded DEF SaveFails, WritesOwn, At
<1>4. QED
  BY <1>2, <1>3 DEF Save

\* A save, with what comes after it.
LEMMA OneSave ==
  ASSUME IInv, NEW p \in Processes, NEW t, Save(p), Become(p, t), Sane(t), Follows(proc[p], t),
         Compensating(t) => GoneBehind(t, cloud)
  PROVE  IInv'
<1>1. cloud' = cloud
  BY SaveFacts
<1>2. Compensating(t) => GoneBehind(t, cloud')
  BY <1>1
<1>3. QED
  BY <1>1, <1>2, SaveFacts, MakesNothing, OneStep

\* A process that has nothing before it that was made, has nothing to be gone.
LEMMA NothingBehind ==
  ASSUME NEW t, NEW resources, t.at \in Nat, t.done \in Nat, t.done <= t.at
  PROVE  GoneBehind(t, resources)
<1>1. ASSUME NEW x \in Things
      PROVE  MadeAt[x] \in Nat /\ GoneAt[x] \in Nat /\ GoneAt[x] <= MadeAt[x]
  BY WhatIsMade
<1>2. QED
  BY <1>1 DEF GoneBehind

\* The saves of a deploy that goes forward.
LEMMA SaveSteps ==
  ASSUME IInv, NEW p \in Processes
  PROVE  /\ Truncate(p) => IInv'
         /\ ExecuteBegins(p) => IInv'
         /\ NodeSaved(p) => IInv'
         /\ CompletionSaved(p) => IInv'
<1> DEFINE s == proc[p]
<1>1. /\ Sane(s) /\ s \in ProcessRecords /\ s.at \in Nat /\ s.done \in 0 .. Len(saga)
      /\ Len(saga) \in {4, 7} /\ ActionNodes = 1 .. Len(saga) /\ saga \in Sagas
      /\ mishaps \in 0 .. MaxMishaps /\ disturbed \in BOOLEAN
  BY SaneOf
<1>2. ASSUME Truncate(p)
      PROVE  IInv'
  <2> DEFINE t == [s EXCEPT !.pc = "writing"]
  <2>1. s.pc = "saving" /\ Become(p, t) /\ file' = TornFile
    BY <1>2 DEF Truncate, At, Goto
  <2>2. Sane(t)
    BY <1>1, <2>1 DEF Sane, ProcessRecords, PCs, IsSaving, Forward
  <2>3. Follows(s, t)
    BY <1>1, <2>1 DEF Follows, ProcessRecords, Forward, IsSaving
  <2>4. Compensating(t) => GoneBehind(t, cloud)
    BY <1>1, <2>1 DEF Compensating, ProcessRecords, IsSaving, IInv, GoneInv, GoneBehind
  <2>5. WritesOwn(p) /\ MakesOwn(p)
    BY <1>2 DEF Truncate, WritesOwn, MakesOwn
  <2>6. QED
    <3> HIDE DEF t
    <3> QED
      BY <1>1, <1>2, <2>1, <2>2, <2>3, <2>4, <2>5, OneStep DEF Truncate
<1>3. ASSUME ExecuteBegins(p)
      PROVE  IInv'
  <2>1. /\ s.pc \in {"saving", "writing"} /\ s.command = "deploy" /\ s.status = "running"
        /\ s.at = 0 /\ s.done = 0 /\ s.call = 1 /\ Forward(s)
    BY <1>1, <1>3 DEF ExecuteBegins, Saving, At, Sane, IsSaving, Forward
  <2>2. Save(p)
    BY <1>3 DEF ExecuteBegins, Save
  <2>3. CASE Become(p, [s EXCEPT !.pc = "doing"])
    <3> DEFINE t == [s EXCEPT !.pc = "doing"]
    <3>1. Sane(t)
      BY <1>1, <2>1 DEF Sane, ProcessRecords, PCs, IsSaving, Forward, LastNode
    <3>2. Follows(s, t) /\ ~Compensating(t)
      BY <1>1, <2>1 DEF Follows, ProcessRecords, Compensating, IsSaving
    <3>3. QED
      <4> HIDE DEF t
      <4> QED
        BY <2>2, <2>3, <3>1, <3>2, OneSave DEF t
  <2>4. CASE End(p, "deployFailed")
    <3> DEFINE t == [s EXCEPT !.pc = "ended", !.outcome = "deployFailed"]
    <3>1. Sane(t)
      BY <1>1, <2>1 DEF Sane, ProcessRecords, PCs, IsSaving, Forward, Outcomes
    <3>2. Follows(s, t)
      BY <1>1, <2>1 DEF Follows, ProcessRecords, Forward, IsSaving
    <3>3. GoneBehind(t, cloud)
      <4>1. t.at = 0 /\ t.done = 0
        BY <1>1, <2>1 DEF ProcessRecords
      <4> HIDE DEF t
      <4>2. QED
        BY <4>1, NothingBehind
    <3>4. QED
      <4> HIDE DEF t
      <4> QED
        BY <2>2, <2>4, <3>1, <3>2, <3>3, OneSave DEF t, End
  <2>5. QED
    BY <1>3, <2>3, <2>4 DEF ExecuteBegins
<1>4. ASSUME NodeSaved(p)
      PROVE  IInv'
  <2>1. /\ s.pc \in {"saving", "writing"} /\ s.command = "deploy" /\ s.status = "running"
        /\ s.call = 1 /\ Forward(s) /\ Save(p)
    BY <1>1, <1>4 DEF NodeSaved, Saving, At, Sane, IsSaving, Forward
  <2>2. CASE s.at <= LastNode /\ Goto(p, "doing")
    <3> DEFINE t == [s EXCEPT !.pc = "doing"]
    <3>1. ASSUME s.at \in ActionNodes
          PROVE  1 \in DOMAIN DoIts[saga[s.at]]
      BY <1>1, <3>1, FirstCall
    <3>2. Sane(t)
      BY <1>1, <2>1, <2>2, <3>1 DEF Sane, ProcessRecords, PCs, IsSaving, Forward
    <3>3. Follows(s, t) /\ ~Compensating(t)
      BY <1>1, <2>1 DEF Follows, ProcessRecords, Compensating, IsSaving
    <3>4. QED
      <4> HIDE DEF t
      <4> QED
        BY <2>1, <2>2, <3>2, <3>3, OneSave DEF t, Goto
  <2>3. CASE Persist(p, s, "completed")
    <3> DEFINE t == [s EXCEPT !.pc = "saving", !.status = "completed"]
    <3>1. Sane(t)
      BY <1>1, <2>1 DEF Sane, ProcessRecords, PCs, Statuses, IsSaving, Forward
    <3>2. Follows(s, t) /\ ~Compensating(t)
      BY <1>1, <2>1 DEF Follows, ProcessRecords, Compensating, Forward, IsSaving
    <3>3. QED
      <4> HIDE DEF t
      <4> QED
        BY <2>1, <2>3, <3>1, <3>2, OneSave DEF t, Persist
  <2>4. QED
    BY <1>4, <2>2, <2>3 DEF NodeSaved
<1>5. ASSUME CompletionSaved(p)
      PROVE  IInv'
  <2>1. Save(p) /\ End(p, "deployed") /\ s.pc \in {"saving", "writing"}
    BY <1>5 DEF CompletionSaved, Saving, At
  <2> DEFINE t == [s EXCEPT !.pc = "ended", !.outcome = "deployed"]
  <2>2. Sane(t)
    BY <1>1, <2>1 DEF Sane, ProcessRecords, PCs, IsSaving, Forward, Outcomes
  <2>3. Follows(s, t) /\ ~Compensating(t)
    BY <1>1, <2>1 DEF Follows, ProcessRecords, Compensating, Forward, IsSaving
  <2>4. QED
    <3> HIDE DEF t
    <3> QED
      BY <2>1, <2>2, <2>3, OneSave DEF t, End
<1>6. QED
  BY <1>2, <1>3, <1>4, <1>5

\* The saves around a compensation, and the file's removal.
LEMMA CompensationSteps ==
  ASSUME IInv, NEW p \in Processes
  PROVE  /\ CompensationBegins(p) => IInv'
         /\ RollbackSaved(p) => IInv'
         /\ Delete(p) => IInv'
<1> DEFINE s == proc[p]
<1>1. /\ Sane(s) /\ s \in ProcessRecords /\ s.at \in Nat /\ s.done \in 0 .. Len(saga)
      /\ Len(saga) \in {4, 7} /\ ActionNodes = 1 .. Len(saga) /\ saga \in Sagas
      /\ mishaps \in 0 .. MaxMishaps /\ disturbed \in BOOLEAN
  BY SaneOf
<1>2. ASSUME CompensationBegins(p)
      PROVE  IInv'
  <2> DEFINE t == [s EXCEPT !.pc = "undoing", !.at = s.done, !.call = 1]
  <2>1. Save(p) /\ Become(p, t) /\ s.pc \in {"saving", "writing"}
    BY <1>2 DEF CompensationBegins, Saving, At
  <2>2. ASSUME s.done \in ActionNodes, UndoIts[saga[s.done]] # <<>>
        PROVE  1 \in DOMAIN UndoIts[saga[s.done]]
    BY <1>1, <2>2, FirstCall
  <2>3. Sane(t)
    <3>1. /\ t \in ProcessRecords /\ t.pc = "undoing" /\ t.at = s.done /\ t.call = 1
          /\ t.id = s.id
      <4>1. "undoing" \in PCs /\ s.done \in 0 .. LastNode + 1 /\ 1 \in 1 .. 4
        BY <1>1 DEF PCs, LastNode
      <4>2. QED
        BY <1>1, <4>1 DEF ProcessRecords
    <3>2. s.id > 0
      BY <1>1, <2>1 DEF Sane
    <3> HIDE DEF t
    <3>3. QED
      BY <1>1, <2>2, <3>1, <3>2 DEF Sane, IsSaving, Forward
  <2>4. Follows(s, t)
    BY <1>1, <2>1 DEF Follows, ProcessRecords, Forward, IsSaving
  <2>5. GoneBehind(t, cloud)
    <3>1. t.at = t.done /\ t.done \in Nat
      BY <1>1 DEF ProcessRecords
    <3> HIDE DEF t
    <3>2. QED
      BY <3>1, NothingBehind
  <2>6. QED
    <3> HIDE DEF t
    <3> QED
      BY <2>1, <2>3, <2>4, <2>5, OneSave
<1>3. ASSUME RollbackSaved(p)
      PROVE  IInv'
  <2>1. Save(p) /\ s.pc \in {"saving", "writing"}
    BY <1>3 DEF RollbackSaved, Saving, At
  <2>2. CASE s.status = "rolled_back" /\ Goto(p, "deleting")
    <3> DEFINE t == [s EXCEPT !.pc = "deleting"]
    <3>1. s.at = 0
      BY <1>1, <2>1, <2>2 DEF Sane, IsSaving
    <3>2. Sane(t)
      BY <1>1, <2>1, <3>1 DEF Sane, ProcessRecords, PCs, IsSaving, Forward
    <3>3. Follows(s, t)
      BY <1>1, <2>1 DEF Follows, ProcessRecords, Forward, IsSaving
    <3>4. GoneBehind(t, cloud)
      BY <1>1, <2>1, <2>2 DEF Compensating, ProcessRecords, IsSaving, IInv, GoneInv, GoneBehind
    <3>5. QED
      <4> HIDE DEF t
      <4> QED
        BY <2>1, <2>2, <3>2, <3>3, <3>4, OneSave DEF t, Goto
  <2>3. CASE End(p, "destroyFailed")
    <3> DEFINE t == [s EXCEPT !.pc = "ended", !.outcome = "destroyFailed"]
    <3>1. Sane(t)
      BY <1>1, <2>1 DEF Sane, ProcessRecords, PCs, IsSaving, Forward, Outcomes
    <3>2. Follows(s, t) /\ ~Compensating(t)
      BY <1>1, <2>1 DEF Follows, ProcessRecords, Compensating, Forward, IsSaving
    <3>3. QED
      <4> HIDE DEF t
      <4> QED
        BY <2>1, <2>3, <3>1, <3>2, OneSave DEF t, End
  <2>4. QED
    BY <1>3, <2>2, <2>3 DEF RollbackSaved, Saving
<1>4. ASSUME Delete(p)
      PROVE  IInv'
  <2> DEFINE t == [s EXCEPT !.pc = "ended", !.outcome = "destroyed"]
  <2>1. s.pc = "deleting" /\ Become(p, t) /\ cloud' = cloud /\ UNCHANGED <<saga, deploys, disturbed>>
    BY <1>4 DEF Delete, At, End
  <2>2. Sane(t)
    BY <1>1, <2>1 DEF Sane, ProcessRecords, PCs, IsSaving, Forward, Outcomes
  <2>3. Follows(s, t)
    BY <1>1, <2>1 DEF Follows, ProcessRecords, Forward, IsSaving
  <2>4. GoneBehind(t, cloud')
    BY <1>1, <2>1 DEF Compensating, ProcessRecords, IInv, GoneInv, GoneBehind
  <2>5. WritesOwn(p) /\ MakesOwn(p) /\ file' \in {file, NoFile, TornFile}
    BY <1>4, <2>1 DEF Delete, WritesOwn, MakesOwn
  <2>6. mishaps' \in 0 .. MaxMishaps
    BY <1>1, <1>4, MishapBounded DEF Delete
  <2>7. QED
    <3> HIDE DEF t
    <3> QED
      BY <1>1, <2>1, <2>2, <2>3, <2>4, <2>5, <2>6, OneStep
<1>5. QED
  BY <1>2, <1>3, <1>4

----------------------------------------------------------------------------
(* The calls *)

\* A call that is made adds what it makes to the cloud at most.
LEMMA CallFacts ==
  ASSUME IInv, NEW p \in Processes, Answered(p) \/ Failing(p)
  PROVE  /\ mishaps' \in 0 .. MaxMishaps
         /\ cloud' \ cloud \subseteq Of(p, CurrentCall(p).makes)
         /\ Answered(p) => /\ cloud' \cap Of(p, CurrentCall(p).removes) = {}
                           /\ cloud \cap Of(p, CurrentCall(p).blockers) = {}
<1>1. mishaps \in 0 .. MaxMishaps
  BY DEF IInv, StateInv
<1>2. CASE Answered(p)
  BY <1>1, <1>2 DEF Answered, After, Refused
<1>3. CASE Failing(p)
  BY <1>1, <1>3, MishapBounded DEF Failing, Answered, After, Refused
<1>4. QED
  BY <1>2, <1>3

\* A call of a DoIt makes its node's own.
LEMMA DoItMakes ==
  ASSUME IInv, NEW p \in Processes, proc[p].pc = "doing", proc[p].at \in ActionNodes,
         cloud' \ cloud \subseteq Of(p, CurrentCall(p).makes)
  PROVE  MakesOwn(p) /\ proc[p].call \in DOMAIN DoIts[saga[proc[p].at]]
         /\ CallsOf(p) = DoIts[saga[proc[p].at]]
<1>1. CallsOf(p) = DoIts[saga[proc[p].at]]
  BY DEF CallsOf, At
<1>2. proc[p].call \in DOMAIN DoIts[saga[proc[p].at]]
  BY SaneOf DEF Sane
<1>3. CurrentCall(p).makes \subseteq MadeBy(proc[p].at)
  BY <1>1, <1>2 DEF CurrentCall, MadeBy
<1>4. Of(p, CurrentCall(p).makes) \subseteq MadeBy(proc[p].at) \X {proc[p].id}
  BY <1>3 DEF Of
<1>5. QED
  BY <1>1, <1>2, <1>4 DEF MakesOwn

\* A call of an UndoIt makes an instance's end at most.
LEMMA UndoItMakes ==
  ASSUME IInv, NEW p \in Processes, proc[p].pc = "undoing", HasCalls(p),
         cloud' \ cloud \subseteq Of(p, CurrentCall(p).makes)
  PROVE  /\ MakesOwn(p) /\ proc[p].call \in DOMAIN UndoIts[saga[proc[p].at]]
         /\ CallsOf(p) = UndoIts[saga[proc[p].at]]
         /\ \A x \in Things : <<x, proc[p].id>> \notin cloud => <<x, proc[p].id>> \notin cloud'
<1>1. CallsOf(p) = UndoIts[saga[proc[p].at]] /\ proc[p].at \in ActionNodes
  BY DEF CallsOf, At, HasCalls
<1>2. proc[p].call \in DOMAIN UndoIts[saga[proc[p].at]]
  BY SMTT(20), <1>1, SaneOf DEF Sane, HasCalls
<1>3. CurrentCall(p).makes \subseteq {"terminating"}
  BY <1>1, <1>2, SaneOf, NodeCalls DEF CurrentCall, EndWith
<1>4. proc[p].id \in 1 .. MaxDeploys
  BY SaneOf DEF Sane
<1>5. ASSUME NEW r \in cloud', r \notin cloud
      PROVE  r = <<"terminating", proc[p].id>>
  BY <1>3, <1>5 DEF Of
<1>6. \A x \in Things : x # "terminating"
  BY WhatIsMade
<1>7. QED
  BY <1>1, <1>2, <1>4, <1>5, <1>6 DEF MakesOwn

\* The steps of a deploy between its saves.
LEMMA DoingSteps ==
  ASSUME IInv, NEW p \in Processes
  PROVE  /\ SkipNode(p) => IInv'
         /\ DoIt(p) => IInv'
<1> DEFINE s == proc[p]
<1>1. /\ Sane(s) /\ s \in ProcessRecords /\ s.at \in Nat /\ s.done \in 0 .. Len(saga)
      /\ Len(saga) \in {4, 7} /\ ActionNodes = 1 .. Len(saga) /\ saga \in Sagas
      /\ mishaps \in 0 .. MaxMishaps /\ disturbed \in BOOLEAN /\ deploys \in 0 .. MaxDeploys
  BY SaneOf
<1>2. ASSUME s.pc = "doing"
      PROVE  /\ s.command = "deploy" /\ s.status = "running" /\ s.id > 0 /\ Forward(s)
             /\ s.at \in 0 .. Len(saga) + 1
             /\ s.done = IF s.at = 0 THEN 0 ELSE IF s.at > Len(saga) THEN Len(saga) ELSE s.at - 1
             /\ s.at \notin ActionNodes => s.call = 1
  BY <1>1, <1>2 DEF Sane, Forward, LastNode
<1>3. ASSUME SkipNode(p)
      PROVE  IInv'
  <2> DEFINE t == [s EXCEPT !.at = s.at + 1, !.pc = "saving", !.status = "running"]
  <2>1. s.pc = "doing" /\ s.at \notin ActionNodes /\ Become(p, t)
    BY <1>1, <1>3 DEF SkipNode, Persist, At, ProcessRecords
  <2>2. /\ t \in ProcessRecords /\ t.pc = "saving" /\ t.status = "running" /\ t.at = s.at + 1
        /\ t.id = s.id /\ t.command = s.command /\ t.done = s.done /\ t.call = s.call
    <3>1. "saving" \in PCs /\ "running" \in Statuses /\ s.at + 1 \in 0 .. LastNode + 1
      BY SMTT(20), <1>1, <1>2, <2>1 DEF PCs, Statuses, LastNode
    <3>2. QED
      BY <1>1, <3>1 DEF ProcessRecords
  <2> HIDE DEF t
  <2>3. Sane(t)
    BY <1>1, <1>2, <2>1, <2>2 DEF Sane, IsSaving, Forward, Statuses
  <2>4. Follows(s, t) /\ ~Compensating(t)
    BY <1>2, <2>1, <2>2 DEF Follows, Compensating, IsSaving
  <2>5. WritesOwn(p) /\ MakesOwn(p)
    BY <1>3 DEF SkipNode, WritesOwn, MakesOwn
  <2>6. QED
    BY <1>1, <1>3, <2>1, <2>3, <2>4, <2>5, OneStep DEF SkipNode
<1>4. ASSUME DoIt(p)
      PROVE  IInv'
  <2>1. s.pc = "doing" /\ s.at \in ActionNodes /\ UNCHANGED <<saga, file, deploys, disturbed>>
    BY <1>4 DEF DoIt, At
  <2>2. mishaps' \in 0 .. MaxMishaps /\ cloud' \ cloud \subseteq Of(p, CurrentCall(p).makes)
    BY <1>4, CallFacts DEF DoIt
  <2>3. MakesOwn(p) /\ s.call \in DOMAIN DoIts[saga[s.at]] /\ CallsOf(p) = DoIts[saga[s.at]]
    BY <2>1, <2>2, DoItMakes
  <2>4. s.at \in 1 .. Len(saga) /\ s.done = s.at - 1
    BY <1>1, <1>2, <2>1
  <2>5. ASSUME NEW t, Become(p, t), Sane(t), Follows(s, t), ~Compensating(t)
        PROVE  IInv'
    <3>1. WritesOwn(p)
      BY <2>1 DEF WritesOwn
    <3>2. QED
      BY <1>1, <2>1, <2>2, <2>3, <2>5, <3>1, OneStep
  <2>6. CASE NextCall(p)
    <3> DEFINE t == [s EXCEPT !.call = s.call + 1]
    <3>1. Become(p, t) /\ s.call # Len(DoIts[saga[s.at]])
      BY <1>1, <2>3, <2>6 DEF NextCall, LastCall, Become, ProcessRecords
    <3>2. s.call + 1 \in DOMAIN DoIts[saga[s.at]] /\ s.call + 1 \in 1 .. 4
      <4>1. MakeOnly(DoIts[saga[s.at]], s.at)
        BY <1>1, <2>1, NodeCalls
      <4> DEFINE calls == DOMAIN DoIts[saga[s.at]]
                 last == Len(DoIts[saga[s.at]])
      <4>2. calls = 1 .. last /\ last \in 1 .. 4
        BY <4>1 DEF MakeOnly
      <4>3. s.call \in calls /\ s.call # last
        BY <2>3, <3>1
      <4> HIDE DEF calls, last
      <4>4. s.call + 1 \in calls /\ s.call + 1 \in 1 .. 4
        BY <4>2, <4>3
      <4>5. QED
        BY <4>4 DEF calls
    <3>3. /\ t \in ProcessRecords /\ t.pc = "doing" /\ t.status = s.status /\ t.at = s.at
          /\ t.id = s.id /\ t.command = s.command /\ t.done = s.done /\ t.call = s.call + 1
      BY <1>1, <2>1, <3>2 DEF ProcessRecords
    <3> HIDE DEF t
    <3>4. Sane(t)
      BY <1>1, <1>2, <2>1, <3>2, <3>3 DEF Sane, IsSaving, Forward
    <3>5. Follows(s, t) /\ ~Compensating(t)
      BY <1>2, <2>1, <3>3 DEF Follows, Compensating, IsSaving
    <3>6. QED
      BY <2>5, <3>1, <3>4, <3>5
  <2>7. CASE Persist(p, [s EXCEPT !.at = s.at + 1, !.done = s.done + 1, !.call = 1], "running")
    <3> DEFINE t == [s EXCEPT !.at = s.at + 1, !.done = s.done + 1, !.call = 1,
                              !.pc = "saving", !.status = "running"]
    <3>1. Become(p, t)
      BY <1>1, <2>7 DEF Persist, ProcessRecords
    <3>2. /\ t \in ProcessRecords /\ t.pc = "saving" /\ t.status = "running" /\ t.at = s.at + 1
          /\ t.id = s.id /\ t.command = s.command /\ t.done = s.done + 1 /\ t.call = 1
      <4>1. /\ "saving" \in PCs /\ "running" \in Statuses /\ 1 \in 1 .. 4
            /\ s.at + 1 \in 0 .. LastNode + 1 /\ s.done + 1 \in 0 .. Len(saga)
        BY <1>1, <2>4 DEF PCs, Statuses, LastNode
      <4>2. QED
        BY <1>1, <4>1 DEF ProcessRecords
    <3> HIDE DEF t
    <3>3. Sane(t)
      BY SMTT(15), <1>1, <1>2, <2>1, <2>4, <3>2 DEF Sane, IsSaving, Forward, Statuses
    <3>4. Follows(s, t) /\ ~Compensating(t)
      BY <1>2, <2>1, <3>2 DEF Follows, Compensating, IsSaving
    <3>5. QED
      BY <2>5, <3>1, <3>3, <3>4
  <2>8. CASE Persist(p, s, "failed")
    <3> DEFINE t == [s EXCEPT !.pc = "saving", !.status = "failed"]
    <3>1. Become(p, t)
      BY <2>8 DEF Persist
    <3>2. /\ t \in ProcessRecords /\ t.pc = "saving" /\ t.status = "failed" /\ t.at = s.at
          /\ t.id = s.id /\ t.command = s.command /\ t.done = s.done
      BY <1>1 DEF ProcessRecords, PCs, Statuses
    <3> HIDE DEF t
    <3>3. Sane(t)
      BY <1>1, <1>2, <2>1, <3>2 DEF Sane, IsSaving, Forward, Statuses
    <3>4. Follows(s, t) /\ ~Compensating(t)
      BY <1>2, <2>1, <3>2 DEF Follows, Compensating, IsSaving, Forward
    <3>5. QED
      BY <2>5, <3>1, <3>3, <3>4
  <2>9. QED
    BY <1>4, <2>6, <2>7, <2>8 DEF DoIt
<1>5. QED
  BY <1>3, <1>4

\* The last call of an UndoIt, when it may be passed, leaves what is to be gone from
\* its node on gone.
LEMMA GoneAtLast ==
  ASSUME IInv, NEW p \in Processes, proc[p].pc = "undoing", HasCalls(p), LastCall(p),
         Answered(p) \/ (Failing(p) /\ CurrentCall(p).warnOnly),
         NEW x \in Things, GoneAt[x] = proc[p].at
  PROVE  <<x, proc[p].id>> \notin cloud'
<1> DEFINE calls == UndoIts[saga[proc[p].at]]
<1>1. cloud' \ cloud \subseteq Of(p, CurrentCall(p).makes)
  BY CallFacts
<1>2. CallsOf(p) = calls /\ proc[p].at \in ActionNodes
  BY DEF CallsOf, At, HasCalls
<1>3. EndWith(calls, proc[p].at)
  BY <1>2, SaneOf, NodeCalls
<1>4. CurrentCall(p) = calls[Len(calls)]
  <2>1. CurrentCall(p) = CallsOf(p)[Len(CallsOf(p))]
    BY DEF CurrentCall, LastCall
  <2> HIDE DEF calls
  <2>2. QED
    BY <1>2, <2>1
<1>5. ~CurrentCall(p).warnOnly /\ x \in CurrentCall(p).removes \cup CurrentCall(p).blockers
  <2> HIDE DEF calls
  <2>1. ~calls[Len(calls)].warnOnly /\ x \in calls[Len(calls)].removes \cup calls[Len(calls)].blockers
    BY <1>3 DEF EndWith
  <2>2. QED
    BY <1>4, <2>1
<1>6. /\ cloud' \cap Of(p, CurrentCall(p).removes) = {}
      /\ cloud \cap Of(p, CurrentCall(p).blockers) = {}
  BY <1>5, CallFacts
<1>7. CASE x \in CurrentCall(p).removes
  BY <1>6, <1>7 DEF Of
<1>8. CASE x \in CurrentCall(p).blockers
  <2>1. <<x, proc[p].id>> \notin cloud
    BY <1>6, <1>8 DEF Of
  <2>2. QED
    BY <2>1, <1>1, UndoItMakes
<1>9. QED
  BY <1>5, <1>7, <1>8

\* The steps of a compensation between its saves.
LEMMA UndoingSteps ==
  ASSUME IInv, NEW p \in Processes
  PROVE  /\ UndoIt(p) => IInv'
         /\ UndoesNothing(p) => IInv'
         /\ AllUndone(p) => IInv'
<1> DEFINE s == proc[p]
<1>1. /\ Sane(s) /\ s \in ProcessRecords /\ s.at \in Nat /\ s.done \in 0 .. Len(saga)
      /\ Len(saga) \in {4, 7} /\ ActionNodes = 1 .. Len(saga) /\ saga \in Sagas
      /\ mishaps \in 0 .. MaxMishaps /\ disturbed \in BOOLEAN /\ deploys \in 0 .. MaxDeploys
  BY SaneOf
<1>2. ASSUME s.pc = "undoing"
      PROVE  s.id > 0 /\ s.at \in 0 .. Len(saga) /\ GoneBehind(s, cloud) /\ ~Forward(s)
  BY <1>1, <1>2 DEF Sane, IInv, GoneInv, Compensating, Forward, IsSaving
<1>3. ASSUME UndoIt(p)
      PROVE  IInv'
  <2>1. s.pc = "undoing" /\ HasCalls(p) /\ UNCHANGED <<saga, file, deploys, disturbed>>
    BY <1>3 DEF UndoIt, At
  <2>2. mishaps' \in 0 .. MaxMishaps /\ cloud' \ cloud \subseteq Of(p, CurrentCall(p).makes)
    BY <1>3, CallFacts DEF UndoIt
  <2> DEFINE calls == UndoIts[saga[s.at]]
  <2>3. /\ MakesOwn(p) /\ s.call \in DOMAIN calls /\ CallsOf(p) = calls
        /\ \A x \in Things : <<x, s.id>> \notin cloud => <<x, s.id>> \notin cloud'
    BY <2>1, <2>2, UndoItMakes
  <2>4. s.at \in 1 .. Len(saga) /\ calls # <<>>
    BY <1>1, <2>1, <2>3 DEF HasCalls
  <2>5. GoneBehind(s, cloud')
    BY <1>2, <2>1, <2>3 DEF GoneBehind
  <2>6. ASSUME NEW t, Become(p, t), Sane(t), Follows(s, t), Compensating(t) => GoneBehind(t, cloud')
        PROVE  IInv'
    <3>1. WritesOwn(p)
      BY <2>1 DEF WritesOwn
    <3>2. QED
      BY <1>1, <2>1, <2>2, <2>3, <2>6, <3>1, OneStep
  <2>7. CASE NextCall(p)
    <3> DEFINE t == [s EXCEPT !.call = s.call + 1]
               last == Len(calls)
    <3>1. Become(p, t) /\ s.call # last
      BY <1>1, <2>3, <2>7 DEF NextCall, LastCall, Become, ProcessRecords
    <3>2. s.call + 1 \in DOMAIN calls /\ s.call + 1 \in 1 .. 4
      <4>1. EndWith(calls, s.at)
        BY SMTT(20), <1>1, <2>4, NodeCalls
      <4>2. DOMAIN calls = 1 .. last /\ last \in 0 .. 4
        BY <4>1 DEF EndWith
      <4>3. s.call \in DOMAIN calls /\ s.call # last
        BY <2>3, <3>1
      <4> HIDE DEF calls, last
      <4>4. s.call + 1 \in DOMAIN calls /\ s.call + 1 \in 1 .. 4
        BY <4>2, <4>3
      <4>5. QED
        BY <4>4 DEF calls
    <3>3. /\ t \in ProcessRecords /\ t.pc = "undoing" /\ t.status = s.status /\ t.at = s.at
          /\ t.id = s.id /\ t.command = s.command /\ t.done = s.done /\ t.call = s.call + 1
      BY <1>1, <2>1, <3>2 DEF ProcessRecords
    <3> HIDE DEF t
    <3>4. Sane(t)
      BY <1>1, <1>2, <2>1, <2>4, <3>2, <3>3 DEF Sane, IsSaving, Forward
    <3>5. Follows(s, t) /\ GoneBehind(t, cloud')
      BY <2>5, <3>3 DEF Follows, Forward, IsSaving, GoneBehind
    <3>6. QED
      BY <2>6, <3>1, <3>4, <3>5
  <2>8. CASE /\ Answered(p) \/ (Failing(p) /\ CurrentCall(p).warnOnly)
             /\ LastCall(p) /\ Become(p, [s EXCEPT !.at = s.at - 1, !.call = 1])
    <3> DEFINE t == [s EXCEPT !.at = s.at - 1, !.call = 1]
    <3>1. Become(p, t)
      BY <2>8
    <3>2. /\ t \in ProcessRecords /\ t.pc = "undoing" /\ t.status = s.status /\ t.at = s.at - 1
          /\ t.id = s.id /\ t.command = s.command /\ t.done = s.done /\ t.call = 1
      <4>1. 1 \in 1 .. 4 /\ s.at - 1 \in 0 .. LastNode + 1
        BY <1>1, <2>4 DEF LastNode
      <4>2. QED
        BY <1>1, <2>1, <4>1 DEF ProcessRecords
    <3> HIDE DEF t
    <3>3. ASSUME t.at \in ActionNodes, UndoIts[saga[t.at]] # <<>>
          PROVE  1 \in DOMAIN UndoIts[saga[t.at]]
      BY <1>1, <3>3, FirstCall
    <3>4. Sane(t)
      BY <1>1, <1>2, <2>1, <2>4, <3>2, <3>3 DEF Sane, IsSaving, Forward
    <3>5. GoneBehind(t, cloud')
      <4>1. SUFFICES ASSUME NEW x \in Things, t.at < GoneAt[x], MadeAt[x] <= t.done
                     PROVE  <<x, t.id>> \notin cloud'
        BY DEF GoneBehind
      <4>2. GoneAt[x] \in Nat
        BY WhatIsMade
      <4>3. CASE GoneAt[x] = s.at
        BY <1>1, <2>1, <2>8, <3>2, <4>3, GoneAtLast
      <4>4. CASE s.at < GoneAt[x]
        BY <2>5, <3>2, <4>1, <4>4 DEF GoneBehind
      <4>5. QED
        BY <2>4, <3>2, <4>1, <4>2, <4>3, <4>4
    <3>6. Follows(s, t)
      BY <3>2 DEF Follows, Forward, IsSaving
    <3>7. QED
      BY <2>6, <3>1, <3>4, <3>5, <3>6
  <2>9. CASE CompensationEnds(p, "failed")
    <3>1. CASE End(p, "deployFailed")
      <4> DEFINE t == [s EXCEPT !.pc = "ended", !.outcome = "deployFailed"]
      <4>1. Become(p, t)
        BY <3>1 DEF End
      <4>2. /\ t \in ProcessRecords /\ t.pc = "ended" /\ t.at = s.at
            /\ t.id = s.id /\ t.command = s.command /\ t.done = s.done
        BY <1>1 DEF ProcessRecords, PCs, Outcomes
      <4> HIDE DEF t
      <4>3. Sane(t) /\ Follows(s, t) /\ ~Compensating(t)
        BY <2>4, <4>2 DEF Sane, Follows, Compensating, Forward, IsSaving
      <4>4. QED
        BY <2>6, <4>1, <4>3
    <3>2. CASE Persist(p, s, "failed")
      <4> DEFINE t == [s EXCEPT !.pc = "saving", !.status = "failed"]
      <4>1. Become(p, t)
        BY <3>2 DEF Persist
      <4>2. /\ t \in ProcessRecords /\ t.pc = "saving" /\ t.status = "failed" /\ t.at = s.at
            /\ t.id = s.id /\ t.command = s.command /\ t.done = s.done
        BY <1>1 DEF ProcessRecords, PCs, Statuses
      <4> HIDE DEF t
      <4>3. Sane(t)
        BY <1>2, <2>1, <4>2 DEF Sane, Forward, IsSaving, Statuses
      <4>4. Follows(s, t) /\ ~Compensating(t)
        BY <4>2 DEF Follows, Compensating, Forward, IsSaving
      <4>5. QED
        BY <2>6, <4>1, <4>3, <4>4
    <3>3. QED
      BY <2>9, <3>1, <3>2 DEF CompensationEnds
  <2>10. QED
    BY <1>3, <2>7, <2>8, <2>9 DEF UndoIt
<1>4. ASSUME UndoesNothing(p)
      PROVE  IInv'
  <2> DEFINE t == [s EXCEPT !.at = s.at - 1]
  <2>1. /\ s.pc = "undoing" /\ s.at \in 1 .. Len(saga) /\ UndoIts[saga[s.at]] = <<>>
        /\ Become(p, t)
    BY <1>1, <1>4 DEF UndoesNothing, HasCalls, CallsOf, At
  <2>2. s.call = 1
    BY <1>1, <2>1 DEF Sane
  <2>3. /\ t \in ProcessRecords /\ t.pc = "undoing" /\ t.status = s.status /\ t.at = s.at - 1
        /\ t.id = s.id /\ t.command = s.command /\ t.done = s.done /\ t.call = 1
    <3>1. s.at - 1 \in 0 .. LastNode + 1
      BY <1>1, <2>1 DEF LastNode
    <3>2. QED
      BY <1>1, <2>1, <2>2, <3>1 DEF ProcessRecords
  <2> HIDE DEF t
  <2>4. ASSUME t.at \in ActionNodes, UndoIts[saga[t.at]] # <<>>
        PROVE  1 \in DOMAIN UndoIts[saga[t.at]]
    BY <1>1, <2>4, FirstCall
  <2>5. Sane(t)
    BY <1>1, <1>2, <2>1, <2>3, <2>4 DEF Sane, IsSaving, Forward
  <2>6. GoneBehind(t, cloud)
    <3>1. \A x \in Things : GoneAt[x] \in Nat /\ GoneAt[x] # s.at
      <4>1. EndWith(UndoIts[saga[s.at]], s.at)
        BY <1>1, <2>1, NodeCalls
      <4>2. QED
        BY <2>1, <4>1, WhatIsMade DEF EndWith
    <3>2. QED
      BY <1>2, <2>1, <2>3, <3>1 DEF GoneBehind
  <2>7. Follows(s, t) /\ WritesOwn(p) /\ MakesOwn(p)
    BY <1>4, <2>3 DEF UndoesNothing, Follows, Forward, IsSaving, WritesOwn, MakesOwn
  <2>8. QED
    BY <1>1, <1>4, <2>1, <2>5, <2>6, <2>7, OneStep DEF UndoesNothing
<1>5. ASSUME AllUndone(p)
      PROVE  IInv'
  <2>1. s.pc = "undoing" /\ s.at = 0 /\ WritesOwn(p) /\ MakesOwn(p)
    BY <1>5 DEF AllUndone, At, WritesOwn, MakesOwn
  <2>2. ASSUME NEW t, Become(p, t), Sane(t), Follows(s, t), GoneBehind(t, cloud)
        PROVE  IInv'
    BY <1>1, <1>5, <2>1, <2>2, OneStep DEF AllUndone
  <2>3. CASE End(p, "deployFailed")
    <3> DEFINE t == [s EXCEPT !.pc = "ended", !.outcome = "deployFailed"]
    <3>1. Become(p, t)
      BY <2>3 DEF End
    <3>2. /\ t \in ProcessRecords /\ t.pc = "ended" /\ t.at = s.at
          /\ t.id = s.id /\ t.command = s.command /\ t.done = s.done
      BY <1>1 DEF ProcessRecords, PCs, Outcomes
    <3> HIDE DEF t
    <3>3. Sane(t) /\ Follows(s, t)
      BY <3>2 DEF Sane, Follows, Forward, IsSaving
    <3>4. GoneBehind(t, cloud)
      BY <1>2, <2>1, <3>2 DEF GoneBehind
    <3>5. QED
      BY <2>2, <3>1, <3>3, <3>4
  <2>4. CASE Persist(p, s, "rolled_back")
    <3> DEFINE t == [s EXCEPT !.pc = "saving", !.status = "rolled_back"]
    <3>1. Become(p, t)
      BY <2>4 DEF Persist
    <3>2. /\ t \in ProcessRecords /\ t.pc = "saving" /\ t.status = "rolled_back" /\ t.at = s.at
          /\ t.id = s.id /\ t.command = s.command /\ t.done = s.done
      BY <1>1 DEF ProcessRecords, PCs, Statuses
    <3> HIDE DEF t
    <3>3. Sane(t)
      BY <1>2, <2>1, <3>2 DEF Sane, Forward, IsSaving, Statuses
    <3>4. Follows(s, t)
      BY <3>2 DEF Follows, Forward, IsSaving
    <3>5. GoneBehind(t, cloud)
      BY <1>2, <2>1, <3>2 DEF GoneBehind
    <3>6. QED
      BY <2>2, <3>1, <3>3, <3>4, <3>5
  <2>5. QED
    BY <1>5, <2>3, <2>4 DEF AllUndone, CompensationEnds
<1>6. QED
  BY <1>3, <1>4, <1>5

----------------------------------------------------------------------------
(* The other steps *)

\* A kill leaves what the last call may have made.
LEMMA KillStep ==
  ASSUME IInv, NEW p \in Processes, Kill(p)
  PROVE  IInv'
<1> DEFINE s == proc[p]
           t == [s EXCEPT !.pc = "ended", !.outcome = "killed"]
<1>1. /\ Sane(s) /\ s \in ProcessRecords /\ disturbed \in BOOLEAN
  BY SaneOf
<1>2. Become(p, t) /\ mishaps' \in 0 .. MaxMishaps /\ UNCHANGED <<saga, deploys>>
  BY MishapBounded DEF Kill, End
<1>3. disturbed' \in BOOLEAN
  BY <1>1 DEF Kill, At
<1>4. /\ t \in ProcessRecords /\ t.pc = "ended" /\ t.outcome = "killed"
      /\ t.id = s.id /\ t.command = s.command /\ t.done = s.done
  BY <1>1 DEF ProcessRecords, PCs, Outcomes
<1> HIDE DEF t
<1>5. Sane(t) /\ Follows(s, t) /\ ~Compensating(t)
  BY <1>4 DEF Sane, Follows, Compensating, Forward, IsSaving
<1>6. WritesOwn(p) /\ file' \in {file, NoFile, TornFile}
  BY DEF Kill, WritesOwn
<1>7. MakesOwn(p)
  <2>1. CASE cloud' = cloud
    BY <2>1, MakesNothing
  <2>2. CASE (At(p, "doing") \/ At(p, "undoing")) /\ HasCalls(p) /\ cloud' = After(p)
    <3>1. cloud' \ cloud \subseteq Of(p, CurrentCall(p).makes)
      BY <2>2 DEF After
    <3>2. CASE At(p, "doing")
      BY <2>2, <3>1, <3>2, DoItMakes DEF At, HasCalls
    <3>3. CASE At(p, "undoing")
      BY <2>2, <3>1, <3>3, UndoItMakes DEF At
    <3>4. QED
      BY <2>2, <3>2, <3>3
  <2>3. QED
    BY <2>1, <2>2 DEF Kill
<1>8. QED
  BY <1>2, <1>3, <1>5, <1>6, <1>7, OneStep

\* The record of a process that runs no command.
LEMMA NotRunningRecord ==
  ASSUME Len(saga) \in {4, 7}
  PROVE  /\ NotRunning \in ProcessRecords /\ NotRunning.pc = "ended" /\ NotRunning.command = "none"
         /\ NotRunning.id = 0 /\ NotRunning.at = 0 /\ NotRunning.done = 0 /\ NotRunning.call = 1
         /\ NotRunning.outcome = "none"
BY DEF NotRunning, ProcessRecords, PCs, Statuses, Outcomes, LastNode

\* A command that is refused changes its own process only.
LEMMA RefusalStep ==
  ASSUME IInv, NEW p \in Processes, UNCHANGED <<saga, cloud, file, deploys>>,
         mishaps' \in 0 .. MaxMishaps,
         NEW outcome \in {"exists", "noConfig", "notLoaded", "alreadyRolledBack", "destroyFailed"},
         Refuses(p, outcome)
  PROVE  IInv'
<1> DEFINE t == [NotRunning EXCEPT !.outcome = outcome]
<1>1. Become(p, t) /\ UNCHANGED disturbed
  BY DEF Refuses
<1>2. deploys \in 0 .. MaxDeploys /\ disturbed \in BOOLEAN /\ Len(saga) \in {4, 7}
  BY SaneOf
<1>3. /\ t \in ProcessRecords /\ t.pc = "ended" /\ t.outcome = outcome
      /\ t.id = 0 /\ t.command = "none" /\ t.done = 0
  BY <1>2 DEF NotRunning, ProcessRecords, PCs, Statuses, Outcomes, LastNode
<1> HIDE DEF t
<1>4. Sane(t) /\ ~Compensating(t) /\ ~Forward(t)
  BY <1>3 DEF Sane, Compensating, Forward, IsSaving
<1>5. \A q \in Processes : t.done <= proc[q].done
  BY <1>3, SaneOf
<1>6. QED
  BY <1>1, <1>2, <1>3, <1>4, <1>5, NewCommand

\* A deploy begins with an id of its own.
LEMMA DeployStep ==
  ASSUME IInv, NEW p \in Processes, Deploy(p)
  PROVE  IInv'
<1>1. /\ deploys \in 0 .. MaxDeploys /\ disturbed \in BOOLEAN /\ Len(saga) \in {4, 7}
      /\ mishaps \in 0 .. MaxMishaps
  BY SaneOf
<1>2. CASE Refuses(p, "exists") /\ UNCHANGED <<deploys, mishaps>>
  BY <1>1, <1>2, RefusalStep DEF Deploy
<1>3. CASE Mishap /\ Refuses(p, "noConfig") /\ UNCHANGED deploys
  BY <1>3, MishapBounded, RefusalStep DEF Deploy
<1>4. CASE StartsDeploy(p)
  <2> USE DEF StartsDeploy
  <2> DEFINE t == [NotRunning EXCEPT !.pc = "saving", !.command = "deploy",
                                     !.id = deploys', !.status = "running"]
  <2>1. Become(p, t)
    BY <1>4 DEF Starts
  <2>2. disturbed' \in BOOLEAN
    BY <1>1, <1>4 DEF Starts
  <2>3. deploys' = deploys + 1 /\ deploys' \in 1 .. MaxDeploys /\ mishaps' \in 0 .. MaxMishaps
    BY <1>1, <1>4 DEF Deploy
  <2>4. UNCHANGED <<saga, cloud, file>>
    BY DEF Deploy
  <2>5. /\ t \in ProcessRecords /\ t.pc = "saving" /\ t.status = "running" /\ t.at = 0
        /\ t.id = deploys' /\ t.command = "deploy" /\ t.done = 0 /\ t.call = 1
    <3>1. "saving" \in PCs /\ "running" \in Statuses /\ deploys' \in 0 .. MaxDeploys
      BY <2>3 DEF PCs, Statuses
    <3>2. QED
      BY <1>1, <3>1, NotRunningRecord DEF ProcessRecords
  <2> HIDE DEF t
  <2>6. Sane(t) /\ ~Compensating(t)
    BY <2>3, <2>5 DEF Sane, Compensating, Forward, IsSaving, Statuses
  <2>7. \A q \in Processes : t.done <= proc[q].done
    BY <2>5, SaneOf
  <2>8. deploys' \in {deploys, deploys + 1} /\ deploys' <= MaxDeploys /\ t.id <= deploys'
    BY <2>3, <2>5
  <2>9. QED
    BY <2>1, <2>2, <2>3, <2>4, <2>5, <2>6, <2>7, <2>8, NewCommand
<1>5. QED
  BY <1>2, <1>3, <1>4 DEF Deploy

\* A destroy begins with what the file knows of its id.
LEMMA DestroyStep ==
  ASSUME IInv, NEW p \in Processes, Destroy(p)
  PROVE  IInv'
<1>1. /\ deploys \in 0 .. MaxDeploys /\ disturbed \in BOOLEAN /\ Len(saga) \in {4, 7}
      /\ mishaps \in 0 .. MaxMishaps
  BY SaneOf
<1>2. UNCHANGED <<saga, cloud, file, deploys>>
  BY DEF Destroy
<1>3. CASE \E outcome \in {"notLoaded", "alreadyRolledBack", "noConfig", "destroyFailed"} :
             Refuses(p, outcome) /\ (Mishap \/ UNCHANGED mishaps)
  BY <1>1, <1>2, <1>3, MishapBounded, RefusalStep
<1>4. CASE /\ Readable(file) /\ file.done > 0 /\ UNCHANGED mishaps
           /\ Starts(p, [NotRunning EXCEPT !.pc = "saving", !.command = "destroy",
                          !.id = file.id, !.done = file.done, !.status = "rolling_back"])
  <2> DEFINE t == [NotRunning EXCEPT !.pc = "saving", !.command = "destroy",
                   !.id = file.id, !.done = file.done, !.status = "rolling_back"]
  <2>1. Become(p, t)
    BY <1>4 DEF Starts
  <2>2. disturbed' \in BOOLEAN
    BY <1>1, <1>4 DEF Starts
  <2>3. file.id \in 1 .. MaxDeploys /\ file.id <= deploys /\ file.done \in 0 .. Len(saga)
    BY <1>4 DEF IInv, StateInv, Readable, Files
  <2>4. /\ t \in ProcessRecords /\ t.pc = "saving" /\ t.status = "rolling_back"
        /\ t.id = file.id /\ t.command = "destroy" /\ t.done = file.done
    <3>1. "saving" \in PCs /\ "rolling_back" \in Statuses /\ file.id \in 0 .. MaxDeploys
      BY <2>3 DEF PCs, Statuses
    <3>2. QED
      BY <1>1, <2>3, <3>1, NotRunningRecord DEF ProcessRecords
  <2> HIDE DEF t
  <2>5. Sane(t) /\ ~Compensating(t) /\ ~Forward(t)
    BY <2>3, <2>4 DEF Sane, Compensating, Forward, IsSaving, Statuses
  <2>6. \A q \in Processes : Forward(proc[q]) /\ proc[q].id = t.id => t.done <= proc[q].done
    BY <1>4, <2>4 DEF IInv, AheadInv
  <2>7. QED
    BY <1>1, <1>2, <1>4, <2>1, <2>2, <2>3, <2>4, <2>5, <2>6, NewCommand
<1>5. QED
  BY <1>3, <1>4 DEF Destroy

\* An instance that ends takes from the cloud.
LEMMA TerminationStep ==
  ASSUME IInv, NEW id, InstanceTerminates(id)
  PROVE  IInv'
<1>1. cloud' \subseteq cloud /\ UNCHANGED <<saga, file, proc, deploys, mishaps, disturbed>>
  BY DEF InstanceTerminates
<1>2. StateInv'
  BY <1>1 DEF IInv, StateInv, Files, Readable, Sane, ProcessRecords, ActionNodes, LastNode
<1>3. CloudInv'
  BY <1>1 DEF IInv, CloudInv, Kinds, MadeBy, ActionNodes
<1>4. AheadInv' /\ GoneInv'
  BY <1>1, NodesStay DEF IInv, AheadInv, GoneInv, GoneBehind, Readable
<1>5. QED
  BY <1>2, <1>3, <1>4 DEF IInv

\* A step that changes nothing.
LEMMA StutteringStep ==
  ASSUME IInv, UNCHANGED vars
  PROVE  IInv'
<1>1. cloud' = cloud /\ UNCHANGED <<saga, file, proc, deploys, mishaps, disturbed>>
  BY DEF vars
<1>2. StateInv'
  BY <1>1 DEF IInv, StateInv, Files, Readable, Sane, ProcessRecords, ActionNodes, LastNode
<1>3. CloudInv'
  BY <1>1 DEF IInv, CloudInv, Kinds, MadeBy, ActionNodes
<1>4. AheadInv' /\ GoneInv'
  BY <1>1, NodesStay DEF IInv, AheadInv, GoneInv, GoneBehind, Readable
<1>5. QED
  BY <1>2, <1>3, <1>4 DEF IInv

\* The invariant holds when nothing was deployed yet.
LEMMA InitIInv == Init => IInv
<1> SUFFICES ASSUME Init
             PROVE  IInv
  OBVIOUS
<1>1. Len(saga) \in {4, 7} /\ \A p \in Processes : proc[p] = NotRunning
  BY SagaShape DEF Init
<1>2. NotRunning.command = "none" /\ NotRunning.id = 0
  BY <1>1, NotRunningRecord
<1>3. Sane(NotRunning) /\ ~Forward(NotRunning) /\ ~Compensating(NotRunning)
  BY <1>1, NotRunningRecord DEF Sane, Forward, Compensating, IsSaving
<1>4. StateInv
  <2>1. deploys \in 0 .. MaxDeploys /\ mishaps \in 0 .. MaxMishaps /\ deploys = 0
    BY DEF Init
  <2>2. \A p \in Processes : Sane(proc[p]) /\ proc[p].id <= deploys
    BY <1>1, <1>2, <1>3, <2>1
  <2>3. DOMAIN proc = Processes /\ proc = [p \in Processes |-> proc[p]]
    BY DEF Init
  <2>4. saga \in Sagas /\ disturbed \in BOOLEAN /\ file = NoFile
    BY DEF Init
  <2>5. QED
    BY <2>1, <2>2, <2>3, <2>4 DEF StateInv, Readable
<1>5. CloudInv /\ AheadInv /\ GoneInv
  BY <1>1, <1>2, <1>3 DEF Init, CloudInv, AheadInv, GoneInv
<1>6. QED
  BY <1>4, <1>5 DEF IInv

\* Every step keeps it.
LEMMA NextIInv == IInv /\ [Next]_vars => IInv'
<1> SUFFICES ASSUME IInv, [Next]_vars
             PROVE  IInv'
  OBVIOUS
<1>1. CASE UNCHANGED vars
  BY <1>1, StutteringStep
<1>2. ASSUME NEW p \in Processes, Deploy(p) \/ Destroy(p) \/ Kill(p)
      PROVE  IInv'
  BY <1>2, DeployStep, DestroyStep, KillStep
<1>3. ASSUME NEW p \in Processes, Running(p)
      PROVE  IInv'
  BY <1>3, SaveSteps, CompensationSteps, DoingSteps, UndoingSteps DEF Running
<1>4. ASSUME NEW id \in 1 .. deploys, InstanceTerminates(id)
      PROVE  IInv'
  BY <1>4, TerminationStep
<1>5. QED
  BY <1>1, <1>2, <1>3, <1>4 DEF Next

----------------------------------------------------------------------------
(* The theorems *)

\* A command that runs has no outcome yet.
NoOutcomeYet == \A p \in Processes : ~At(p, "ended") => proc[p].outcome = "none"

\* An outcome comes with a command's end.
LEMMA NextNoOutcomeYet ==
  ASSUME IInv, NoOutcomeYet, [Next]_vars
  PROVE  NoOutcomeYet'
<1>1. ASSUME NEW p \in Processes, NEW t, Become(p, t),
             t.pc = "ended" \/ t.outcome = "none" \/ (~At(p, "ended") /\ t.outcome = proc[p].outcome)
      PROVE  NoOutcomeYet'
  BY <1>1, OthersKept DEF IInv, NoOutcomeYet, At
<1>2. CASE UNCHANGED proc
  BY <1>2 DEF NoOutcomeYet, At
<1>3. ASSUME NEW p \in Processes, Deploy(p) \/ Destroy(p) \/ Kill(p) \/ Running(p)
      PROVE  NoOutcomeYet'
  <2> DEFINE s == proc[p]
  <2>1. s \in ProcessRecords
    BY SaneOf
  <2>2. NotRunning.outcome = "none" /\ NotRunning.pc = "ended"
    BY DEF NotRunning
  <2>3. ASSUME NEW outcome, Refuses(p, outcome)
        PROVE  NoOutcomeYet'
    BY <2>3, <1>1, <2>2 DEF Refuses, NotRunning
  <2>4. ASSUME NEW outcome, End(p, outcome)
        PROVE  NoOutcomeYet'
    BY <2>4, <1>1, <2>1 DEF End, ProcessRecords
  <2>5. CASE Deploy(p)
    BY <2>5, <1>1, <2>3 DEF Deploy, StartsDeploy, Starts, NotRunning
  <2>6. CASE Destroy(p)
    BY <2>6, <1>1, <2>3 DEF Destroy, Starts, NotRunning
  <2>7. CASE Kill(p)
    BY <2>7, <2>4 DEF Kill
  <2>8. CASE Truncate(p) \/ ExecuteBegins(p) \/ NodeSaved(p) \/ CompletionSaved(p)
    BY <2>8, <1>1, <2>1, <2>4 DEF Truncate, ExecuteBegins, NodeSaved, CompletionSaved, Saving, Goto,
       Persist, At, ProcessRecords
  <2>9. CASE CompensationBegins(p) \/ RollbackSaved(p) \/ Delete(p)
    BY <2>9, <1>1, <2>1, <2>4 DEF CompensationBegins, RollbackSaved, Delete, Saving, Goto, At,
       ProcessRecords
  <2>10. CASE SkipNode(p) \/ DoIt(p)
    BY <2>10, <1>1, <2>1 DEF SkipNode, DoIt, NextCall, Persist, At, ProcessRecords
  <2>11. CASE UndoIt(p) \/ UndoesNothing(p) \/ AllUndone(p)
    BY <2>11, <1>1, <2>1, <2>4 DEF UndoIt, UndoesNothing, AllUndone, CompensationEnds, NextCall, Persist,
       At, ProcessRecords
  <2>12. QED
    BY <1>3, <2>5, <2>6, <2>7, <2>8, <2>9, <2>10, <2>11 DEF Running
<1>4. QED
  BY <1>2, <1>3 DEF Next, InstanceTerminates, vars

\* What no step takes back.
LEMMA NeverBack ==
  ASSUME IInv, [Next]_vars
  PROVE  /\ UNCHANGED saga /\ deploys' \in {deploys, deploys + 1} /\ mishaps' \in {mishaps, mishaps + 1}
         /\ ~disturbed' => ~disturbed
<1>1. CASE UNCHANGED vars
  BY <1>1 DEF vars
<1>2. ASSUME NEW p \in Processes, Save(p)
      PROVE  UNCHANGED <<saga, deploys>> /\ mishaps' \in {mishaps, mishaps + 1} /\ (~disturbed' => ~disturbed)
  BY <1>2 DEF Save, SaveSucceeds, SaveFails, Mishap
<1>3. ASSUME NEW p \in Processes, Running(p)
      PROVE  UNCHANGED <<saga, deploys>> /\ mishaps' \in {mishaps, mishaps + 1} /\ (~disturbed' => ~disturbed)
  <2>1. CASE DoIt(p) \/ UndoIt(p)
    BY <2>1 DEF DoIt, UndoIt, Answered, Failing, Mishap
  <2>2. CASE Truncate(p) \/ Delete(p) \/ SkipNode(p) \/ UndoesNothing(p) \/ AllUndone(p)
    BY <2>2 DEF Truncate, Delete, SkipNode, UndoesNothing, AllUndone, Mishap
  <2>3. CASE ExecuteBegins(p) \/ NodeSaved(p) \/ CompletionSaved(p) \/ CompensationBegins(p)
             \/ RollbackSaved(p)
    BY <2>3, <1>2 DEF ExecuteBegins, NodeSaved, CompletionSaved, CompensationBegins, RollbackSaved, Save
  <2>4. QED
    BY <1>3, <2>1, <2>2, <2>3 DEF Running
<1>4. ASSUME NEW p \in Processes, Deploy(p) \/ Destroy(p) \/ Kill(p)
      PROVE  /\ UNCHANGED saga /\ deploys' \in {deploys, deploys + 1}
             /\ mishaps' \in {mishaps, mishaps + 1} /\ (~disturbed' => ~disturbed)
  <2>1. UNCHANGED saga /\ deploys' \in {deploys, deploys + 1} /\ mishaps' \in {mishaps, mishaps + 1}
    BY <1>4 DEF Deploy, StartsDeploy, Destroy, Kill, Mishap
  <2>2. UNCHANGED disturbed \/ \E b \in BOOLEAN : disturbed' = (disturbed \/ b)
    BY <1>4 DEF Deploy, StartsDeploy, Destroy, Kill, Refuses, Starts, At
  <2>3. QED
    BY <2>1, <2>2 DEF IInv, StateInv
<1>5. ASSUME NEW id \in 1 .. deploys, InstanceTerminates(id)
      PROVE  UNCHANGED <<saga, deploys, mishaps, disturbed>>
  BY <1>5 DEF InstanceTerminates
<1>6. QED
  BY <1>1, <1>3, <1>4, <1>5 DEF Next

\* What was on file when a deploy could not read it is of actions of deploys.
UnreadInv == unread \subseteq ActionNodes \X (1 .. MaxDeploys)

\* Only a deploy adds to it.
LEMMA UnreadGrows ==
  ASSUME [Next]_vars
  PROVE  UNCHANGED unread \/ (Readable(file) /\ unread' = unread \cup OnRecord(file))
<1>1. CASE UNCHANGED vars
  BY <1>1 DEF vars
<1>2. ASSUME NEW p \in Processes, Deploy(p) \/ Destroy(p) \/ Kill(p)
      PROVE  UNCHANGED unread \/ (Readable(file) /\ unread' = unread \cup OnRecord(file))
  BY <1>2 DEF Deploy, Destroy, Kill
<1>3. ASSUME NEW p \in Processes, Running(p)
      PROVE  UNCHANGED unread
  BY <1>3 DEF Running, Truncate, ExecuteBegins, NodeSaved, CompletionSaved, CompensationBegins,
     RollbackSaved, Save, SaveSucceeds, SaveFails, Delete, SkipNode, DoIt, UndoIt, UndoesNothing, AllUndone
<1>4. ASSUME NEW id \in 1 .. deploys, InstanceTerminates(id)
      PROVE  UNCHANGED unread
  BY <1>4 DEF InstanceTerminates
<1>5. QED
  BY <1>1, <1>2, <1>3, <1>4 DEF Next

\* And what it adds was on file.
LEMMA NextUnreadInv ==
  ASSUME IInv, UnreadInv, [Next]_vars
  PROVE  UnreadInv'
<1>1. ActionNodes' = ActionNodes
  BY NeverBack DEF ActionNodes
<1>2. CASE UNCHANGED unread
  BY <1>1, <1>2 DEF UnreadInv
<1>3. CASE Readable(file) /\ unread' = unread \cup OnRecord(file)
  <2>1. file.id \in 1 .. MaxDeploys /\ file.done \in 0 .. Len(saga) /\ ActionNodes = 1 .. Len(saga)
        /\ Len(saga) \in Nat
    BY <1>3, SagaShape DEF IInv, StateInv, Readable, Files
  <2>2. OnRecord(file) \subseteq ActionNodes \X (1 .. MaxDeploys)
    BY <2>1 DEF OnRecord
  <2>3. QED
    BY <1>1, <1>3, <2>2 DEF UnreadInv
<1>4. QED
  BY <1>2, <1>3, UnreadGrows

\* They hold always.
LEMMA Invariance == Spec => [](IInv /\ NoOutcomeYet /\ UnreadInv)
<1>1. Init => NoOutcomeYet
  BY DEF Init, NoOutcomeYet, NotRunning
<1>2. Init => UnreadInv
  BY DEF Init, UnreadInv
<1>3. QED
  BY <1>1, <1>2, InitIInv, NextIInv, NextNoOutcomeYet, NextUnreadInv, PTL DEF Spec

\* The types hold, and the call a process is at exists, however many processes run
\* deploy and destroy beside each other and whenever they fail or are killed.
THEOREM AwsTypes == Spec => []TypeOK
<1>1. ASSUME IInv, UnreadInv
      PROVE  TypeOK
  <2>1. proc \in [Processes -> ProcessRecords]
    BY <1>1, SaneOf DEF IInv, StateInv
  <2>2. ASSUME NEW p \in Processes, At(p, "doing") \/ At(p, "undoing"), HasCalls(p)
        PROVE  proc[p].call \in DOMAIN CallsOf(p)
    BY <1>1, <2>2, SaneOf DEF Sane, At, HasCalls, CallsOf
  <2>3. QED
    BY <1>1, <2>1, <2>2 DEF IInv, StateInv, CloudInv, UnreadInv, Files, ProcessRecords, TypeOK
<1>2. QED
  BY <1>1, Invariance, PTL

\* A destroy that reports success, and a failed deploy whose compensation came to its
\* end, have removed all that the completed actions made, whatever else deploys,
\* destroys, fails or is killed beside them.
THEOREM UndoneIsGone == Spec => []UndoneMeansGone
<1>1. ASSUME IInv, NoOutcomeYet
      PROVE  UndoneMeansGone
  <2>1. SUFFICES ASSUME NEW p \in Processes,
                        proc[p].outcome \in {"destroyed", "deployFailed"}, proc[p].at = 0,
                        NEW node \in 1 .. proc[p].done, NEW x \in MadeBy(node)
                 PROVE  <<x, proc[p].id>> \notin cloud
    BY DEF UndoneMeansGone, Results
  <2>2. proc[p].pc = "ended"
    BY <1>1, <2>1 DEF NoOutcomeYet, At
  <2>3. GoneBehind(proc[p], cloud)
    BY <1>1, <2>1, <2>2 DEF IInv, GoneInv, Compensating
  <2>4. node \in ActionNodes /\ saga \in Sagas /\ node <= proc[p].done
    BY <1>1, SaneOf
  <2>5. x \in Things /\ MadeAt[x] = node
    BY <2>4, MadeThings
  <2>6. 0 < GoneAt[x]
    BY <2>5, WhatIsMade
  <2>7. QED
    BY <2>1, <2>3, <2>4, <2>5, <2>6 DEF GoneBehind
<1>2. QED
  BY <1>1, Invariance, PTL
----------------------------------------------------------------------------
(* Instances that end later *)

\* A compensation that has asked for the instance's end.
AskedForEnd(s) == s.pc = "undoing" /\ (s.at < InstanceNode \/ (s.at = InstanceNode /\ s.call = 2))

\* Of an instance whose end was asked for, nothing remains that does not end.
EndingInv ==
  \A p \in Processes : AskedForEnd(proc[p]) =>
    \A x \in {"instance", "membership"} :
      MadeAt[x] <= proc[p].done /\ <<x, proc[p].id>> \in cloud =>
        <<"terminating", proc[p].id>> \in cloud

\* A process at a call: the call is one of its action's, and what the cloud is after it.
LEMMA CallMade ==
  ASSUME IInv, NEW p \in Processes, At(p, "doing") \/ At(p, "undoing"), HasCalls(p)
  PROVE  /\ proc[p].at \in 1 .. 7 /\ CurrentCall(p) = CallsOf(p)[proc[p].call]
         /\ proc[p].call \in DOMAIN CallsOf(p)
         /\ At(p, "doing") => MakeOnly(CallsOf(p), proc[p].at)
         /\ At(p, "undoing") => EndWith(CallsOf(p), proc[p].at)
<1>1. saga \in Sagas /\ proc[p].at \in ActionNodes /\ Sane(proc[p])
  BY SaneOf DEF HasCalls
<1>2. proc[p].at \in 1 .. 7
  BY <1>1, SagaShape
<1>3. CASE At(p, "doing")
  <2>1. CallsOf(p) = DoIts[saga[proc[p].at]] /\ ~At(p, "undoing")
    BY <1>3 DEF CallsOf, At
  <2>2. MakeOnly(DoIts[saga[proc[p].at]], proc[p].at)
    BY <1>1, NodeCalls
  <2>3. proc[p].call \in DOMAIN DoIts[saga[proc[p].at]]
    BY <1>1, <1>3 DEF Sane, At
  <2>4. QED
    BY <1>2, <2>1, <2>2, <2>3 DEF CurrentCall
<1>4. CASE At(p, "undoing")
  <2>1. CallsOf(p) = UndoIts[saga[proc[p].at]] /\ ~At(p, "doing")
    BY <1>4 DEF CallsOf, At
  <2>2. EndWith(UndoIts[saga[proc[p].at]], proc[p].at)
    BY <1>1, NodeCalls
  <2>3. UndoIts[saga[proc[p].at]] # <<>>
    BY <2>1 DEF HasCalls
  <2>4. proc[p].call \in DOMAIN UndoIts[saga[proc[p].at]]
    BY <1>1, <1>4, <2>3 DEF Sane, At
  <2>5. QED
    BY <1>2, <2>1, <2>2, <2>4 DEF CurrentCall
<1>5. QED
  BY <1>3, <1>4

\* A step leaves the cloud alone, is the end of an instance, or is a call of a process.
LEMMA CloudSteps ==
  ASSUME IInv, [Next]_vars
  PROVE  \/ cloud' = cloud
         \/ \E id \in 1 .. deploys : InstanceTerminates(id)
         \/ \E p \in Processes :
              /\ At(p, "doing") \/ At(p, "undoing")
              /\ HasCalls(p) /\ cloud' \in {cloud, After(p)}
<1>1. CASE UNCHANGED vars
  BY <1>1 DEF vars
<1>2. ASSUME NEW p \in Processes, DoIt(p) \/ UndoIt(p) \/ Kill(p), cloud' # cloud
      PROVE  /\ At(p, "doing") \/ At(p, "undoing")
             /\ HasCalls(p) /\ cloud' \in {cloud, After(p)}
  <2>1. CASE DoIt(p)
    <3>1. At(p, "doing") /\ proc[p].at \in ActionNodes /\ (Answered(p) \/ Failing(p))
      BY <2>1 DEF DoIt
    <3>2. cloud' \in {cloud, After(p)}
      BY <3>1 DEF Answered, Failing
    <3>3. CallsOf(p) = DoIts[saga[proc[p].at]] /\ 1 \in DOMAIN DoIts[saga[proc[p].at]]
      BY <3>1, SaneOf, FirstCall DEF CallsOf
    <3>4. CallsOf(p) # <<>>
      BY <3>3
    <3>5. QED
      BY <3>1, <3>2, <3>4 DEF HasCalls
  <2>2. CASE UndoIt(p)
    BY <2>2 DEF UndoIt, Answered, Failing
  <2>3. CASE Kill(p)
    BY <1>2, <2>3 DEF Kill
  <2>4. QED
    BY <1>2, <2>1, <2>2, <2>3
<1>3. ASSUME NEW p \in Processes, Deploy(p) \/ Destroy(p) \/ Running(p) \/ Kill(p)
      PROVE  cloud' = cloud \/ DoIt(p) \/ UndoIt(p) \/ Kill(p)
  BY <1>3 DEF Deploy, Destroy, Running, Truncate, ExecuteBegins, NodeSaved, CompletionSaved,
     CompensationBegins, RollbackSaved, Delete, SkipNode, UndoesNothing, AllUndone, Save,
     SaveSucceeds, SaveFails
<1>4. QED
  BY <1>1, <1>2, <1>3 DEF Next

\* Nothing of an action that a process knows to be done comes back.
LEMMA PastStaysGone ==
  ASSUME IInv, [Next]_vars, NEW q \in Processes, NEW x \in Things, MadeAt[x] <= proc[q].done,
         <<x, proc[q].id>> \in cloud'
  PROVE  <<x, proc[q].id>> \in cloud
<1>1. CASE cloud' \subseteq cloud
  BY <1>1
<1>2. ASSUME NEW p \in Processes, At(p, "doing") \/ At(p, "undoing"), HasCalls(p), cloud' = After(p)
      PROVE  <<x, proc[q].id>> \in cloud
  <2>1. cloud' \ cloud \subseteq Of(p, CurrentCall(p).makes)
    BY <1>2 DEF After
  <2>2. CASE At(p, "doing")
    BY <1>2, <2>1, <2>2, DoItMakes, MakesNotDone DEF At, HasCalls
  <2>3. CASE At(p, "undoing")
    BY <1>2, <2>1, <2>3, UndoItMakes, MakesNotDone DEF At
  <2>4. QED
    BY <1>2, <2>2, <2>3
<1>3. CASE \E id \in 1 .. deploys : InstanceTerminates(id)
  BY <1>1, <1>3 DEF InstanceTerminates
<1>4. QED
  BY <1>1, <1>2, <1>3, CloudSteps

\* With an instance's end, the instance and its membership are over.
LEMMA EndTogether ==
  ASSUME IInv, [Next]_vars, NEW id, <<"terminating", id>> \in cloud, <<"terminating", id>> \notin cloud',
         NEW x \in {"instance", "membership"}
  PROVE  <<x, id>> \notin cloud'
<1>1. ASSUME NEW other \in 1 .. deploys, InstanceTerminates(other)
      PROVE  <<x, id>> \notin cloud'
  BY <1>1 DEF InstanceTerminates, OfInstance
<1>2. ASSUME NEW p \in Processes, At(p, "doing") \/ At(p, "undoing"), HasCalls(p), cloud' = After(p)
      PROVE  <<x, id>> \notin cloud'
  <2>1. <<"terminating", id>> \in Of(p, CurrentCall(p).removes)
    BY <1>2 DEF After
  <2>2. "terminating" \in CurrentCall(p).removes /\ id = proc[p].id
    BY <2>1 DEF Of
  <2>3. x \in CurrentCall(p).removes
    BY <1>2, <2>2, CallMade DEF MakeOnly, EndWith
  <2>4. <<x, id>> \in Of(p, CurrentCall(p).removes)
    BY <2>2, <2>3 DEF Of
  <2>5. QED
    BY <1>2, <2>4 DEF After
<1>3. QED
  BY <1>1, <1>2, CloudSteps

\* The calls by which an instance is ended.
LEMMA TerminateCalls ==
  ASSUME saga \in Sagas, InstanceNode \in ActionNodes
  PROVE  /\ UndoIts[saga[InstanceNode]] # <<>> /\ DOMAIN UndoIts[saga[InstanceNode]] = 1 .. 2
         /\ Len(UndoIts[saga[InstanceNode]]) = 2
         /\ UndoIts[saga[InstanceNode]][1].makes = {"terminating"}
         /\ UndoIts[saga[InstanceNode]][1].removes = {}
         /\ ~UndoIts[saga[InstanceNode]][1].warnOnly
         /\ \A i \in 1 .. 2 : UndoIts[saga[InstanceNode]][i].blockers = {}
<1>1. UndoIts[saga[InstanceNode]] = TerminateInstance
  BY SagaShape, ActionsOf
<1>2. QED
  BY <1>1 DEF TerminateInstance, Call, Tolerated, Removal

\* Each step of a process is one assignment to it.
LEMMA StepsBecome ==
  ASSUME NEW p \in Processes, Deploy(p) \/ Destroy(p) \/ Running(p) \/ Kill(p)
  PROVE  \E t : Become(p, t)
<1>1. CASE Deploy(p)
  BY <1>1 DEF Deploy, StartsDeploy, Refuses, Starts
<1>2. CASE Destroy(p)
  BY <1>2 DEF Destroy, Refuses, Starts
<1>3. CASE Kill(p) \/ Delete(p) \/ Truncate(p) \/ CompensationBegins(p) \/ CompletionSaved(p)
  BY <1>3 DEF Kill, Delete, Truncate, CompensationBegins, CompletionSaved, End, Goto
<1>4. CASE ExecuteBegins(p) \/ NodeSaved(p) \/ RollbackSaved(p)
  BY <1>4 DEF ExecuteBegins, NodeSaved, RollbackSaved, End, Goto, Persist
<1>5. CASE SkipNode(p) \/ DoIt(p)
  BY <1>5 DEF SkipNode, DoIt, NextCall, Persist
<1>6. CASE UndoIt(p) \/ UndoesNothing(p) \/ AllUndone(p)
  BY <1>6 DEF UndoIt, UndoesNothing, AllUndone, CompensationEnds, NextCall, Persist, End
<1>7. QED
  BY <1>1, <1>2, <1>3, <1>4, <1>5, <1>6 DEF Running

\* What happens to a process happens by its own steps.
LEMMA OwnSteps ==
  ASSUME IInv, [Next]_vars, NEW p \in Processes
  PROVE  proc'[p] = proc[p] \/ Deploy(p) \/ Destroy(p) \/ Running(p) \/ Kill(p)
<1>1. CASE UNCHANGED proc
  BY <1>1
<1>2. ASSUME NEW q \in Processes, Deploy(q) \/ Destroy(q) \/ Running(q) \/ Kill(q), q # p
      PROVE  proc'[p] = proc[p]
  BY <1>2, StepsBecome, OthersKept DEF IInv
<1>3. QED
  BY <1>1, <1>2 DEF Next, vars, InstanceTerminates

\* A process is in a compensation after a step because it was, because its last save
\* before it is over, or because it goes on to the action before.
LEMMA AsksOnce ==
  ASSUME IInv, NEW p \in Processes, [Next]_vars, AskedForEnd(proc'[p])
  PROVE  \/ AskedForEnd(proc[p]) /\ proc'[p].done = proc[p].done /\ proc'[p].id = proc[p].id
         \/ proc'[p].done < InstanceNode
         \/ <<"terminating", proc'[p].id>> \in cloud'
<1> DEFINE s == proc[p]
<1>1. s \in ProcessRecords /\ Sane(s) /\ ActionNodes = 1 .. Len(saga) /\ Len(saga) \in {4, 7}
      /\ saga \in Sagas /\ s.done \in Nat /\ s.at \in Nat /\ s.call \in 1 .. 4
      /\ InstanceNode \in {5, 6}
  BY SaneOf, ServerShape DEF ProcessRecords
<1>2. CASE proc'[p] = proc[p]
  BY <1>2
<1>3. ASSUME NEW t, Become(p, t), t.pc # "undoing"
      PROVE  FALSE
  BY <1>3, OthersKept DEF IInv, AskedForEnd
<1>4. CASE CompensationBegins(p)
  <2> DEFINE t == [s EXCEPT !.pc = "undoing", !.at = s.done, !.call = 1]
  <2>1. Become(p, t)
    BY <1>4 DEF CompensationBegins
  <2>2. t.at = s.done /\ t.done = s.done /\ t.call = 1
    BY <1>1 DEF ProcessRecords
  <2> HIDE DEF t
  <2>3. proc'[p] = t
    BY <2>1, OthersKept DEF IInv
  <2>4. QED
    BY <1>1, <2>2, <2>3 DEF AskedForEnd
<1>5. CASE UndoIt(p)
  <2>1. s.pc = "undoing" /\ HasCalls(p) /\ s.at \in 1 .. Len(saga) /\ CallsOf(p) = UndoIts[saga[s.at]]
    BY <1>1, <1>5 DEF UndoIt, At, HasCalls, CallsOf
  <2>2. s.call \in DOMAIN UndoIts[saga[s.at]]
    BY <1>5, <2>1, CallMade DEF UndoIt
  <2>3. CASE NextCall(p) /\ (Answered(p) \/ (Failing(p) /\ CurrentCall(p).warnOnly))
    <3> DEFINE t == [s EXCEPT !.call = s.call + 1]
    <3>1. Become(p, t) /\ ~LastCall(p)
      BY <1>1, <2>3 DEF NextCall, Become, ProcessRecords
    <3>2. t.at = s.at /\ t.done = s.done /\ t.call = s.call + 1 /\ t.id = s.id
      BY <1>1 DEF ProcessRecords
    <3> HIDE DEF t
    <3>3. proc'[p] = t
      BY <3>1, OthersKept DEF IInv
    <3>4. CASE s.at = InstanceNode /\ s.call = 1
      <4>1. CurrentCall(p) = UndoIts[saga[InstanceNode]][1]
        BY <2>1, <3>4 DEF CurrentCall
      <4>2. /\ CurrentCall(p).makes = {"terminating"} /\ CurrentCall(p).removes = {}
            /\ ~CurrentCall(p).warnOnly
        BY <1>1, <2>1, <3>4, <4>1, TerminateCalls
      <4>3. cloud' = After(p)
        BY <2>3, <4>2 DEF Answered
      <4>4. <<"terminating", s.id>> \in cloud'
        BY <4>2, <4>3 DEF After, Of
      <4>5. QED
        BY <3>2, <3>3, <4>4
    <3>5. QED
      BY <1>1, <2>1, <3>2, <3>3, <3>4 DEF AskedForEnd
  <2>4. CASE LastCall(p) /\ Become(p, [s EXCEPT !.at = s.at - 1, !.call = 1])
    <3> DEFINE t == [s EXCEPT !.at = s.at - 1, !.call = 1]
    <3>1. t.at = s.at - 1 /\ t.done = s.done /\ t.call = 1 /\ t.id = s.id
      BY <1>1, <2>1 DEF ProcessRecords
    <3> HIDE DEF t
    <3>2. proc'[p] = t
      BY <2>4, OthersKept DEF IInv, t
    <3>3. ASSUME s.at = InstanceNode
          PROVE  s.call = 2
      BY <1>1, <2>1, <2>4, <3>3, TerminateCalls DEF LastCall
    <3>4. QED
      BY <1>1, <2>1, <3>1, <3>2, <3>3 DEF AskedForEnd
  <2>5. CASE CompensationEnds(p, "failed")
    BY <1>1, <1>3, <2>5 DEF CompensationEnds, End, Persist, ProcessRecords
  <2>6. QED
    BY <1>1, <1>5, <2>3, <2>4, <2>5 DEF UndoIt, ProcessRecords
<1>6. CASE UndoesNothing(p)
  <2> DEFINE t == [s EXCEPT !.at = s.at - 1]
  <2>1. /\ s.pc = "undoing" /\ s.at \in 1 .. Len(saga) /\ UndoIts[saga[s.at]] = <<>>
        /\ Become(p, t)
    BY <1>1, <1>6 DEF UndoesNothing, HasCalls, CallsOf, At
  <2>2. s.call = 1 /\ s.at # InstanceNode
    BY <1>1, <2>1, TerminateCalls DEF Sane
  <2>3. t.at = s.at - 1 /\ t.done = s.done /\ t.call = 1 /\ t.id = s.id
    BY <1>1, <2>1, <2>2 DEF ProcessRecords
  <2> HIDE DEF t
  <2>4. proc'[p] = t
    BY <2>1, OthersKept DEF IInv
  <2>5. QED
    BY <1>1, <2>1, <2>2, <2>3, <2>4 DEF AskedForEnd
<1>7. CASE Deploy(p) \/ Destroy(p) \/ Kill(p)
  <2>1. NotRunning.pc = "ended"
    BY DEF NotRunning
  <2>2. QED
    BY <1>1, <1>3, <1>7 DEF Deploy, StartsDeploy, Destroy, Kill, Refuses, Starts, End, NotRunning,
       ProcessRecords
<1>8. CASE Truncate(p) \/ ExecuteBegins(p) \/ NodeSaved(p) \/ CompletionSaved(p)
  BY <1>1, <1>3, <1>8 DEF Truncate, ExecuteBegins, NodeSaved, CompletionSaved, Goto, End, Persist,
     ProcessRecords
<1>9. CASE RollbackSaved(p) \/ Delete(p) \/ SkipNode(p) \/ AllUndone(p)
  BY <1>1, <1>3, <1>9 DEF RollbackSaved, Delete, SkipNode, AllUndone, CompensationEnds, Goto, End,
     Persist, ProcessRecords
<1>10. CASE DoIt(p)
  BY <1>1, <1>3, <1>10 DEF DoIt, NextCall, Persist, At, ProcessRecords
<1>11. QED
  BY <1>2, <1>4, <1>5, <1>6, <1>7, <1>8, <1>9, <1>10, OwnSteps DEF Running

\* Of an instance whose end was asked for nothing comes back, and its end is over when
\* the instance is.
LEMMA NextEndingInv ==
  ASSUME IInv, EndingInv, [Next]_vars
  PROVE  EndingInv'
<1> SUFFICES ASSUME NEW p \in Processes, AskedForEnd(proc'[p]), NEW x \in {"instance", "membership"},
                    MadeAt[x] <= proc'[p].done, <<x, proc'[p].id>> \in cloud',
                    <<"terminating", proc'[p].id>> \notin cloud'
             PROVE  FALSE
  BY NeverBack, NodesStay DEF EndingInv, AskedForEnd
<1>1. x \in Things /\ MadeAt[x] \in Nat /\ MadeAt[x] >= InstanceNode /\ InstanceNode \in {5, 6}
  BY WhatIsMade
<1>2. proc'[p].done \in Nat
  BY NextIInv DEF IInv, StateInv, Sane, ProcessRecords
<1>3. AskedForEnd(proc[p]) /\ proc'[p].done = proc[p].done /\ proc'[p].id = proc[p].id
  BY <1>1, <1>2, AsksOnce
<1>4. <<x, proc[p].id>> \in cloud
  BY <1>1, <1>3, PastStaysGone
<1>5. <<"terminating", proc[p].id>> \in cloud
  BY <1>1, <1>3, <1>4 DEF EndingInv
<1>6. QED
  BY <1>3, <1>5, EndTogether

\* A removal is never called while something that was made after it, by an action the
\* process knows of, is still in place and blocks it, whatever runs, fails or is killed
\* beside it, unless an instance whose end was asked for has not ended, or the group's
\* removal comes before it.
THEOREM NothingLater == Spec => []NothingLaterInPlace
<1>1. ASSUME IInv, EndingInv
      PROVE  NothingLaterInPlace
  <2>1. SUFFICES ASSUME NEW p \in Processes, At(p, "undoing"), HasCalls(p),
                        <<"terminating", proc[p].id>> \notin cloud,
                        NEW node \in proc[p].at + 1 .. proc[p].done,
                        NEW x \in MadeBy(node), x \in CurrentCall(p).blockers, x \notin LeftToInstance,
                        <<x, proc[p].id>> \in cloud
                 PROVE  FALSE
    BY DEF NothingLaterInPlace, Of
  <2>2. /\ proc[p].at \in 1 .. 7 /\ proc[p].at < node /\ node \in ActionNodes /\ saga \in Sagas
        /\ proc[p].done \in Nat /\ node <= proc[p].done /\ ActionNodes = 1 .. Len(saga)
        /\ proc[p].at \in ActionNodes
    BY <1>1, <2>1, SaneOf, CallMade DEF HasCalls
  <2>3. x \in Things /\ MadeAt[x] = node /\ GoneAt[x] \in Nat
    BY <2>2, MadeThings, WhatIsMade
  <2>4. GoneBehind(proc[p], cloud)
    BY <1>1, <2>1 DEF IInv, GoneInv, Compensating, At
  <2>5. GoneAt[x] <= proc[p].at /\ GoneAt[x] < MadeAt[x]
    BY <2>1, <2>2, <2>3, <2>4 DEF GoneBehind
  <2>6. x \in {"instance", "membership"} /\ InstanceNode \in {5, 6} /\ proc[p].at <= 6
    BY <2>2, <2>3, <2>5, WhatIsMade
  <2>7. CASE proc[p].at < InstanceNode
    BY <1>1, <2>1, <2>2, <2>3, <2>6, <2>7 DEF EndingInv, AskedForEnd, At
  <2>8. CASE proc[p].at = InstanceNode
    <3>1. /\ CurrentCall(p) = UndoIts[saga[InstanceNode]][proc[p].call]
          /\ proc[p].call \in DOMAIN UndoIts[saga[InstanceNode]]
      BY <1>1, <2>1, <2>8, CallMade DEF CallsOf, At
    <3>2. CurrentCall(p).blockers = {}
      BY <2>2, <2>8, <3>1, TerminateCalls
    <3>3. QED
      BY <2>1, <3>2
  <2>9. CASE proc[p].at > InstanceNode
    <3>1. InstanceNode = 5 /\ proc[p].at = 6
      BY <2>2, <2>6, <2>9
    <3>2. x = "membership"
      BY <2>2, <2>3, <2>6, <3>1, WhatIsMade
    <3>3. LeftToInstance = {"membership"}
      BY <3>1 DEF InstanceNode, LeftToInstance
    <3>4. QED
      BY <2>1, <3>2, <3>3
  <2>10. QED
    BY <2>2, <2>6, <2>7, <2>8, <2>9
<1>2. Init => EndingInv
  BY DEF Init, EndingInv, AskedForEnd, NotRunning
<1>3. Spec => [](IInv /\ EndingInv)
  BY <1>2, InitIInv, NextIInv, NextEndingInv, PTL DEF Spec
<1>4. QED
  BY <1>1, <1>3, PTL

----------------------------------------------------------------------------
(* What the calls find *)

\* The call of its node's action that makes each thing, and the node and the call of
\* the UndoIts after which it is gone when no call fails.
CallAt ==
  [vpc |-> 1, igw |-> 1, attachment |-> 2, subnet |-> 2, table |-> 1, association |-> 3,
   group |-> 1, instance |-> 2, membership |-> 1]
UndoneAt ==
  [vpc |-> 1, igw |-> 2, attachment |-> 2, subnet |-> 3, table |-> 4, association |-> 4,
   group |-> GroupNode, instance |-> InstanceNode, membership |-> InstanceNode]
UndoneCall ==
  [vpc |-> 1, igw |-> 2, attachment |-> 1, subnet |-> 1, table |-> 2, association |-> 1,
   group |-> 1, instance |-> 2, membership |-> 2]

\* Before this call of the node's DoIt, and of its UndoIt.
MadeBefore(node, call, x) == MadeAt[x] < node \/ (MadeAt[x] = node /\ CallAt[x] < call)
Undone(node, call, x) == node < UndoneAt[x] \/ (node = UndoneAt[x] /\ UndoneCall[x] < call)

\* These numbers, thing by thing.
LEMMA CallNumbers ==
  /\ CallAt["vpc"] = 1 /\ CallAt["igw"] = 1 /\ CallAt["attachment"] = 2 /\ CallAt["subnet"] = 2
  /\ CallAt["table"] = 1 /\ CallAt["association"] = 3 /\ CallAt["group"] = 1
  /\ CallAt["instance"] = 2 /\ CallAt["membership"] = 1
  /\ UndoneAt["vpc"] = 1 /\ UndoneAt["igw"] = 2 /\ UndoneAt["attachment"] = 2
  /\ UndoneAt["subnet"] = 3 /\ UndoneAt["table"] = 4 /\ UndoneAt["association"] = 4
  /\ UndoneAt["group"] = GroupNode /\ UndoneAt["instance"] = InstanceNode
  /\ UndoneAt["membership"] = InstanceNode
  /\ UndoneCall["vpc"] = 1 /\ UndoneCall["igw"] = 2 /\ UndoneCall["attachment"] = 1
  /\ UndoneCall["subnet"] = 1 /\ UndoneCall["table"] = 2 /\ UndoneCall["association"] = 1
  /\ UndoneCall["group"] = 1 /\ UndoneCall["instance"] = 2 /\ UndoneCall["membership"] = 2
BY DEF CallAt, UndoneAt, UndoneCall

\* They are nodes and calls.
LEMMA NumberTypes ==
  ASSUME NEW x \in Things
  PROVE  /\ x # "terminating" /\ MadeAt[x] \in 1 .. 7 /\ CallAt[x] \in 1 .. 4
         /\ UndoneAt[x] \in 1 .. 7 /\ UndoneCall[x] \in 1 .. 4
BY WhatIsMade, CallNumbers

\* Each of these calls of node n's DoIt needs what earlier ones make, and each thing of
\* this node is made by its call.
FindOnly(calls, n) ==
  /\ \A i \in DOMAIN calls :
       calls[i].blockers = {} /\ \A x \in calls[i].needs : x \in Things /\ MadeBefore(n, i, x)
  /\ \A x \in Things : MadeAt[x] = n =>
       CallAt[x] \in DOMAIN calls /\ x \in calls[CallAt[x]].makes

\* So it is of the DoIts.
LEMMA DoItFinds == \A n \in 1 .. 7 : FindOnly(DoIts[Server[n]], n)
<1> USE WhatIsMade, CallNumbers DEF FindOnly, MadeBefore, Call
<1>1. FindOnly(CreateVPC, 1)
  BY DEF CreateVPC
<1>2. FindOnly(CreateInternetGateway, 2)
  BY DEF CreateInternetGateway
<1>3. FindOnly(CreateSubnet, 3)
  BY DEF CreateSubnet
<1>4. FindOnly(CreateRouteTable, 4)
  BY DEF CreateRouteTable
<1>5. FindOnly(CreateSecurityGroup, GroupNode)
  BY DEF CreateSecurityGroup, AddIngressRules
<1>6. FindOnly(CreateInstance, InstanceNode)
  BY DEF CreateInstance, GetLatestAmazonLinuxAMI, LaunchInstance, WaitForInstanceRunning
<1>7. FindOnly(AttachSecurityGroup, 7)
  BY DEF AttachSecurityGroup
<1> HIDE DEF FindOnly
<1>8. QED
  BY <1>1, <1>2, <1>3, <1>4, <1>5, <1>6, <1>7, ActionsOf, ServerShape

\* Each of these calls of node n's UndoIt needs what was made by then and is not undone,
\* and no instance; what blocks it is undone before, or left to the instance, and what
\* it removes is undone after it; each thing to be undone here is removed by its call.
RemoveOnly(calls, n) ==
  /\ \A i \in DOMAIN calls :
       /\ \A x \in calls[i].needs :
            x \in Things \ {"instance", "membership"} /\ MadeAt[x] <= n /\ ~Undone(n, i, x)
       /\ \A x \in calls[i].blockers :
            \/ x \in Things /\ Undone(n, i, x)
            \/ x \in LeftToInstance /\ n = GroupNode /\ i = 1 /\ ~calls[i].warnOnly
       /\ \A x \in calls[i].removes : x = "terminating" \/ (x \in Things /\ Undone(n, i + 1, x))
  /\ \A x \in Things : UndoneAt[x] = n =>
       UndoneCall[x] \in DOMAIN calls /\ x \in calls[UndoneCall[x]].removes

\* So it is of the UndoIts.
LEMMA UndoItFinds == \A n \in 1 .. 7 : RemoveOnly(UndoIts[Server[n]], n)
<1> USE WhatIsMade, CallNumbers DEF RemoveOnly, Undone, Call, Removal, Tolerated
<1>1. RemoveOnly(DeleteVPC, 1)
  BY DEF DeleteVPC
<1>2. RemoveOnly(DeleteInternetGateway, 2)
  BY DEF DeleteInternetGateway
<1>3. RemoveOnly(DeleteSubnet, 3)
  BY DEF DeleteSubnet
<1>4. RemoveOnly(DeleteRouteTable, 4)
  BY DEF DeleteRouteTable
<1>5. RemoveOnly(DeleteSecurityGroup, GroupNode)
  <2>1. CASE saga = InstanceFirst
    BY <2>1 DEF DeleteSecurityGroup, LeftToInstance
  <2>2. CASE saga # InstanceFirst
    BY <2>2 DEF DeleteSecurityGroup, GroupNode, InstanceNode
  <2>3. QED
    BY <2>1, <2>2
<1>6. RemoveOnly(TerminateInstance, InstanceNode)
  BY DEF TerminateInstance, OfInstance
<1>7. RemoveOnly(DetachSecurityGroup, 7)
  BY DEF DetachSecurityGroup
<1> HIDE DEF RemoveOnly
<1>8. QED
  BY <1>1, <1>2, <1>3, <1>4, <1>5, <1>6, <1>7, ActionsOf, ServerShape

\* The same of the nodes of a program's saga.
LEMMA NodeFinds ==
  ASSUME saga \in Sagas, NEW n \in ActionNodes
  PROVE  FindOnly(DoIts[saga[n]], n) /\ RemoveOnly(UndoIts[saga[n]], n)
<1>1. n \in 1 .. 7 /\ saga[n] = Server[n]
  BY SagaShape
<1>2. QED
  BY <1>1, DoItFinds, UndoItFinds

----------------------------------------------------------------------------
(* One command at a time *)

\* The things that the actions of this program's saga make.
OfSaga == {x \in Things : MadeAt[x] <= Len(saga)}

\* Those that are in place until an UndoIt removes them: an instance ends, and its
\* membership with it, some time after its end was asked for.
Lasting == OfSaga \ {"instance", "membership"}

\* All of them are things.
LEMMA ThingsOfSaga == OfSaga \subseteq Things /\ Lasting \subseteq Things /\ Lasting \subseteq OfSaga
BY DEF OfSaga, Lasting

\* A deploy that has not begun its first save: the file may still be another deploy's,
\* which it could not read.
Unsaved(s) == s.pc = "saving" /\ s.status = "running" /\ s.at = 0

\* A command that runs alone has the file for itself from its first save on, and a
\* deploy that goes forward finds all that it has made.
Alone(s, f, resources) ==
  /\ s.pc = "writing" => f = TornFile
  /\ s.pc # "ended" /\ Readable(f) => Unsaved(s) \/ (f.id = s.id /\ f.done <= s.done)
  /\ Forward(s) =>
       /\ <<"terminating", s.id>> \notin resources
       /\ \A x \in OfSaga : MadeBefore(s.at, s.call, x) => <<x, s.id>> \in resources

\* As long as no command has run beside another.
AloneInv ==
  ~disturbed =>
    /\ \A p, q \in Processes : p # q => At(p, "ended") \/ At(q, "ended")
    /\ \A p \in Processes : Alone(proc[p], file, cloud)

\* What is in the cloud is of a deploy that has started.
IdsInv == \A r \in cloud : r[2] <= deploys

\* What comes into the cloud is of the deploy that makes it.
LEMMA NextIdsInv ==
  ASSUME IInv, IdsInv, [Next]_vars
  PROVE  IdsInv'
<1>1. deploys \in Nat /\ deploys' \in Nat /\ deploys <= deploys'
  BY NeverBack DEF IInv, StateInv
<1>2. ASSUME NEW r \in cloud
      PROVE  r[2] <= deploys'
  <2>1. r[2] \in Nat /\ r[2] <= deploys
    BY <1>2 DEF IInv, CloudInv, IdsInv
  <2>2. QED
    BY <1>1, <2>1
<1>3. CASE cloud' \subseteq cloud
  BY <1>2, <1>3 DEF IdsInv
<1>4. ASSUME NEW p \in Processes, cloud' = After(p)
      PROVE  IdsInv'
  <2>1. proc[p].id \in Nat /\ proc[p].id <= deploys'
    BY <1>1, SaneOf
  <2>2. \A r \in Of(p, CurrentCall(p).makes) : r[2] = proc[p].id
    BY DEF Of
  <2>3. QED
    BY <1>2, <1>4, <2>1, <2>2 DEF IdsInv, After
<1>5. QED
  BY <1>3, <1>4, CloudSteps DEF InstanceTerminates

\* A process that has ended is no hindrance to the one that runs.
LEMMA EndedAlone ==
  ASSUME NEW t, NEW f, NEW resources, t.pc = "ended"
  PROVE  Alone(t, f, resources)
BY DEF Alone, Forward, IsSaving

\* A step of the only process that runs.
LEMMA AloneStep ==
  ASSUME IInv, NEW p \in Processes, NEW t, Become(p, t), UNCHANGED saga,
         \A q \in Processes : q # p => At(q, "ended"), Alone(t, file', cloud')
  PROVE  AloneInv'
<1>1. proc'[p] = t /\ \A q \in Processes : q # p => proc'[q] = proc[q]
  BY OthersKept DEF IInv
<1>2. \A q \in Processes : q # p => proc'[q].pc = "ended"
  BY <1>1 DEF At
<1>3. OfSaga' = OfSaga /\ MadeAt' = MadeAt
  BY NodesStay DEF OfSaga
<1>4. ASSUME NEW q \in Processes
      PROVE  Alone(proc'[q], file', cloud')
  BY <1>1, <1>2, EndedAlone
<1>5. ASSUME NEW q \in Processes
      PROVE  (Alone(proc[q], file, cloud))'
  BY <1>3, <1>4 DEF Alone, MadeBefore
<1>6. QED
  BY <1>2, <1>5 DEF AloneInv, At

\* A save of a command that runs alone succeeds, or it fails before it has begun.
LEMMA SaveAlone ==
  ASSUME IInv, NEW p \in Processes, Save(p), ~disturbed', Alone(proc[p], file, cloud)
  PROVE  /\ UNCHANGED cloud
         /\ \/ /\ At(p, "writing") /\ UNCHANGED mishaps
               /\ file' = [status |-> proc[p].status, id |-> proc[p].id, done |-> proc[p].done]
            \/ At(p, "saving") /\ UNCHANGED file /\ Mishap
<1>1. CASE SaveSucceeds(p)
  <2>1. file = TornFile
    BY <1>1 DEF SaveSucceeds, Alone, At
  <2>2. TornFile # NoFile /\ ~Readable(TornFile)
    BY DEF TornFile, NoFile, Readable
  <2>3. QED
    BY <1>1, <2>1, <2>2 DEF SaveSucceeds
<1>2. CASE SaveFails(p)
  BY <1>2 DEF SaveFails
<1>3. QED
  BY <1>1, <1>2 DEF Save

\* After it the file holds no more than the process knows.
LEMMA SaveKeepsAlone ==
  ASSUME IInv, NEW p \in Processes, Save(p), ~disturbed', Alone(proc[p], file, cloud), ~Unsaved(proc[p]),
         NEW t, t.pc # "writing", t.id = proc[p].id, t.done = proc[p].done,
         Forward(t) => Forward(proc[p]) /\ t.at = proc[p].at /\ t.call = proc[p].call
  PROVE  Alone(t, file', cloud')
<1>1. proc[p].done \in Nat /\ ~At(p, "ended")
  BY SaneOf DEF Save, SaveSucceeds, SaveFails, At
<1>2. Readable(file') => file'.id = t.id /\ file'.done <= t.done
  BY <1>1, SaveAlone DEF Alone, At
<1>3. cloud' = cloud
  BY SaveAlone
<1>4. QED
  BY <1>2, <1>3 DEF Alone

\* The saves of a command that runs alone leave it alone.
LEMMA AloneSaves ==
  ASSUME IInv, NEW p \in Processes, ~disturbed', Alone(proc[p], file, cloud),
         \/ Truncate(p) \/ ExecuteBegins(p) \/ NodeSaved(p) \/ CompletionSaved(p)
         \/ CompensationBegins(p) \/ RollbackSaved(p) \/ Delete(p)
  PROVE  \E t : Become(p, t) /\ Alone(t, file', cloud')
<1> DEFINE s == proc[p]
<1>1. s \in ProcessRecords /\ Sane(s)
  BY SaneOf
<1>2. ASSUME NEW outcome, End(p, outcome)
      PROVE  \E t : Become(p, t) /\ Alone(t, file', cloud')
  <2> DEFINE t == [s EXCEPT !.pc = "ended", !.outcome = outcome]
  <2>1. Become(p, t) /\ t.pc = "ended"
    BY <1>1, <1>2 DEF End, ProcessRecords
  <2> HIDE DEF t
  <2>2. QED
    BY <2>1, EndedAlone
<1>3. ASSUME Save(p), ~Unsaved(s), NEW t, Become(p, t), t.pc # "writing", t.id = s.id, t.done = s.done,
             Forward(t) => Forward(s) /\ t.at = s.at /\ t.call = s.call
      PROVE  \E u : Become(p, u) /\ Alone(u, file', cloud')
  BY <1>3, SaveKeepsAlone
<1>4. CASE Truncate(p)
  <2> DEFINE t == [s EXCEPT !.pc = "writing"]
  <2>1. /\ Become(p, t) /\ t.pc = "writing" /\ file' = TornFile /\ cloud' = cloud /\ s.pc = "saving"
        /\ t.id = s.id /\ t.at = s.at /\ t.call = s.call /\ t.command = s.command
        /\ t.status = s.status
    BY <1>1, <1>4 DEF Truncate, Goto, At, ProcessRecords
  <2> HIDE DEF t
  <2>2. ~Readable(file')
    BY <2>1 DEF Readable
  <2>3. Forward(t) => Forward(s)
    BY <2>1 DEF Forward, IsSaving
  <2>4. QED
    BY <2>1, <2>2, <2>3 DEF Alone
<1>5. CASE ExecuteBegins(p) \/ (NodeSaved(p) /\ Goto(p, "doing"))
  <2>1. Save(p) /\ s.pc \in {"saving", "writing"} /\ s.command = "deploy" /\ s.status = "running"
    BY <1>5 DEF ExecuteBegins, NodeSaved, Save, Saving, At
  <2>2. CASE Become(p, [s EXCEPT !.pc = "doing"]) /\ ~Unsaved(s)
    <3> DEFINE t == [s EXCEPT !.pc = "doing"]
    <3>1. t.pc # "writing" /\ t.id = s.id /\ t.done = s.done /\ t.at = s.at /\ t.call = s.call
      BY <1>1 DEF ProcessRecords
    <3>2. Forward(s)
      BY <2>1 DEF Forward, IsSaving
    <3> HIDE DEF t
    <3>3. QED
      BY <1>3, <2>1, <2>2, <3>1, <3>2 DEF t
  <2>3. CASE ExecuteBegins(p)
    BY <1>2, <2>2, <2>3 DEF ExecuteBegins, SaveSucceeds, Unsaved, At
  <2>4. CASE NodeSaved(p) /\ Goto(p, "doing")
    BY <2>2, <2>4 DEF NodeSaved, Goto, Unsaved
  <2>5. QED
    BY <1>5, <2>3, <2>4
<1>6. CASE NodeSaved(p) /\ Persist(p, s, "completed")
  <2> DEFINE t == [s EXCEPT !.pc = "saving", !.status = "completed"]
  <2>1. t.pc = "saving" /\ t.id = s.id /\ t.done = s.done /\ t.status = "completed"
    BY <1>1 DEF ProcessRecords
  <2>2. Save(p) /\ Become(p, t) /\ ~Unsaved(s)
    BY <1>6 DEF NodeSaved, Persist, Unsaved
  <2> HIDE DEF t
  <2>3. QED
    BY <1>3, <2>1, <2>2 DEF Forward, IsSaving
<1>7. CASE CompensationBegins(p)
  <2> DEFINE t == [s EXCEPT !.pc = "undoing", !.at = s.done, !.call = 1]
  <2>1. t.pc = "undoing" /\ t.id = s.id /\ t.done = s.done
    BY <1>1 DEF ProcessRecords
  <2>2. Save(p) /\ Become(p, t) /\ ~Unsaved(s)
    BY <1>7 DEF CompensationBegins, Saving, Unsaved
  <2> HIDE DEF t
  <2>3. QED
    BY <1>3, <2>1, <2>2 DEF Forward, IsSaving
<1>8. CASE RollbackSaved(p) /\ Goto(p, "deleting")
  <2> DEFINE t == [s EXCEPT !.pc = "deleting"]
  <2>1. t.pc = "deleting" /\ t.id = s.id /\ t.done = s.done
    BY <1>1 DEF ProcessRecords
  <2>2. Save(p) /\ Become(p, t) /\ ~Unsaved(s)
    BY <1>8 DEF RollbackSaved, Saving, Goto, Unsaved
  <2> HIDE DEF t
  <2>3. QED
    BY <1>3, <2>1, <2>2 DEF Forward, IsSaving
<1>9. CASE CompletionSaved(p) \/ Delete(p) \/ (RollbackSaved(p) /\ End(p, "destroyFailed"))
  BY <1>2, <1>9 DEF CompletionSaved, Delete
<1>10. QED
  BY <1>4, <1>5, <1>6, <1>7, <1>8, <1>9 DEF NodeSaved, RollbackSaved

\* An answered call of a DoIt adds what it makes, and with it all is there that is made
\* before the next call.
LEMMA CallKeepsAlone ==
  ASSUME IInv, NEW p \in Processes, At(p, "doing"), proc[p].at \in ActionNodes,
         Alone(proc[p], file, cloud), cloud' = After(p)
  PROVE  /\ <<"terminating", proc[p].id>> \notin cloud'
         /\ \A x \in OfSaga : MadeBefore(proc[p].at, proc[p].call + 1, x) => <<x, proc[p].id>> \in cloud'
<1> DEFINE s == proc[p]
<1>1. saga \in Sagas /\ Forward(s) /\ s.at \in Nat /\ s.call \in Nat
  <2>1. Sane(s) /\ s \in ProcessRecords /\ saga \in Sagas /\ s.pc = "doing"
    BY SaneOf DEF At
  <2>2. s.at \in Nat /\ s.call \in Nat
    BY <2>1 DEF ProcessRecords
  <2>3. Forward(s)
    BY <2>1 DEF Sane, Forward
  <2>4. QED
    BY <2>1, <2>2, <2>3
<1>2. /\ CallsOf(p) = DoIts[saga[s.at]] /\ CurrentCall(p) = DoIts[saga[s.at]][s.call]
      /\ s.call \in DOMAIN DoIts[saga[s.at]]
  <2>1. CallsOf(p) = DoIts[saga[s.at]] /\ CurrentCall(p) = CallsOf(p)[s.call]
    BY DEF CallsOf, CurrentCall
  <2>2. s.call \in DOMAIN DoIts[saga[s.at]]
    BY SaneOf DEF Sane, At
  <2>3. QED
    BY <2>1, <2>2
<1>3. MakeOnly(DoIts[saga[s.at]], s.at) /\ FindOnly(DoIts[saga[s.at]], s.at)
  BY <1>1, NodeCalls, NodeFinds
<1>4. /\ CurrentCall(p).removes = {}
      /\ "terminating" \notin CurrentCall(p).makes
  BY <1>2, <1>3, NumberTypes DEF MakeOnly
<1>5. cloud' = cloud \cup Of(p, CurrentCall(p).makes)
  BY <1>4 DEF After, Of
<1>6. <<"terminating", s.id>> \notin cloud'
  BY <1>1, <1>4, <1>5 DEF Alone, Of
<1>7. ASSUME NEW x \in OfSaga, MadeBefore(s.at, s.call + 1, x)
      PROVE  <<x, s.id>> \in cloud'
  <2>1. CASE MadeBefore(s.at, s.call, x)
    BY <1>1, <1>5, <1>7, <2>1 DEF Alone
  <2>2. CASE ~MadeBefore(s.at, s.call, x)
    <3>1. x \in Things /\ CallAt[x] \in Nat
      BY ThingsOfSaga, NumberTypes
    <3>2. MadeAt[x] = s.at /\ CallAt[x] = s.call
      BY <1>1, <1>7, <2>2, <3>1 DEF MadeBefore
    <3>3. x \in CurrentCall(p).makes
      BY <1>2, <1>3, <3>1, <3>2 DEF FindOnly
    <3>4. QED
      BY <1>5, <3>3 DEF Of
  <2>3. QED
    BY <2>1, <2>2
<1>8. QED
  BY <1>6, <1>7

\* So do the steps between the saves.
LEMMA AloneCalls ==
  ASSUME IInv, NEW p \in Processes, ~disturbed', Alone(proc[p], file, cloud),
         \/ SkipNode(p) \/ DoIt(p) \/ UndoIt(p) \/ UndoesNothing(p) \/ AllUndone(p) \/ Kill(p)
  PROVE  \E t : Become(p, t) /\ Alone(t, file', cloud')
<1> DEFINE s == proc[p]
<1>1. /\ s \in ProcessRecords /\ Sane(s) /\ s.at \in Nat /\ s.call \in Nat /\ s.done \in Nat
      /\ ActionNodes = 1 .. Len(saga) /\ saga \in Sagas
  BY SaneOf DEF ProcessRecords
<1>2. ASSUME NEW outcome, End(p, outcome)
      PROVE  \E t : Become(p, t) /\ Alone(t, file', cloud')
  <2> DEFINE t == [s EXCEPT !.pc = "ended", !.outcome = outcome]
  <2>1. Become(p, t) /\ t.pc = "ended"
    BY <1>1, <1>2 DEF End, ProcessRecords
  <2> HIDE DEF t
  <2>2. QED
    BY <2>1, EndedAlone
<1>3. ASSUME s.pc \in {"doing", "undoing"}, file' = file, NEW t, Become(p, t), t.pc # "writing", t.id = s.id,
             t.done \in Nat, s.done <= t.done,
             Forward(t) => /\ <<"terminating", s.id>> \notin cloud'
                           /\ \A x \in OfSaga : MadeBefore(t.at, t.call, x) => <<x, s.id>> \in cloud'
      PROVE  \E u : Become(p, u) /\ Alone(u, file', cloud')
  <2>1. Readable(file) => file.done \in Nat
    BY DEF IInv, StateInv, Readable, Files
  <2>2. Readable(file') => file'.id = t.id /\ file'.done <= t.done
    BY <1>1, <1>3, <2>1 DEF Alone, Unsaved
  <2>3. QED
    BY <1>3, <2>2 DEF Alone
<1>4. CASE SkipNode(p)
  <2> DEFINE t == [s EXCEPT !.at = s.at + 1, !.pc = "saving", !.status = "running"]
  <2>1. s.pc = "doing" /\ s.at \notin ActionNodes /\ Become(p, t) /\ file' = file /\ cloud' = cloud
    BY <1>1, <1>4 DEF SkipNode, Persist, At, ProcessRecords
  <2>2. Forward(s) /\ s.call = 1
    BY <1>1, <2>1 DEF Sane, Forward
  <2>3. t.pc = "saving" /\ t.id = s.id /\ t.done = s.done /\ t.at = s.at + 1 /\ t.call = 1
    BY <1>1, <2>2 DEF ProcessRecords
  <2> HIDE DEF t
  <2>4. ASSUME NEW x \in OfSaga, MadeBefore(t.at, t.call, x)
        PROVE  MadeBefore(s.at, s.call, x)
    <3>1. MadeAt[x] \in 1 .. Len(saga) /\ CallAt[x] >= 1 /\ CallAt[x] \in Nat
      <4>1. x \in Things /\ MadeAt[x] <= Len(saga)
        BY DEF OfSaga
      <4>2. MadeAt[x] \in 1 .. 7 /\ CallAt[x] \in 1 .. 4
        BY <4>1, NumberTypes
      <4>3. Len(saga) \in {4, 7}
        BY SaneOf
      <4>4. QED
        BY <4>1, <4>2, <4>3
    <3>2. QED
      BY <1>1, <2>1, <2>3, <2>4, <3>1 DEF MadeBefore
  <2>5. /\ <<"terminating", s.id>> \notin cloud'
        /\ \A x \in OfSaga : MadeBefore(t.at, t.call, x) => <<x, s.id>> \in cloud'
    BY <2>1, <2>2, <2>4 DEF Alone
  <2>6. s.done <= t.done
    BY <1>1, <2>3
  <2>7. QED
    BY <1>1, <1>3, <2>1, <2>3, <2>5, <2>6
<1>5. CASE DoIt(p)
  <2>1. s.pc = "doing" /\ s.at \in ActionNodes /\ file' = file
    BY <1>5 DEF DoIt, At
  <2>2. ASSUME cloud' = After(p)
        PROVE  /\ <<"terminating", s.id>> \notin cloud'
               /\ \A x \in OfSaga : MadeBefore(s.at, s.call + 1, x) => <<x, s.id>> \in cloud'
    BY <2>1, <2>2, CallKeepsAlone DEF At
  <2>3. CASE Answered(p) /\ NextCall(p)
    <3> DEFINE t == [s EXCEPT !.call = s.call + 1]
    <3>1. Become(p, t)
      BY <1>1, <2>3 DEF NextCall, Become, ProcessRecords
    <3>2. t.pc = "doing" /\ t.id = s.id /\ t.done = s.done /\ t.at = s.at /\ t.call = s.call + 1
      BY <1>1, <2>1 DEF ProcessRecords
    <3> HIDE DEF t
    <3>3. QED
      BY <1>1, <1>3, <2>1, <2>2, <2>3, <3>1, <3>2 DEF Answered
  <2>4. CASE Answered(p) /\ LastCall(p)
             /\ Persist(p, [s EXCEPT !.at = s.at + 1, !.done = s.done + 1, !.call = 1], "running")
    <3> DEFINE t == [s EXCEPT !.at = s.at + 1, !.done = s.done + 1, !.call = 1,
                              !.pc = "saving", !.status = "running"]
    <3>1. Become(p, t)
      BY <1>1, <2>4 DEF Persist, ProcessRecords
    <3>2. t.pc = "saving" /\ t.id = s.id /\ t.done = s.done + 1 /\ t.at = s.at + 1 /\ t.call = 1
      BY <1>1 DEF ProcessRecords
    <3> HIDE DEF t
    <3>3. ASSUME NEW x \in OfSaga, MadeBefore(t.at, t.call, x)
          PROVE  MadeBefore(s.at, s.call + 1, x)
      <4>1. MadeAt[x] \in Nat /\ CallAt[x] >= 1 /\ CallAt[x] \in Nat /\ x \in Things
        BY <3>3, NumberTypes DEF OfSaga
      <4>2. CASE MadeAt[x] < s.at
        BY <4>2 DEF MadeBefore
      <4>3. CASE MadeAt[x] = s.at
        <5>1. CallAt[x] \in DOMAIN DoIts[saga[s.at]]
          BY <1>1, <2>1, <4>1, <4>3, NodeFinds DEF FindOnly
        <5>2. s.call = Len(DoIts[saga[s.at]])
          BY <2>1, <2>4 DEF LastCall, CallsOf, At
        <5>3. CallAt[x] <= s.call
          BY <1>1, <2>1, <5>1, <5>2, NodeCalls DEF MakeOnly
        <5>4. QED
          BY <1>1, <4>1, <4>3, <5>3 DEF MadeBefore
      <4>4. QED
        BY <1>1, <3>2, <3>3, <4>1, <4>2, <4>3 DEF MadeBefore
    <3>4. QED
      BY <1>1, <1>3, <2>1, <2>2, <2>4, <3>1, <3>2, <3>3 DEF Answered
  <2>5. CASE Persist(p, s, "failed")
    <3> DEFINE t == [s EXCEPT !.pc = "saving", !.status = "failed"]
    <3>1. Become(p, t)
      BY <2>5 DEF Persist
    <3>2. t.pc = "saving" /\ t.id = s.id /\ t.done = s.done /\ t.status = "failed"
      BY <1>1 DEF ProcessRecords
    <3> HIDE DEF t
    <3>3. ~Forward(t)
      BY <3>2 DEF Forward, IsSaving
    <3>4. QED
      BY <1>1, <1>3, <2>1, <3>1, <3>2, <3>3
  <2>6. QED
    BY <1>5, <2>3, <2>4, <2>5 DEF DoIt
<1>6. ASSUME s.pc = "undoing", NEW status \in {"failed", "rolled_back"}, CompensationEnds(p, status),
             file' = file
      PROVE  \E t : Become(p, t) /\ Alone(t, file', cloud')
  <2> DEFINE t == [s EXCEPT !.pc = "saving", !.status = status]
  <2>1. t.pc = "saving" /\ t.id = s.id /\ t.done = s.done /\ t.status = status
    BY <1>1 DEF ProcessRecords
  <2>2. Become(p, t) \/ End(p, "deployFailed")
    BY <1>6 DEF CompensationEnds, Persist
  <2> HIDE DEF t
  <2>3. ~Forward(t)
    BY <2>1 DEF Forward, IsSaving
  <2>4. QED
    BY <1>1, <1>2, <1>3, <1>6, <2>1, <2>2, <2>3
<1>7. CASE UndoIt(p) \/ UndoesNothing(p) \/ AllUndone(p)
  <2>1. s.pc = "undoing" /\ file' = file
    BY <1>7 DEF UndoIt, UndoesNothing, AllUndone, At
  <2>2. ASSUME NEW t, Become(p, t), t.pc = "undoing", t.id = s.id, t.done = s.done
        PROVE  \E u : Become(p, u) /\ Alone(u, file', cloud')
    <3>1. ~Forward(t)
      BY <2>2 DEF Forward, IsSaving
    <3>2. QED
      BY <1>1, <1>3, <2>1, <2>2, <3>1
  <2>3. CASE NextCall(p)
    <3> DEFINE t == [s EXCEPT !.call = s.call + 1]
    <3>1. Become(p, t) /\ t.pc = "undoing" /\ t.id = s.id /\ t.done = s.done
      BY <1>1, <2>1, <2>3 DEF NextCall, Become, ProcessRecords
    <3> HIDE DEF t
    <3>2. QED
      BY <2>2, <3>1
  <2>4. CASE Become(p, [s EXCEPT !.at = s.at - 1, !.call = 1])
    <3> DEFINE t == [s EXCEPT !.at = s.at - 1, !.call = 1]
    <3>1. t.pc = "undoing" /\ t.id = s.id /\ t.done = s.done
      BY <1>1, <2>1 DEF ProcessRecords
    <3> HIDE DEF t
    <3>2. QED
      BY <2>2, <2>4, <3>1 DEF t
  <2>5. CASE Become(p, [s EXCEPT !.at = s.at - 1])
    <3> DEFINE t == [s EXCEPT !.at = s.at - 1]
    <3>1. t.pc = "undoing" /\ t.id = s.id /\ t.done = s.done
      BY <1>1, <2>1 DEF ProcessRecords
    <3> HIDE DEF t
    <3>2. QED
      BY <2>2, <2>5, <3>1 DEF t
  <2>6. CASE CompensationEnds(p, "failed") \/ CompensationEnds(p, "rolled_back")
    BY <1>6, <2>1, <2>6
  <2>7. QED
    BY <1>1, <1>7, <2>3, <2>4, <2>5, <2>6 DEF UndoIt, UndoesNothing, AllUndone, ProcessRecords
<1>8. CASE Kill(p)
  BY <1>2, <1>8 DEF Kill
<1>9. QED
  BY <1>4, <1>5, <1>7, <1>8

\* A command that runs is alone until another one runs beside it.
LEMMA NextAloneInv ==
  ASSUME IInv, IdsInv, AloneInv, [Next]_vars
  PROVE  AloneInv'
<1> SUFFICES ASSUME ~disturbed'
             PROVE  AloneInv'
  BY DEF AloneInv
<1>1. /\ ~disturbed /\ UNCHANGED saga /\ OfSaga' = OfSaga /\ MadeAt' = MadeAt
      /\ \A p, q \in Processes : p # q => At(p, "ended") \/ At(q, "ended")
      /\ \A p \in Processes : Alone(proc[p], file, cloud)
  BY NeverBack, NodesStay DEF AloneInv, OfSaga
<1>2. CASE UNCHANGED vars
  BY <1>1, <1>2 DEF vars, AloneInv, Alone, MadeBefore, At
<1>3. ASSUME NEW id, InstanceTerminates(id)
      PROVE  AloneInv'
  <2>1. /\ <<"terminating", id>> \in cloud /\ cloud' = cloud \ (OfInstance \X {id})
        /\ UNCHANGED <<file, proc>>
    BY <1>3 DEF InstanceTerminates
  <2>2. ASSUME NEW p \in Processes
        PROVE  Alone(proc[p], file, cloud')
    BY <1>1, <2>1 DEF Alone
  <2>3. ASSUME NEW p \in Processes
        PROVE  (Alone(proc[p], file, cloud))'
    BY <1>1, <2>1, <2>2 DEF Alone, MadeBefore
  <2>4. QED
    BY <1>1, <2>1, <2>3 DEF AloneInv, At
<1>4. ASSUME NEW p \in Processes, NEW outcome, Refuses(p, outcome), UNCHANGED <<file, cloud>>
      PROVE  AloneInv'
  <2> DEFINE t == [NotRunning EXCEPT !.outcome = outcome]
  <2>1. Become(p, t) /\ t.pc = "ended"
    BY <1>4 DEF Refuses, NotRunning
  <2> HIDE DEF t
  <2>2. proc'[p] = t /\ \A q \in Processes : q # p => proc'[q] = proc[q]
    BY <2>1, OthersKept DEF IInv
  <2>3. ASSUME NEW q \in Processes
        PROVE  Alone(proc'[q], file', cloud') /\ (proc[q].pc = "ended" => proc'[q].pc = "ended")
    BY <1>1, <1>4, <2>1, <2>2, EndedAlone
  <2>4. ASSUME NEW q \in Processes
        PROVE  (Alone(proc[q], file, cloud))'
    BY <1>1, <2>3 DEF Alone, MadeBefore
  <2>5. QED
    BY <1>1, <2>3, <2>4 DEF AloneInv, At
<1>5. ASSUME NEW p \in Processes, NEW t, Starts(p, t), UNCHANGED <<file, cloud>>, Alone(t, file, cloud)
      PROVE  AloneInv'
  <2>1. Become(p, t) /\ \A q \in Processes : q # p => At(q, "ended")
    BY <1>5 DEF Starts
  <2>2. QED
    BY <1>1, <1>5, <2>1, AloneStep
<1>6. ASSUME NEW p \in Processes, Deploy(p)
      PROVE  AloneInv'
  <2>1. CASE Refuses(p, "exists") \/ Refuses(p, "noConfig")
    BY <1>4, <1>6, <2>1 DEF Deploy
  <2>2. CASE StartsDeploy(p)
    <3> DEFINE t == [NotRunning EXCEPT !.pc = "saving", !.command = "deploy",
                                       !.id = deploys', !.status = "running"]
    <3>1. t.pc = "saving" /\ t.status = "running" /\ t.id = deploys + 1 /\ t.at = 0 /\ t.call = 1
      BY <2>2 DEF StartsDeploy, NotRunning
    <3> HIDE DEF t
    <3>2. <<"terminating", t.id>> \notin cloud
      BY <3>1 DEF IInv, StateInv, IdsInv
    <3>3. \A x \in OfSaga : ~MadeBefore(t.at, t.call, x)
      BY <3>1, NumberTypes DEF OfSaga, MadeBefore
    <3>4. Alone(t, file, cloud)
      BY <3>1, <3>2, <3>3 DEF Alone, Unsaved
    <3>5. QED
      BY <1>5, <1>6, <2>2, <3>4 DEF Deploy, StartsDeploy, t
  <2>3. QED
    BY <1>6, <2>1, <2>2 DEF Deploy
<1>7. ASSUME NEW p \in Processes, Destroy(p)
      PROVE  AloneInv'
  <2>1. ASSUME NEW outcome, Refuses(p, outcome)
        PROVE  AloneInv'
    BY <1>4, <1>7, <2>1 DEF Destroy
  <2>2. CASE Starts(p, [NotRunning EXCEPT !.pc = "saving", !.command = "destroy",
                         !.id = file.id, !.done = file.done, !.status = "rolling_back"])
             /\ Readable(file)
    <3> DEFINE t == [NotRunning EXCEPT !.pc = "saving", !.command = "destroy",
                     !.id = file.id, !.done = file.done, !.status = "rolling_back"]
    <3>1. t.pc = "saving" /\ t.id = file.id /\ t.done = file.done /\ t.command = "destroy"
      BY DEF NotRunning
    <3> HIDE DEF t
    <3>2. file.done \in Nat
      BY <2>2 DEF IInv, StateInv, Readable, Files
    <3>3. Alone(t, file, cloud)
      BY <3>1, <3>2 DEF Alone, Forward
    <3>4. QED
      BY <1>5, <1>7, <2>2, <3>3 DEF Destroy, t
  <2>3. QED
    BY <1>7, <2>1, <2>2 DEF Destroy
<1>8. ASSUME NEW p \in Processes, Running(p) \/ Kill(p)
      PROVE  AloneInv'
  <2>1. ~At(p, "ended")
    BY <1>8 DEF Running, Kill, Truncate, ExecuteBegins, NodeSaved, CompletionSaved, CompensationBegins,
       RollbackSaved, Delete, SkipNode, DoIt, UndoIt, UndoesNothing, AllUndone, Saving, At
  <2>2. \A q \in Processes : q # p => At(q, "ended")
    BY <1>1, <2>1
  <2>3. \E t : Become(p, t) /\ Alone(t, file', cloud')
    BY <1>1, <1>8, AloneSaves, AloneCalls DEF Running
  <2>4. QED
    BY <1>1, <2>2, <2>3, AloneStep
<1>9. QED
  BY <1>2, <1>3, <1>6, <1>7, <1>8 DEF Next

\* A deploy that goes on with a file in place has noted what was on it.
BlindInv ==
  ~disturbed => \A p \in Processes : Unsaved(proc[p]) /\ Readable(file) => OnRecord(file) \subseteq unread

\* Only the beginning of a deploy makes a process one that has not saved yet.
LEMMA BecomesUnsaved ==
  ASSUME IInv, NEW p \in Processes, Destroy(p) \/ Running(p) \/ Kill(p)
  PROVE  ~Unsaved(proc'[p])
<1> DEFINE s == proc[p]
<1>1. s \in ProcessRecords /\ s.at \in Nat
  BY SaneOf DEF ProcessRecords
<1>2. ASSUME NEW t, Become(p, t), t.pc # "saving" \/ t.status # "running" \/ t.at # 0
      PROVE  ~Unsaved(proc'[p])
  BY <1>2, OthersKept DEF IInv, Unsaved
<1>3. CASE Destroy(p)
  BY <1>2, <1>3 DEF Destroy, Refuses, Starts, NotRunning
<1>4. CASE Truncate(p) \/ ExecuteBegins(p) \/ NodeSaved(p) \/ CompletionSaved(p)
  BY <1>1, <1>2, <1>4 DEF Truncate, ExecuteBegins, NodeSaved, CompletionSaved, Goto, End, Persist,
     ProcessRecords
<1>5. CASE CompensationBegins(p) \/ RollbackSaved(p) \/ Delete(p) \/ Kill(p)
  BY <1>1, <1>2, <1>5 DEF CompensationBegins, RollbackSaved, Delete, Kill, Goto, End, ProcessRecords
<1>6. CASE SkipNode(p) \/ DoIt(p)
  <2>1. ASSUME NEW status, Persist(p, s, status), status # "running"
        PROVE  ~Unsaved(proc'[p])
    BY <1>1, <1>2, <2>1 DEF Persist, ProcessRecords
  <2>2. SkipNode(p) => Become(p, [s EXCEPT !.at = s.at + 1, !.pc = "saving", !.status = "running"])
    BY <1>1 DEF SkipNode, Persist, ProcessRecords
  <2>3. CASE Become(p, [s EXCEPT !.at = s.at + 1, !.done = s.done + 1, !.call = 1,
                                !.pc = "saving", !.status = "running"])
    <3> DEFINE t == [s EXCEPT !.at = s.at + 1, !.done = s.done + 1, !.call = 1,
                              !.pc = "saving", !.status = "running"]
    <3>1. t.at # 0 /\ Become(p, t)
      BY <1>1, <2>3 DEF ProcessRecords
    <3> HIDE DEF t
    <3>2. QED
      BY <1>2, <3>1
  <2>4. CASE Become(p, [s EXCEPT !.at = s.at + 1, !.pc = "saving", !.status = "running"])
    <3> DEFINE t == [s EXCEPT !.at = s.at + 1, !.pc = "saving", !.status = "running"]
    <3>1. t.at # 0 /\ Become(p, t)
      BY <1>1, <2>4 DEF ProcessRecords
    <3> HIDE DEF t
    <3>2. QED
      BY <1>2, <3>1
  <2>5. CASE DoIt(p) /\ NextCall(p)
    BY <1>1, <1>2, <2>5 DEF DoIt, NextCall, At, ProcessRecords
  <2>6. CASE Persist(p, [s EXCEPT !.at = s.at + 1, !.done = s.done + 1, !.call = 1], "running")
    BY <1>1, <2>3, <2>6 DEF Persist, ProcessRecords
  <2>7. QED
    BY <1>1, <1>6, <2>1, <2>2, <2>4, <2>5, <2>6 DEF DoIt, ProcessRecords
<1>7. CASE UndoIt(p) \/ UndoesNothing(p) \/ AllUndone(p)
  BY <1>1, <1>2, <1>7 DEF UndoIt, UndoesNothing, AllUndone, CompensationEnds, NextCall, Persist, End, At,
     ProcessRecords
<1>8. QED
  BY <1>3, <1>4, <1>5, <1>6, <1>7 DEF Running

\* Until it saves, no other step changes the file.
LEMMA NextBlindInv ==
  ASSUME IInv, AloneInv, BlindInv, AloneInv', [Next]_vars
  PROVE  BlindInv'
<1> SUFFICES ASSUME ~disturbed', NEW p \in Processes, Unsaved(proc'[p]), Readable(file')
             PROVE  OnRecord(file') \subseteq unread'
  BY DEF BlindInv, Unsaved, Readable, OnRecord
<1>1. ~disturbed /\ unread \subseteq unread'
  BY NeverBack, UnreadGrows
<1>2. ASSUME UNCHANGED <<file, proc>>
      PROVE  OnRecord(file') \subseteq unread'
  BY <1>1, <1>2 DEF BlindInv, OnRecord
<1>3. CASE Deploy(p)
  <2>1. Refuses(p, "exists") \/ Refuses(p, "noConfig") => FALSE
    BY OthersKept DEF Refuses, NotRunning, Unsaved, IInv
  <2>2. file' = file /\ unread' = unread \cup OnRecord(file)
    BY <1>3, <2>1 DEF Deploy
  <2>3. QED
    BY <2>2 DEF OnRecord
<1>4. ASSUME NEW q \in Processes, q # p, Deploy(q) \/ Destroy(q) \/ Running(q) \/ Kill(q)
      PROVE  OnRecord(file') \subseteq unread'
  <2>1. proc'[p] = proc[p]
    BY <1>4, StepsBecome, OthersKept DEF IInv
  <2>2. At(q, "ended")
    BY <1>1, <1>4, <2>1 DEF AloneInv, Unsaved, At
  <2>3. UNCHANGED file
    BY <1>4, <2>2 DEF Deploy, Destroy, Running, Kill, Truncate, ExecuteBegins, NodeSaved, CompletionSaved,
       CompensationBegins, RollbackSaved, Delete, SkipNode, DoIt, UndoIt, UndoesNothing, AllUndone, Saving, At
  <2>4. QED
    BY <1>1, <2>1, <2>3 DEF BlindInv, OnRecord
<1>5. QED
  BY <1>2, <1>3, <1>4, BecomesUnsaved DEF Next, InstanceTerminates, vars

\* What holds of commands, of their ids, and of one that runs alone.
AloneIInv == IInv /\ IdsInv /\ AloneInv /\ BlindInv

\* It holds from the beginning.
LEMMA InitAloneIInv == Init => AloneIInv
<1>1. ASSUME Init
      PROVE  IdsInv /\ AloneInv /\ BlindInv
  <2>1. \A p \in Processes : proc[p].pc = "ended"
    BY <1>1 DEF Init, NotRunning
  <2>2. QED
    BY <1>1, <2>1, EndedAlone DEF Init, IdsInv, AloneInv, BlindInv, Unsaved, At
<1>2. QED
  BY <1>1, InitIInv DEF AloneIInv

\* Every step keeps it.
LEMMA NextAloneIInv == AloneIInv /\ [Next]_vars => AloneIInv'
BY NextIInv, NextIdsInv, NextAloneInv, NextBlindInv DEF AloneIInv

----------------------------------------------------------------------------
(* Calls that are never refused *)

\* A deploy that runs alone finds what its calls need.
LEMMA DoItFindsAll ==
  ASSUME IInv, NEW p \in Processes, At(p, "doing"), proc[p].at \in ActionNodes,
         Alone(proc[p], file, cloud)
  PROVE  ~Refused(p)
<1> DEFINE s == proc[p]
<1>1. saga \in Sagas /\ Sane(s) /\ ActionNodes = 1 .. Len(saga) /\ Len(saga) \in {4, 7}
  BY SaneOf
<1>2. Forward(s)
  BY <1>1 DEF Sane, Forward, At
<1>3. /\ CurrentCall(p) = DoIts[saga[s.at]][s.call]
      /\ s.call \in DOMAIN DoIts[saga[s.at]]
  BY <1>1 DEF CallsOf, CurrentCall, Sane, At
<1>4. FindOnly(DoIts[saga[s.at]], s.at)
  BY <1>1, NodeFinds
<1>5. ASSUME NEW x \in CurrentCall(p).needs
      PROVE  <<x, s.id>> \in cloud
  <2>1. x \in Things /\ MadeBefore(s.at, s.call, x)
    BY <1>3, <1>4, <1>5 DEF FindOnly
  <2>2. MadeAt[x] <= s.at /\ MadeAt[x] \in Nat
    BY <1>1, <2>1, NumberTypes DEF MadeBefore
  <2>3. x \in OfSaga
    BY <1>1, <2>1, <2>2 DEF OfSaga
  <2>4. QED
    BY <1>2, <2>1, <2>3 DEF Alone
<1>6. CurrentCall(p).blockers = {}
  BY <1>3, <1>4 DEF FindOnly
<1>7. QED
  BY <1>5, <1>6 DEF Refused, Of

\* All that lasts is in place.
AllThere(id, resources) == \A x \in Lasting : <<x, id>> \in resources

\* What a compensation has undone is gone, and what it has not undone is there.
HalfUndone(s, resources) ==
  /\ \A x \in OfSaga : Undone(s.at, s.call, x) => <<x, s.id>> \notin resources
  /\ \A x \in Lasting : ~Undone(s.at, s.call, x) => <<x, s.id>> \in resources

\* A command that goes on without a mishap: only a destroy compensates, and what it
\* fails at is the group, before which it has removed nothing that lasts.
Peaceful(s, resources) ==
  /\ IsSaving(s, "failed") => s.command = "destroy" /\ s.done = Len(saga) /\ AllThere(s.id, resources)
  /\ IsSaving(s, "completed") \/ IsSaving(s, "rolling_back") =>
       s.done = Len(saga) /\ AllThere(s.id, resources)
  /\ s.pc = "undoing" => s.command = "destroy" /\ s.done = Len(saga) /\ HalfUndone(s, resources)

\* A file that can be read is of a deploy that is complete and in place.
WholeOnFile(f, resources) == Readable(f) => f.done = Len(saga) /\ AllThere(f.id, resources)

PeaceInv ==
  mishaps = 0 /\ ~disturbed =>
    /\ (\A p \in Processes : At(p, "ended")) => WholeOnFile(file, cloud)
    /\ \A p \in Processes : Peaceful(proc[p], cloud)

\* A compensation finds what it has to undo, and nothing that blocks it but what is left
\* to the instance.
LEMMA UndoItFindsAll ==
  ASSUME IInv, NEW p \in Processes, At(p, "undoing"), HasCalls(p), HalfUndone(proc[p], cloud)
  PROVE  /\ Of(p, CurrentCall(p).needs) \subseteq cloud
         /\ Of(p, CurrentCall(p).blockers \ LeftToInstance) \cap cloud = {}
         /\ Refused(p) => /\ LeftToInstance # {} /\ proc[p].at = GroupNode /\ proc[p].call = 1
                          /\ ~CurrentCall(p).warnOnly
<1> DEFINE s == proc[p]
<1>1. /\ saga \in Sagas /\ Sane(s) /\ ActionNodes = 1 .. Len(saga) /\ Len(saga) \in {4, 7}
      /\ s.at \in ActionNodes
  BY SaneOf DEF HasCalls
<1>2. /\ CurrentCall(p) = UndoIts[saga[s.at]][s.call]
      /\ s.call \in DOMAIN UndoIts[saga[s.at]]
  BY CallMade DEF CallsOf, CurrentCall, At
<1>3. RemoveOnly(UndoIts[saga[s.at]], s.at)
  BY <1>1, NodeFinds
<1>4. ASSUME NEW x \in CurrentCall(p).needs
      PROVE  <<x, s.id>> \in cloud
  <2>1. x \in Things \ {"instance", "membership"} /\ MadeAt[x] <= s.at /\ ~Undone(s.at, s.call, x)
    BY <1>2, <1>3, <1>4 DEF RemoveOnly
  <2>2. MadeAt[x] \in Nat
    BY <2>1, NumberTypes
  <2>3. x \in Lasting
    BY <1>1, <2>1, <2>2 DEF Lasting, OfSaga
  <2>4. QED
    BY <2>1, <2>3 DEF HalfUndone
<1>5. ASSUME NEW x \in CurrentCall(p).blockers,
             ~(x \in LeftToInstance /\ s.at = GroupNode /\ s.call = 1 /\ ~CurrentCall(p).warnOnly)
      PROVE  <<x, s.id>> \notin cloud
  <2>1. x \in Things /\ Undone(s.at, s.call, x)
    BY <1>2, <1>3, <1>5 DEF RemoveOnly
  <2>2. CASE x \in OfSaga
    BY <2>1, <2>2 DEF HalfUndone
  <2>3. CASE x \notin OfSaga
    <3>1. \A node \in ActionNodes : x \notin MadeBy(node)
      <4>1. ASSUME NEW node \in ActionNodes, x \in MadeBy(node)
            PROVE  FALSE
        <5>1. MadeAt[x] = node
          BY <1>1, <4>1, MadeThings
        <5>2. QED
          BY <1>1, <2>1, <2>3, <5>1 DEF OfSaga
      <4>2. QED
        BY <4>1
    <3>2. x \notin Kinds
      BY <2>1, <3>1, NumberTypes DEF Kinds
    <3>3. QED
      BY <3>2 DEF IInv, CloudInv
  <2>4. QED
    BY <2>2, <2>3
<1>6. Of(p, CurrentCall(p).needs) \subseteq cloud
  BY <1>4 DEF Of
<1>7. Of(p, CurrentCall(p).blockers \ LeftToInstance) \cap cloud = {}
  BY <1>5 DEF Of
<1>8. QED
  BY <1>5, <1>6, <1>7 DEF Refused, Of

\* A step of the only process that runs.
LEMMA PeaceStep ==
  ASSUME IInv, NEW p \in Processes, NEW t, Become(p, t), UNCHANGED saga,
         \A q \in Processes : q # p => At(q, "ended"),
         Peaceful(t, cloud'), t.pc = "ended" => WholeOnFile(file', cloud')
  PROVE  PeaceInv'
<1>1. proc'[p] = t /\ \A q \in Processes : q # p => proc'[q] = proc[q]
  BY OthersKept DEF IInv
<1>2. \A q \in Processes : q # p => proc'[q].pc = "ended"
  BY <1>1 DEF At
<1>3. OfSaga' = OfSaga /\ Lasting' = Lasting /\ UndoneAt' = UndoneAt
  BY NodesStay DEF OfSaga, Lasting, UndoneAt
<1>4. ASSUME NEW q \in Processes
      PROVE  Peaceful(proc'[q], cloud')
  <2>1. CASE q = p
    BY <1>1, <2>1
  <2>2. CASE q # p
    BY <1>2, <2>2 DEF Peaceful, IsSaving
  <2>3. QED
    BY <2>1, <2>2
<1>5. ASSUME NEW q \in Processes
      PROVE  (Peaceful(proc[q], cloud))'
  BY <1>3, <1>4 DEF Peaceful, AllThere, HalfUndone, Undone
<1>6. ASSUME \A q \in Processes : proc'[q].pc = "ended"
      PROVE  (WholeOnFile(file, cloud))'
  <2>1. WholeOnFile(file', cloud')
    BY <1>1, <1>6
  <2>2. QED
    BY <1>3, <2>1 DEF WholeOnFile, AllThere
<1>7. QED
  BY <1>5, <1>6 DEF PeaceInv, At

\* The saves of a command that goes on without a mishap.
LEMMA PeaceSaves ==
  ASSUME IInv, NEW p \in Processes, ~disturbed', ~Mishap, Alone(proc[p], file, cloud),
         Peaceful(proc[p], cloud),
         \/ Truncate(p) \/ ExecuteBegins(p) \/ NodeSaved(p) \/ CompletionSaved(p)
         \/ CompensationBegins(p) \/ RollbackSaved(p) \/ Delete(p)
  PROVE  \E t : /\ Become(p, t) /\ Peaceful(t, cloud')
                /\ t.pc = "ended" => WholeOnFile(file', cloud')
<1> DEFINE s == proc[p]
           Goes(t) == /\ Become(p, t) /\ Peaceful(t, cloud')
                      /\ t.pc = "ended" => WholeOnFile(file', cloud')
<1>1. /\ s \in ProcessRecords /\ Sane(s) /\ s.at \in Nat /\ s.done \in Nat /\ s.done <= Len(saga)
      /\ Len(saga) \in {4, 7} /\ saga \in Sagas
  BY SaneOf
<1>2. ASSUME Save(p)
      PROVE  /\ s.pc = "writing" /\ cloud' = cloud
             /\ file' = [status |-> s.status, id |-> s.id, done |-> s.done]
  BY <1>2, SaveAlone DEF At
<1>3. CASE Truncate(p)
  <2> DEFINE t == [s EXCEPT !.pc = "writing"]
  <2>1. /\ Become(p, t) /\ t.pc = "writing" /\ cloud' = cloud /\ s.pc = "saving"
        /\ t.id = s.id /\ t.done = s.done /\ t.status = s.status /\ t.command = s.command
    BY <1>1, <1>3 DEF Truncate, Goto, At, ProcessRecords
  <2> HIDE DEF t
  <2>2. Goes(t)
    BY <2>1 DEF Peaceful, IsSaving
  <2>3. QED
    BY <2>2
<1>4. CASE ExecuteBegins(p) \/ (NodeSaved(p) /\ Goto(p, "doing"))
  <2> DEFINE t == [s EXCEPT !.pc = "doing"]
  <2>1. Become(p, t) /\ t.pc = "doing"
    BY <1>1, <1>4 DEF ExecuteBegins, SaveFails, Goto, ProcessRecords
  <2> HIDE DEF t
  <2>2. Goes(t)
    BY <2>1 DEF Peaceful, IsSaving
  <2>3. QED
    BY <2>2
<1>5. CASE NodeSaved(p) /\ s.at > LastNode /\ Persist(p, s, "completed")
  <2> DEFINE t == [s EXCEPT !.pc = "saving", !.status = "completed"]
  <2>1. Become(p, t) /\ t.pc = "saving" /\ t.status = "completed" /\ t.id = s.id /\ t.done = s.done
    BY <1>1, <1>5 DEF Persist, ProcessRecords
  <2> HIDE DEF t
  <2>2. Save(p) /\ s.status = "running" /\ s.command = "deploy"
    BY <1>5 DEF NodeSaved, Saving
  <2>3. Forward(s)
    BY <1>2, <2>2 DEF Forward, IsSaving
  <2>4. s.done = Len(saga) /\ s.at > Len(saga)
    BY <1>1, <1>5, <2>3 DEF Sane, LastNode
  <2>5. \A x \in OfSaga : MadeBefore(s.at, s.call, x)
    BY <1>1, <2>4, NumberTypes DEF MadeBefore, OfSaga
  <2>6. AllThere(s.id, cloud)
    BY <2>3, <2>5 DEF Alone, AllThere, Lasting
  <2>7. Goes(t)
    BY <1>2, <2>1, <2>2, <2>4, <2>6 DEF Peaceful, IsSaving
  <2>8. QED
    BY <2>7
<1>6. CASE CompletionSaved(p)
  <2> DEFINE t == [s EXCEPT !.pc = "ended", !.outcome = "deployed"]
  <2>1. Become(p, t) /\ t.pc = "ended"
    BY <1>1, <1>6 DEF CompletionSaved, End, ProcessRecords
  <2> HIDE DEF t
  <2>2. Save(p) /\ s.status = "completed"
    BY <1>6 DEF CompletionSaved, Saving
  <2>3. s.done = Len(saga) /\ AllThere(s.id, cloud)
    BY <1>2, <2>2 DEF Peaceful, IsSaving
  <2>4. Goes(t)
    BY <1>2, <2>1, <2>2, <2>3 DEF Peaceful, IsSaving, WholeOnFile
  <2>5. QED
    BY <2>4
<1>7. CASE CompensationBegins(p)
  <2> DEFINE t == [s EXCEPT !.pc = "undoing", !.at = s.done, !.call = 1]
  <2>1. /\ Become(p, t) /\ t.pc = "undoing" /\ t.at = s.done /\ t.call = 1 /\ t.id = s.id
        /\ t.command = s.command /\ t.done = s.done
    BY <1>1, <1>7 DEF CompensationBegins, ProcessRecords
  <2> HIDE DEF t
  <2>2. Save(p) /\ ((s.command = "deploy" /\ s.status = "failed")
                   \/ (s.status = "rolling_back" /\ s.command = "destroy"))
    BY <1>7 DEF CompensationBegins, Saving
  <2>3. /\ s.status = "rolling_back" /\ s.command = "destroy" /\ s.done = Len(saga)
        /\ AllThere(s.id, cloud)
    BY <1>2, <2>2 DEF Peaceful, IsSaving
  <2>4. ASSUME NEW x \in OfSaga
        PROVE  ~Undone(t.at, t.call, x)
    <3>1. x \in Things /\ MadeAt[x] <= Len(saga)
      BY DEF OfSaga
    <3>2. UndoneAt[x] <= MadeAt[x]
      BY <3>1, WhatIsMade, CallNumbers
    <3>3. MadeAt[x] \in Nat /\ UndoneAt[x] \in Nat /\ UndoneCall[x] \in Nat /\ UndoneCall[x] >= 1
      BY <3>1, NumberTypes
    <3>4. QED
      BY <1>1, <2>1, <2>3, <3>1, <3>2, <3>3 DEF Undone
  <2>5. HalfUndone(t, cloud')
    BY <1>2, <2>1, <2>2, <2>3, <2>4 DEF HalfUndone, AllThere
  <2>6. Goes(t)
    BY <2>1, <2>3, <2>5 DEF Peaceful, IsSaving
  <2>7. QED
    BY <2>6
<1>8. CASE RollbackSaved(p) /\ Goto(p, "deleting")
  <2> DEFINE t == [s EXCEPT !.pc = "deleting"]
  <2>1. Become(p, t) /\ t.pc = "deleting"
    BY <1>1, <1>8 DEF Goto, ProcessRecords
  <2> HIDE DEF t
  <2>2. Goes(t)
    BY <2>1 DEF Peaceful, IsSaving
  <2>3. QED
    BY <2>2
<1>9. CASE RollbackSaved(p) /\ s.status = "failed" /\ End(p, "destroyFailed")
  <2> DEFINE t == [s EXCEPT !.pc = "ended", !.outcome = "destroyFailed"]
  <2>1. Become(p, t) /\ t.pc = "ended"
    BY <1>1, <1>9 DEF End, ProcessRecords
  <2> HIDE DEF t
  <2>2. s.pc = "writing" /\ cloud' = cloud /\ file'.id = s.id /\ file'.done = s.done
    BY <1>2, <1>9 DEF RollbackSaved
  <2>3. s.done = Len(saga) /\ AllThere(s.id, cloud)
    BY <1>9, <2>2 DEF Peaceful, IsSaving
  <2>4. Goes(t)
    BY <2>1, <2>2, <2>3 DEF Peaceful, IsSaving, WholeOnFile
  <2>5. QED
    BY <2>4
<1>10. CASE Delete(p)
  <2> DEFINE t == [s EXCEPT !.pc = "ended", !.outcome = "destroyed"]
  <2>1. Become(p, t) /\ t.pc = "ended" /\ file' = NoFile
    BY <1>1, <1>10 DEF Delete, End, ProcessRecords
  <2> HIDE DEF t
  <2>2. Goes(t)
    BY <2>1 DEF Peaceful, IsSaving, WholeOnFile, Readable
  <2>3. QED
    BY <2>2
<1>11. QED
  BY <1>3, <1>4, <1>5, <1>6, <1>7, <1>8, <1>9, <1>10 DEF NodeSaved, RollbackSaved, Saving

\* What a call undoes, and what earlier calls undo, is undone after it.
LEMMA UndoneNext ==
  ASSUME NEW n \in Nat, NEW i \in Nat, NEW x \in Things
  PROVE  Undone(n, i + 1, x) <=> Undone(n, i, x) \/ (UndoneAt[x] = n /\ UndoneCall[x] = i)
<1>1. UndoneAt[x] \in Nat /\ UndoneCall[x] \in Nat
  BY NumberTypes
<1>2. QED
  BY <1>1 DEF Undone

\* After the last call of its node, all that was to be undone here is undone.
LEMMA UndoneLast ==
  ASSUME NEW n \in Nat \ {0}, NEW last \in Nat, NEW x \in Things, UndoneAt[x] = n => UndoneCall[x] <= last
  PROVE  Undone(n - 1, 1, x) <=> Undone(n, last + 1, x)
<1>1. UndoneAt[x] \in Nat /\ UndoneCall[x] \in 1 .. 4
  BY NumberTypes
<1>2. QED
  BY <1>1 DEF Undone

\* What is of a process is of its deploy.
LEMMA InOf ==
  ASSUME NEW p, NEW kinds, NEW x
  PROVE  <<x, proc[p].id>> \in Of(p, kinds) <=> x \in kinds
BY DEF Of

\* A call of an UndoIt that is answered undoes its own and nothing else.
LEMMA CallUndoes ==
  ASSUME IInv, NEW p \in Processes, At(p, "undoing"), HasCalls(p), HalfUndone(proc[p], cloud),
         cloud' = After(p)
  PROVE  /\ \A x \in OfSaga : Undone(proc[p].at, proc[p].call + 1, x) => <<x, proc[p].id>> \notin cloud'
         /\ \A x \in Lasting : ~Undone(proc[p].at, proc[p].call + 1, x) => <<x, proc[p].id>> \in cloud'
<1> DEFINE s == proc[p]
<1>1. saga \in Sagas /\ s.at \in ActionNodes /\ s.at \in Nat /\ s.call \in Nat
  BY SaneOf DEF HasCalls, ProcessRecords
<1>2. /\ CurrentCall(p) = UndoIts[saga[s.at]][s.call]
      /\ s.call \in DOMAIN UndoIts[saga[s.at]] /\ EndWith(UndoIts[saga[s.at]], s.at)
  BY CallMade DEF CallsOf, CurrentCall, At
<1>3. RemoveOnly(UndoIts[saga[s.at]], s.at)
  BY <1>1, NodeFinds
<1>4. cloud' = (cloud \cup Of(p, CurrentCall(p).makes)) \ Of(p, CurrentCall(p).removes)
  BY DEF After
<1>5. ASSUME NEW x \in Things
      PROVE  <<x, s.id>> \in cloud' <=> <<x, s.id>> \in cloud /\ x \notin CurrentCall(p).removes
  <2>1. x \notin CurrentCall(p).makes
    BY <1>2, NumberTypes DEF EndWith
  <2>2. <<x, s.id>> \notin Of(p, CurrentCall(p).makes)
    BY <2>1, InOf
  <2>3. <<x, s.id>> \in Of(p, CurrentCall(p).removes) <=> x \in CurrentCall(p).removes
    BY InOf
  <2>4. QED
    BY <1>4, <2>2, <2>3
<1>6. ASSUME NEW x \in OfSaga, Undone(s.at, s.call + 1, x)
      PROVE  <<x, s.id>> \notin cloud'
  <2>1. x \in Things
    BY ThingsOfSaga
  <2>2. CASE Undone(s.at, s.call, x)
    BY <1>5, <2>1, <2>2 DEF HalfUndone
  <2>3. CASE ~Undone(s.at, s.call, x)
    <3>1. UndoneAt[x] = s.at /\ UndoneCall[x] = s.call
      BY Zenon, <1>1, <1>6, <2>1, <2>3, UndoneNext
    <3>2. x \in CurrentCall(p).removes
      BY <1>2, <1>3, <2>1, <3>1 DEF RemoveOnly
    <3>3. QED
      BY <1>5, <2>1, <3>2
  <2>4. QED
    BY <2>2, <2>3
<1>7. ASSUME NEW x \in Lasting, ~Undone(s.at, s.call + 1, x)
      PROVE  <<x, s.id>> \in cloud'
  <2>1. x \in Things /\ x # "terminating"
    <3>1. x \in Things
      BY ThingsOfSaga
    <3>2. QED
      BY <3>1, NumberTypes
  <2>2. x \notin CurrentCall(p).removes
    BY <1>2, <1>3, <1>7, <2>1 DEF RemoveOnly
  <2>3. ~Undone(s.at, s.call, x)
    BY <1>1, <1>7, <2>1, UndoneNext
  <2>4. QED
    BY <1>5, <2>1, <2>2, <2>3 DEF HalfUndone
<1>8. QED
  BY <1>6, <1>7

\* The steps between the saves of a command that goes on without a mishap.
LEMMA PeaceCalls ==
  ASSUME IInv, NEW p \in Processes, ~disturbed', ~Mishap, Alone(proc[p], file, cloud),
         Peaceful(proc[p], cloud),
         SkipNode(p) \/ DoIt(p) \/ UndoIt(p) \/ UndoesNothing(p) \/ AllUndone(p)
  PROVE  \E t : Become(p, t) /\ Peaceful(t, cloud') /\ t.pc # "ended"
<1> DEFINE s == proc[p]
           Goes(t) == Become(p, t) /\ Peaceful(t, cloud') /\ t.pc # "ended"
<1>1. /\ s \in ProcessRecords /\ Sane(s) /\ s.at \in Nat /\ s.call \in Nat /\ saga \in Sagas
      /\ ActionNodes = 1 .. Len(saga) /\ Len(saga) \in {4, 7}
  BY SaneOf DEF ProcessRecords
<1>2. ASSUME NEW t, Become(p, t), t.pc = "saving", t.status \in {"running", "rolled_back"}
      PROVE  Goes(t)
  BY <1>2 DEF Peaceful, IsSaving
<1>3. CASE SkipNode(p)
  <2> DEFINE t == [s EXCEPT !.at = s.at + 1, !.pc = "saving", !.status = "running"]
  <2>1. Become(p, t) /\ t.pc = "saving" /\ t.status = "running"
    BY <1>1, <1>3 DEF SkipNode, Persist, ProcessRecords
  <2> HIDE DEF t
  <2>2. Goes(t)
    BY <1>2, <2>1
  <2>3. QED
    BY <2>2
<1>4. CASE DoIt(p)
  <2>1. ~Failing(p)
    BY <1>4, DoItFindsAll DEF DoIt, Failing
  <2>2. CASE NextCall(p)
    <3> DEFINE t == [s EXCEPT !.call = s.call + 1]
    <3>1. Become(p, t) /\ t.pc = "doing"
      BY <1>1, <1>4, <2>2 DEF NextCall, Become, ProcessRecords, DoIt, At
    <3> HIDE DEF t
    <3>2. Goes(t)
      BY <3>1 DEF Peaceful, IsSaving
    <3>3. QED
      BY <3>2
  <2>3. CASE Persist(p, [s EXCEPT !.at = s.at + 1, !.done = s.done + 1, !.call = 1], "running")
    <3> DEFINE t == [s EXCEPT !.at = s.at + 1, !.done = s.done + 1, !.call = 1,
                              !.pc = "saving", !.status = "running"]
    <3>1. Become(p, t) /\ t.pc = "saving" /\ t.status = "running"
      BY <1>1, <2>3 DEF Persist, ProcessRecords
    <3> HIDE DEF t
    <3>2. Goes(t)
      BY <1>2, <3>1
    <3>3. QED
      BY <3>2
  <2>4. QED
    BY <1>1, <1>4, <2>1, <2>2, <2>3 DEF DoIt, ProcessRecords
<1>5. ASSUME At(p, "undoing")
      PROVE  s.command = "destroy" /\ s.done = Len(saga) /\ HalfUndone(s, cloud) /\ s.pc = "undoing"
  BY <1>5 DEF Peaceful, At
<1>6. CASE UndoIt(p) /\ Refused(p)
  <2> DEFINE t == [s EXCEPT !.pc = "saving", !.status = "failed"]
  <2>1. At(p, "undoing") /\ HasCalls(p)
    BY <1>6 DEF UndoIt
  <2>2. LeftToInstance # {} /\ s.at = GroupNode /\ s.call = 1 /\ ~CurrentCall(p).warnOnly
    BY <1>5, <1>6, <2>1, UndoItFindsAll
  <2>3. cloud' = cloud /\ CompensationEnds(p, "failed")
    BY <1>6, <2>2 DEF UndoIt, Answered, Failing
  <2>4. Become(p, t)
    BY <1>5, <2>1, <2>3 DEF CompensationEnds, Persist
  <2>5. /\ t.pc = "saving" /\ t.status = "failed" /\ t.command = s.command /\ t.id = s.id
        /\ t.done = s.done
    BY <1>1 DEF ProcessRecords
  <2> HIDE DEF t
  <2>6. AllThere(s.id, cloud)
    <3>1. saga = InstanceFirst /\ s.at = 6
      BY <2>2 DEF LeftToInstance, GroupNode
    <3>2. ASSUME NEW x \in Things
          PROVE  ~Undone(s.at, s.call, x)
      <4>1. UndoneAt[x] \in Nat /\ UndoneAt[x] <= 6
        BY <3>1, WhatIsMade, CallNumbers DEF GroupNode, InstanceNode
      <4>2. UndoneCall[x] \in 1 .. 4
        BY NumberTypes
      <4>3. QED
        BY <2>2, <3>1, <4>1, <4>2 DEF Undone
    <3>3. QED
      BY <1>5, <2>1, <3>2, ThingsOfSaga DEF HalfUndone, AllThere
  <2>7. Goes(t)
    BY <1>5, <2>1, <2>3, <2>4, <2>5, <2>6 DEF Peaceful, IsSaving
  <2>8. QED
    BY <2>7
<1>7. CASE UndoIt(p) /\ ~Refused(p)
  <2>1. At(p, "undoing") /\ HasCalls(p)
    BY <1>7 DEF UndoIt
  <2>2. ~Refused(p)
    BY <1>7
  <2>3. Answered(p) /\ cloud' = After(p)
    BY <1>7, <2>2 DEF UndoIt, Failing, Answered
  <2>4. /\ \A x \in OfSaga : Undone(s.at, s.call + 1, x) => <<x, s.id>> \notin cloud'
        /\ \A x \in Lasting : ~Undone(s.at, s.call + 1, x) => <<x, s.id>> \in cloud'
    BY <1>5, <2>1, <2>3, CallUndoes
  <2>5. ASSUME NEW t, Become(p, t), t.pc = "undoing", t.command = s.command, t.id = s.id, t.done = s.done,
               \A x \in Things : Undone(t.at, t.call, x) <=> Undone(s.at, s.call + 1, x)
        PROVE  Goes(t)
    <3>1. OfSaga \subseteq Things /\ Lasting \subseteq Things
      BY DEF OfSaga, Lasting
    <3>2. HalfUndone(t, cloud')
      BY <2>4, <2>5, <3>1 DEF HalfUndone
    <3>3. QED
      BY <1>5, <2>1, <2>5, <3>2 DEF Peaceful, IsSaving
  <2>6. CASE NextCall(p)
    <3> DEFINE t == [s EXCEPT !.call = s.call + 1]
    <3>1. /\ Become(p, t) /\ t.pc = "undoing" /\ t.command = s.command /\ t.id = s.id
          /\ t.done = s.done /\ t.at = s.at /\ t.call = s.call + 1
      BY <1>1, <1>5, <2>1, <2>6 DEF NextCall, Become, ProcessRecords
    <3> HIDE DEF t
    <3>2. Goes(t)
      BY <2>5, <3>1
    <3>3. QED
      BY <3>2
  <2>7. CASE LastCall(p) /\ Become(p, [s EXCEPT !.at = s.at - 1, !.call = 1])
    <3> DEFINE t == [s EXCEPT !.at = s.at - 1, !.call = 1]
    <3>1. /\ t.pc = "undoing" /\ t.command = s.command /\ t.id = s.id /\ t.done = s.done
          /\ t.at = s.at - 1 /\ t.call = 1
      BY <1>1, <1>5, <2>1 DEF ProcessRecords
    <3>2. Become(p, t)
      BY <2>7
    <3> HIDE DEF t
    <3>3. s.at \in Nat \ {0} /\ s.at \in ActionNodes
      BY <1>1, <2>1 DEF HasCalls
    <3>4. s.call = Len(UndoIts[saga[s.at]])
      BY <2>1, <2>7 DEF LastCall, CallsOf, At
    <3>5. ASSUME NEW x \in Things, UndoneAt[x] = s.at
          PROVE  UndoneCall[x] <= s.call
      <4>1. UndoneCall[x] \in DOMAIN UndoIts[saga[s.at]]
        BY <1>1, <3>3, <3>5, NodeFinds DEF RemoveOnly
      <4>2. DOMAIN UndoIts[saga[s.at]] = 1 .. Len(UndoIts[saga[s.at]])
        BY <1>1, <3>3, NodeCalls DEF EndWith
      <4>3. QED
        BY <3>4, <4>1, <4>2
    <3>6. \A x \in Things : Undone(t.at, t.call, x) <=> Undone(s.at, s.call + 1, x)
      BY <1>1, <3>1, <3>3, <3>5, UndoneLast
    <3>7. Goes(t)
      BY <2>5, <3>1, <3>2, <3>6
    <3>8. QED
      BY <3>7
  <2>8. QED
    BY <1>1, <1>7, <2>2, <2>6, <2>7 DEF UndoIt, Failing, ProcessRecords
<1>8. CASE UndoesNothing(p)
  <2> DEFINE t == [s EXCEPT !.at = s.at - 1]
  <2>1. /\ s.pc = "undoing" /\ s.at \in 1 .. Len(saga) /\ UndoIts[saga[s.at]] = <<>>
        /\ Become(p, t) /\ cloud' = cloud
    BY <1>1, <1>8 DEF UndoesNothing, HasCalls, CallsOf, At
  <2>2. s.call = 1
    BY <1>1, <2>1 DEF Sane
  <2>3. /\ t.pc = "undoing" /\ t.command = s.command /\ t.id = s.id /\ t.done = s.done
        /\ t.at = s.at - 1 /\ t.call = 1
    BY <1>1, <2>1, <2>2 DEF ProcessRecords
  <2> HIDE DEF t
  <2>4. ASSUME NEW x \in Things
        PROVE  Undone(t.at, t.call, x) <=> Undone(s.at, s.call, x)
    <3>1. UndoneAt[x] # s.at
      BY <1>1, <2>1, NodeFinds DEF RemoveOnly
    <3>2. UndoneAt[x] \in Nat /\ UndoneCall[x] \in 1 .. 4
      BY NumberTypes
    <3>3. QED
      BY <1>1, <2>1, <2>2, <2>3, <3>1, <3>2 DEF Undone
  <2>5. s.command = "destroy" /\ s.done = Len(saga) /\ HalfUndone(s, cloud)
    BY <1>5, <2>1 DEF At
  <2>6. HalfUndone(t, cloud')
    BY <2>1, <2>3, <2>4, <2>5 DEF HalfUndone, OfSaga, Lasting
  <2>7. Goes(t)
    BY <2>1, <2>3, <2>5, <2>6 DEF Peaceful, IsSaving
  <2>8. QED
    BY <2>7
<1>9. CASE AllUndone(p)
  <2> DEFINE t == [s EXCEPT !.pc = "saving", !.status = "rolled_back"]
  <2>1. Become(p, t)
    BY <1>5, <1>9 DEF AllUndone, CompensationEnds, Persist
  <2>2. t.pc = "saving" /\ t.status = "rolled_back"
    BY <1>1 DEF ProcessRecords
  <2> HIDE DEF t
  <2>3. Goes(t)
    BY <1>2, <2>1, <2>2
  <2>4. QED
    BY <2>3
<1>10. QED
  BY <1>3, <1>4, <1>6, <1>7, <1>8, <1>9

\* A command that goes on without a mishap, and alone, goes on as it should.
LEMMA NextPeaceInv ==
  ASSUME AloneIInv, PeaceInv, [Next]_vars
  PROVE  PeaceInv'
<1> SUFFICES ASSUME mishaps' = 0, ~disturbed'
             PROVE  PeaceInv'
  BY DEF PeaceInv
<1> USE DEF AloneIInv
<1>1. mishaps \in Nat /\ mishaps = 0 /\ ~disturbed /\ UNCHANGED saga /\ ~Mishap
  BY NeverBack DEF IInv, StateInv, Mishap
<1>2. /\ \A p, q \in Processes : p # q => At(p, "ended") \/ At(q, "ended")
      /\ \A p \in Processes : Alone(proc[p], file, cloud) /\ Peaceful(proc[p], cloud)
      /\ (\A p \in Processes : At(p, "ended")) => WholeOnFile(file, cloud)
  BY <1>1 DEF AloneInv, PeaceInv
<1>3. OfSaga' = OfSaga /\ Lasting' = Lasting /\ UndoneAt' = UndoneAt
  BY <1>1, NodesStay DEF OfSaga, Lasting, UndoneAt
<1>4. ASSUME UNCHANGED <<file, proc>>,
             \A x \in Things, id \in Nat : <<x, id>> \in cloud' => <<x, id>> \in cloud,
             \A x \in Lasting, id \in Nat : <<x, id>> \in cloud => <<x, id>> \in cloud'
      PROVE  PeaceInv'
  <2>1. OfSaga \subseteq Things
    BY DEF OfSaga
  <2>2. ASSUME NEW p \in Processes
        PROVE  (Peaceful(proc[p], cloud))'
    <3>1. proc[p].id \in Nat
      BY SaneOf
    <3>2. Peaceful(proc[p], cloud')
      BY <1>2, <1>4, <2>1, <3>1 DEF Peaceful, AllThere, HalfUndone
    <3>3. QED
      BY <1>1, <1>3, <1>4, <3>2 DEF Peaceful, AllThere, HalfUndone, Undone
  <2>3. ASSUME \A p \in Processes : At(p, "ended")
        PROVE  (WholeOnFile(file, cloud))'
    <3>1. Readable(file) => file.id \in Nat
      BY DEF IInv, StateInv, Readable, Files
    <3>2. WholeOnFile(file, cloud')
      BY <1>2, <1>4, <2>3, <3>1 DEF WholeOnFile, AllThere
    <3>3. QED
      BY <1>1, <1>3, <1>4, <3>2 DEF WholeOnFile, AllThere
  <2>4. QED
    BY <1>4, <2>2, <2>3 DEF PeaceInv, At
<1>5. CASE UNCHANGED vars
  BY <1>4, <1>5 DEF vars
<1>6. ASSUME NEW id, InstanceTerminates(id)
      PROVE  PeaceInv'
  <2>1. cloud' = cloud \ (OfInstance \X {id}) /\ UNCHANGED <<file, proc>>
    BY <1>6 DEF InstanceTerminates
  <2>2. \A x \in Lasting : x \notin OfInstance
    BY NumberTypes DEF Lasting, OfSaga, OfInstance
  <2>3. QED
    BY <1>4, <2>1, <2>2
<1>7. ASSUME NEW p \in Processes, At(p, "ended"), NEW outcome, Refuses(p, outcome), UNCHANGED <<file, cloud>>
      PROVE  PeaceInv'
  <2> DEFINE t == [NotRunning EXCEPT !.outcome = outcome]
  <2>1. Become(p, t) /\ t.pc = "ended"
    BY <1>7 DEF Refuses, NotRunning
  <2> HIDE DEF t
  <2>2. proc'[p] = t /\ \A q \in Processes : q # p => proc'[q] = proc[q]
    BY <2>1, OthersKept DEF IInv
  <2>3. ASSUME NEW q \in Processes
        PROVE  Peaceful(proc'[q], cloud') /\ (proc'[q].pc = "ended" => At(q, "ended"))
    <3>1. CASE q = p
      BY <1>7, <2>1, <2>2, <3>1 DEF Peaceful, IsSaving
    <3>2. CASE q # p
      BY <1>2, <1>7, <2>2, <3>2 DEF At
    <3>3. QED
      BY <3>1, <3>2
  <2>4. ASSUME NEW q \in Processes
        PROVE  (Peaceful(proc[q], cloud))'
    BY <1>1, <1>3, <2>3 DEF Peaceful, AllThere, HalfUndone, Undone
  <2>5. ASSUME \A q \in Processes : proc'[q].pc = "ended"
        PROVE  (WholeOnFile(file, cloud))'
    <3>1. WholeOnFile(file, cloud)
      BY <1>2, <2>3, <2>5
    <3>2. QED
      BY <1>1, <1>3, <1>7, <3>1 DEF WholeOnFile, AllThere
  <2>6. QED
    BY <2>4, <2>5 DEF PeaceInv, At
<1>8. ASSUME NEW p \in Processes, At(p, "ended"), NEW t, Starts(p, t), UNCHANGED <<file, cloud>>,
             t.pc = "saving",
             WholeOnFile(file, cloud) => Peaceful(t, cloud)
      PROVE  PeaceInv'
  <2>1. Become(p, t) /\ \A q \in Processes : q # p => At(q, "ended")
    BY <1>8 DEF Starts
  <2>2. Peaceful(t, cloud')
    BY <1>2, <1>8, <2>1
  <2>3. QED
    BY <1>1, <1>8, <2>1, <2>2, PeaceStep
<1>9. ASSUME NEW p \in Processes, Deploy(p)
      PROVE  PeaceInv'
  <2>1. CASE Refuses(p, "exists") \/ Refuses(p, "noConfig")
    BY <1>7, <1>9, <2>1 DEF Deploy
  <2>2. CASE StartsDeploy(p)
    <3> DEFINE t == [NotRunning EXCEPT !.pc = "saving", !.command = "deploy",
                                       !.id = deploys', !.status = "running"]
    <3>1. t.pc = "saving" /\ t.status = "running"
      BY DEF NotRunning
    <3> HIDE DEF t
    <3>2. Peaceful(t, cloud)
      BY <3>1 DEF Peaceful, IsSaving
    <3>3. QED
      BY <1>8, <1>9, <2>2, <3>1, <3>2 DEF Deploy, StartsDeploy, t
  <2>3. QED
    BY <1>9, <2>1, <2>2 DEF Deploy
<1>10. ASSUME NEW p \in Processes, Destroy(p)
       PROVE  PeaceInv'
  <2>1. ASSUME NEW outcome, Refuses(p, outcome)
        PROVE  PeaceInv'
    BY <1>7, <1>10, <2>1 DEF Destroy
  <2>2. CASE /\ Readable(file)
             /\ Starts(p, [NotRunning EXCEPT !.pc = "saving", !.command = "destroy",
                            !.id = file.id, !.done = file.done, !.status = "rolling_back"])
    <3> DEFINE t == [NotRunning EXCEPT !.pc = "saving", !.command = "destroy",
                     !.id = file.id, !.done = file.done, !.status = "rolling_back"]
    <3>1. t.pc = "saving" /\ t.id = file.id /\ t.done = file.done /\ t.status = "rolling_back"
      BY DEF NotRunning
    <3> HIDE DEF t
    <3>2. WholeOnFile(file, cloud) => Peaceful(t, cloud)
      BY <2>2, <3>1 DEF Peaceful, IsSaving, WholeOnFile
    <3>3. QED
      BY <1>8, <1>10, <2>2, <3>1, <3>2 DEF Destroy, t
  <2>3. QED
    BY <1>10, <2>1, <2>2 DEF Destroy
<1>11. ASSUME NEW p \in Processes, Running(p)
       PROVE  PeaceInv'
  <2>1. ~At(p, "ended")
    BY <1>11 DEF Running, Truncate, ExecuteBegins, NodeSaved, CompletionSaved, CompensationBegins,
       RollbackSaved, Delete, SkipNode, DoIt, UndoIt, UndoesNothing, AllUndone, Saving, At
  <2>2. \A q \in Processes : q # p => At(q, "ended")
    BY <1>2, <2>1
  <2>3. \E t : /\ Become(p, t) /\ Peaceful(t, cloud')
               /\ t.pc = "ended" => WholeOnFile(file', cloud')
    BY <1>1, <1>2, <1>11, PeaceSaves, PeaceCalls DEF Running
  <2>4. QED
    BY <1>1, <2>2, <2>3, PeaceStep
<1>12. ASSUME NEW p \in Processes, Kill(p)
       PROVE  FALSE
  BY <1>1, <1>12 DEF Kill
<1>13. QED
  BY <1>5, <1>6, <1>9, <1>10, <1>11, <1>12 DEF Next

\* Without another command beside it and without a mishap, every call of an action finds
\* what it needs, which the actions before it made and which is not removed yet, and no
\* removal finds anything in its way that an UndoIt before it should have removed: only
\* a membership, where the server's order leaves it to an instance made before the group.
THEOREM NeverRefused == Spec => []NeverRefusedInPeace
<1>1. ASSUME AloneIInv, PeaceInv
      PROVE  NeverRefusedInPeace
  <2>1. SUFFICES ASSUME mishaps = 0, ~disturbed, NEW p \in Processes, HasCalls(p),
                        At(p, "doing") \/ At(p, "undoing")
                 PROVE  /\ Of(p, CurrentCall(p).needs) \subseteq cloud
                        /\ Of(p, CurrentCall(p).blockers \ LeftToInstance) \cap cloud = {}
    BY DEF NeverRefusedInPeace
  <2>2. Alone(proc[p], file, cloud) /\ Peaceful(proc[p], cloud) /\ IInv
    BY <1>1, <2>1 DEF AloneIInv, AloneInv, PeaceInv
  <2>3. CASE At(p, "doing")
    BY <2>1, <2>2, <2>3, DoItFindsAll DEF HasCalls, Refused, Of
  <2>4. CASE At(p, "undoing")
    BY <2>1, <2>2, <2>4, UndoItFindsAll DEF Peaceful, At
  <2>5. QED
    BY <2>1, <2>3, <2>4
<1>2. Init => PeaceInv
  BY DEF Init, PeaceInv, Peaceful, IsSaving, NotRunning, WholeOnFile, Readable
<1>3. QED
  BY <1>1, <1>2, InitAloneIInv, NextAloneIInv, NextPeaceInv, PTL DEF Spec

----------------------------------------------------------------------------
(* What is left behind *)

\* Something that the action of this node makes is in place for this deploy.
InPlace(n, id, resources) == \E x \in MadeBy(n) : <<x, id>> \in resources

\* The action is on record in the file.
OnFile(f, n, id) == Readable(f) /\ f.id = id /\ n <= f.done

\* It is made, is to be saved, or is about to be on record.
InHand(s, n, id) ==
  /\ s.id = id
  /\ \/ s.pc = "doing" /\ n = s.at
     \/ IsSaving(s, "running") /\ n = s.done
     \/ s.pc = "writing" /\ n <= s.done

\* What is in place and neither on record nor in the hands of a process, and was not
\* on a file that a deploy could not read.
Lost ==
  {l \in ActionNodes \X (1 .. MaxDeploys) :
     /\ InPlace(l[1], l[2], cloud) /\ ~OnFile(file, l[1], l[2]) /\ l \notin unread
     /\ \A p \in Processes : ~InHand(proc[p], l[1], l[2])}

\* The one action that a process that neither writes nor compensates has in hand.
Handed(s) == <<IF s.pc = "doing" THEN s.at ELSE s.done, s.id>>

\* A mishap loses one action at most.
LostInv == ~disturbed => Cardinality(Lost) <= mishaps

\* What a step makes is of the action that the deploy is at.
LEMMA NewlyInPlace ==
  ASSUME IInv, NEW p \in Processes, MakesOwn(p), NEW n \in ActionNodes, NEW id,
         InPlace(n, id, cloud'), ~InPlace(n, id, cloud)
  PROVE  proc[p].pc = "doing" /\ n = proc[p].at /\ id = proc[p].id
<1>1. PICK x \in MadeBy(n) : <<x, id>> \in cloud'
  BY DEF InPlace
<1>2. saga \in Sagas /\ <<x, id>> \notin cloud
  BY SaneOf DEF InPlace
<1>3. x \in Things /\ MadeAt[x] = n
  BY <1>2, MadeThings
<1>4. x # "terminating"
  BY <1>3, NumberTypes
<1>5. /\ proc[p].pc = "doing" /\ proc[p].at \in ActionNodes
      /\ x \in MadeBy(proc[p].at) /\ id = proc[p].id
  BY <1>1, <1>2, <1>4 DEF MakesOwn
<1>6. MadeAt[x] = proc[p].at
  BY <1>2, <1>5, MadeThings
<1>7. QED
  BY <1>3, <1>5, <1>6

\* A process that is at the file's removal has left nothing of what is on record in place.
LEMMA NothingDeleted ==
  ASSUME IInv, NEW p \in Processes, At(p, "deleting"), Alone(proc[p], file, cloud),
         NEW n \in ActionNodes, NEW id, OnFile(file, n, id)
  PROVE  ~InPlace(n, id, cloud)
<1>1. /\ saga \in Sagas /\ ActionNodes = 1 .. Len(saga) /\ proc[p].at = 0 /\ proc[p].done \in Nat
      /\ Len(saga) \in {4, 7}
  BY SaneOf DEF Sane, At
<1>2. GoneBehind(proc[p], cloud)
  BY DEF IInv, GoneInv, Compensating, At
<1>3. id = proc[p].id /\ n <= proc[p].done
  <2>1. file.done \in Nat /\ n \in Nat
    BY <1>1 DEF OnFile, IInv, StateInv, Readable, Files
  <2>2. file.id = proc[p].id /\ file.done <= proc[p].done
    BY DEF OnFile, Alone, Unsaved, At
  <2>3. QED
    BY <1>1, <2>1, <2>2 DEF OnFile
<1>4. ASSUME NEW x \in MadeBy(n)
      PROVE  <<x, id>> \notin cloud
  <2>1. x \in Things /\ MadeAt[x] = n
    BY <1>1, MadeThings
  <2>2. 0 < GoneAt[x]
    BY <2>1, WhatIsMade
  <2>3. QED
    BY <1>1, <1>2, <1>3, <2>1, <2>2 DEF GoneBehind
<1>5. QED
  BY <1>4 DEF InPlace

\* A save puts on record what the process knows, or fails.
LEMMA SaveRecords ==
  ASSUME IInv, NEW p \in Processes, Save(p), ~disturbed', Alone(proc[p], file, cloud),
         NEW n \in ActionNodes, NEW id, InPlace(n, id, cloud'), ~OnFile(file', n, id),
         ~InPlace(n, id, cloud) \/ OnFile(file, n, id) \/ InHand(proc[p], n, id)
  PROVE  mishaps' = mishaps + 1 /\ <<n, id>> = Handed(proc[p])
<1> DEFINE s == proc[p]
<1>1. s \in ProcessRecords /\ Sane(s) /\ s.done \in Nat /\ n \in Nat
  BY SaneOf
<1>2. cloud' = cloud
  BY SaveAlone
<1>3. CASE /\ s.pc = "writing"
           /\ file' = [status |-> s.status, id |-> s.id, done |-> s.done]
  <2>1. s.status \in Statuses
    BY <1>1, <1>3 DEF Sane
  <2>2. Readable(file') /\ file'.id = s.id /\ file'.done = s.done
    BY <1>3, <2>1 DEF Readable, NoFile, TornFile, Statuses
  <2>3. ~OnFile(file, n, id)
    BY <1>3 DEF Alone, OnFile, Readable
  <2>4. id = s.id /\ n <= s.done
    BY <1>1, <1>2, <1>3, <2>3 DEF InHand
  <2>5. QED
    BY <2>2, <2>4 DEF OnFile
<1>4. CASE s.pc = "saving" /\ UNCHANGED file /\ Mishap
  BY <1>2, <1>4 DEF InHand, Handed, Mishap
<1>5. QED
  BY <1>3, <1>4, SaveAlone DEF At

\* A deploy that runs alone loses its action by a mishap: before a call that is answered
\* it is at the action, and after it too or about to save it.
LEMMA DoItLoses ==
  ASSUME IInv, NEW p \in Processes, DoIt(p), Alone(proc[p], file, cloud),
         NEW n \in ActionNodes, NEW id, InPlace(n, id, cloud'), ~OnFile(file', n, id),
         ~InHand(proc'[p], n, id),
         ~InPlace(n, id, cloud) \/ OnFile(file, n, id) \/ InHand(proc[p], n, id)
  PROVE  mishaps' = mishaps + 1 /\ <<n, id>> = Handed(proc[p])
<1> DEFINE s == proc[p]
<1>1. /\ s \in ProcessRecords /\ Sane(s) /\ s.at \in Nat /\ s.done \in Nat
      /\ ActionNodes = 1 .. Len(saga) /\ Len(saga) \in {4, 7}
  BY SaneOf
<1>2. s.pc = "doing" /\ s.at \in ActionNodes /\ file' = file
  BY DEF DoIt, At
<1>3. s.done = s.at - 1
  <2>1. Forward(s)
    BY <1>1, <1>2 DEF Sane, Forward
  <2>2. QED
    BY <1>1, <1>2, <2>1 DEF Sane
<1>4. MakesOwn(p)
  <2>1. cloud' \ cloud \subseteq Of(p, CurrentCall(p).makes)
    BY CallFacts DEF DoIt
  <2>2. QED
    BY <1>2, <2>1, DoItMakes
<1>5. n = s.at /\ id = s.id
  <2>1. CASE InHand(s, n, id)
    BY <1>2, <2>1 DEF InHand, IsSaving
  <2>2. CASE ~InPlace(n, id, cloud)
    BY <1>4, <2>2, NewlyInPlace
  <2>3. QED
    BY <1>2, <2>1, <2>2
<1>6. <<n, id>> = Handed(s)
  BY <1>2, <1>5 DEF Handed
<1>7. ASSUME NEW t, Become(p, t)
      PROVE  ~InHand(t, n, id)
  BY <1>7, OthersKept DEF IInv
<1>8. CASE NextCall(p)
  <2> DEFINE t == [s EXCEPT !.call = s.call + 1]
  <2>1. Become(p, t)
    BY <1>1, <1>8 DEF NextCall, Become, ProcessRecords
  <2>2. t.pc = "doing" /\ t.at = s.at /\ t.id = s.id
    BY <1>1, <1>2 DEF ProcessRecords
  <2> HIDE DEF t
  <2>3. InHand(t, n, id)
    BY <1>5, <2>2 DEF InHand
  <2>4. QED
    BY <1>7, <2>1, <2>3
<1>9. CASE Persist(p, [s EXCEPT !.at = s.at + 1, !.done = s.done + 1, !.call = 1], "running")
  <2> DEFINE t == [s EXCEPT !.at = s.at + 1, !.done = s.done + 1, !.call = 1,
                            !.pc = "saving", !.status = "running"]
  <2>1. Become(p, t)
    BY <1>1, <1>9 DEF Persist, ProcessRecords
  <2>2. t.pc = "saving" /\ t.status = "running" /\ t.done = s.done + 1 /\ t.id = s.id
    BY <1>1 DEF ProcessRecords
  <2> HIDE DEF t
  <2>3. InHand(t, n, id)
    BY <1>1, <1>3, <1>5, <2>2 DEF InHand, IsSaving
  <2>4. QED
    BY <1>7, <2>1, <2>3
<1>10. CASE Failing(p)
  <2>1. ~Refused(p)
    BY <1>2, DoItFindsAll DEF At
  <2>2. QED
    BY <1>6, <1>10, <2>1 DEF Failing, Mishap
<1>11. QED
  BY <1>1, <1>8, <1>9, <1>10 DEF DoIt, ProcessRecords

\* A command that runs alone loses one action by a mishap, and no more.
LEMMA RunLoses ==
  ASSUME IInv, NEW p \in Processes, Running(p) \/ Kill(p), ~disturbed', Alone(proc[p], file, cloud),
         NEW n \in ActionNodes, NEW id, InPlace(n, id, cloud'), ~OnFile(file', n, id),
         ~InHand(proc'[p], n, id), <<n, id>> \notin unread,
         Unsaved(proc[p]) /\ Readable(file) => OnRecord(file) \subseteq unread,
         ~InPlace(n, id, cloud) \/ OnFile(file, n, id) \/ InHand(proc[p], n, id)
  PROVE  mishaps' = mishaps + 1 /\ <<n, id>> = Handed(proc[p])
<1> DEFINE s == proc[p]
<1>1. /\ s \in ProcessRecords /\ Sane(s) /\ s.done \in Nat /\ n \in Nat /\ n >= 1
      /\ Len(saga) \in {4, 7} /\ ActionNodes = 1 .. Len(saga)
  BY SaneOf
<1>2. CASE Truncate(p)
  <2> DEFINE t == [s EXCEPT !.pc = "writing"]
  <2>1. Become(p, t) /\ cloud' = cloud /\ s.pc = "saving"
    BY <1>2 DEF Truncate, Goto, At
  <2>2. t.pc = "writing" /\ t.id = s.id /\ t.done = s.done
    BY <1>1 DEF ProcessRecords
  <2> HIDE DEF t
  <2>3. proc'[p] = t
    BY <2>1, OthersKept DEF IInv
  <2>4. id = s.id /\ n <= s.done
    <3>1. CASE InHand(s, n, id)
      BY <1>1, <2>1, <3>1 DEF InHand
    <3>2. CASE OnFile(file, n, id)
      <4>1. file.done \in Nat
        BY <3>2 DEF OnFile, IInv, StateInv, Readable, Files
      <4>2. ~Unsaved(s)
        BY <1>1, <3>2, <4>1 DEF OnFile, OnRecord
      <4>3. file.id = s.id /\ file.done <= s.done
        BY <2>1, <3>2, <4>2 DEF OnFile, Alone
      <4>4. QED
        BY <1>1, <3>2, <4>1, <4>3 DEF OnFile
    <3>3. QED
      BY <2>1, <3>1, <3>2
  <2>5. QED
    BY <2>2, <2>3, <2>4 DEF InHand
<1>3. CASE ExecuteBegins(p) \/ NodeSaved(p) \/ CompletionSaved(p) \/ CompensationBegins(p)
           \/ RollbackSaved(p)
  <2>1. Save(p)
    BY <1>3 DEF ExecuteBegins, NodeSaved, CompletionSaved, CompensationBegins, RollbackSaved, Save
  <2>2. QED
    BY <2>1, SaveRecords
<1>4. CASE Delete(p)
  <2>1. At(p, "deleting") /\ cloud' = cloud
    BY <1>4 DEF Delete
  <2>2. ~InHand(s, n, id)
    BY <2>1 DEF InHand, IsSaving, At
  <2>3. QED
    BY <2>1, <2>2, NothingDeleted
<1>5. CASE SkipNode(p)
  <2>1. s.pc = "doing" /\ s.at \notin ActionNodes /\ cloud' = cloud /\ file' = file
    BY <1>5 DEF SkipNode, At
  <2>2. QED
    BY <2>1 DEF InHand, IsSaving
<1>6. CASE DoIt(p)
  BY <1>6, DoItLoses
<1>7. CASE UndoIt(p) \/ UndoesNothing(p) \/ AllUndone(p)
  <2>1. s.pc = "undoing" /\ file' = file
    BY <1>7 DEF UndoIt, UndoesNothing, AllUndone, At
  <2>2. ~InHand(s, n, id)
    BY <2>1 DEF InHand, IsSaving
  <2>3. MakesOwn(p)
    <3>1. CASE UndoIt(p)
      <4>1. cloud' \ cloud \subseteq Of(p, CurrentCall(p).makes)
        BY <3>1, CallFacts DEF UndoIt
      <4>2. QED
        BY <2>1, <3>1, <4>1, UndoItMakes DEF UndoIt
    <3>2. CASE UndoesNothing(p) \/ AllUndone(p)
      BY <3>2, MakesNothing DEF UndoesNothing, AllUndone
    <3>3. QED
      BY <1>7, <3>1, <3>2
  <2>4. QED
    BY <2>1, <2>2, <2>3, NewlyInPlace
<1>8. CASE Kill(p)
  <2>1. Mishap /\ ~At(p, "writing")
    BY <1>8 DEF Kill
  <2>2. CASE InHand(s, n, id)
    BY <2>1, <2>2 DEF InHand, Handed, IsSaving, At, Mishap
  <2>3. CASE ~InHand(s, n, id)
    <3>1. CASE UNCHANGED file
      <4>1. MakesOwn(p)
        <5>1. CASE cloud' = cloud
          BY <5>1, MakesNothing
        <5>2. CASE (At(p, "doing") \/ At(p, "undoing")) /\ HasCalls(p) /\ cloud' = After(p)
          <6>1. cloud' \ cloud \subseteq Of(p, CurrentCall(p).makes)
            BY <5>2 DEF After
          <6>2. QED
            BY <5>2, <6>1, DoItMakes, UndoItMakes DEF At, HasCalls
        <5>3. QED
          BY <1>8, <5>1, <5>2 DEF Kill
      <4>2. ~InPlace(n, id, cloud)
        BY <2>3, <3>1
      <4>3. QED
        BY <2>1, <4>1, <4>2, NewlyInPlace DEF Handed, Mishap
    <3>2. CASE At(p, "deleting") /\ UNCHANGED cloud
      BY <2>3, <3>2, NothingDeleted
    <3>3. QED
      BY <1>8, <3>1, <3>2 DEF Kill
  <2>4. QED
    BY <2>2, <2>3
<1>9. QED
  BY <1>2, <1>3, <1>4, <1>5, <1>6, <1>7, <1>8 DEF Running

\* What is lost by a step was in the hands of the only process that runs.
LEMMA NewlyLost ==
  ASSUME AloneIInv, [Next]_vars, ~disturbed', NEW l \in Lost', l \notin Lost
  PROVE  /\ mishaps' = mishaps + 1
         /\ \E p \in Processes : ~At(p, "ended") /\ l = Handed(proc[p])
<1> USE DEF AloneIInv
<1>1. /\ ~disturbed /\ UNCHANGED saga
      /\ \A p, q \in Processes : p # q => At(p, "ended") \/ At(q, "ended")
      /\ \A p \in Processes : Alone(proc[p], file, cloud)
  BY NeverBack DEF AloneInv
<1>2. PICK n \in ActionNodes, id \in 1 .. MaxDeploys : l = <<n, id>>
  BY <1>1 DEF Lost, ActionNodes
<1>3. /\ InPlace(n, id, cloud') /\ ~OnFile(file', n, id) /\ <<n, id>> \notin unread
      /\ \A p \in Processes : ~InHand(proc'[p], n, id)
  <2>1. MadeBy(n)' = MadeBy(n)
    BY <1>1 DEF MadeBy
  <2>2. unread \subseteq unread'
    BY UnreadGrows
  <2>3. QED
    BY <1>2, <2>1, <2>2 DEF Lost, InPlace, OnFile, InHand, IsSaving
<1>4. \/ ~InPlace(n, id, cloud) \/ OnFile(file, n, id)
      \/ \E p \in Processes : InHand(proc[p], n, id)
  BY <1>2, <1>3 DEF Lost
<1>5. ASSUME NEW p \in Processes, At(p, "ended")
      PROVE  ~InHand(proc[p], n, id)
  BY <1>5 DEF InHand, IsSaving, At
<1>6. CASE UNCHANGED vars
  BY <1>3, <1>4, <1>6 DEF vars
<1>7. CASE \E i \in 1 .. deploys : InstanceTerminates(i)
  <2>1. cloud' \subseteq cloud /\ UNCHANGED <<file, proc>>
    BY <1>7 DEF InstanceTerminates
  <2>2. QED
    BY <1>3, <1>4, <2>1 DEF InPlace
<1>8. ASSUME NEW p \in Processes, Deploy(p) \/ Destroy(p)
      PROVE  FALSE
  <2>1. At(p, "ended") /\ UNCHANGED <<file, cloud>>
    BY <1>8 DEF Deploy, Destroy
  <2>2. \A q \in Processes : q # p => proc'[q] = proc[q]
    BY <1>8, StepsBecome, OthersKept DEF IInv
  <2>3. QED
    BY <1>3, <1>4, <1>5, <2>1, <2>2
<1>9. ASSUME NEW p \in Processes, Running(p) \/ Kill(p)
      PROVE  mishaps' = mishaps + 1 /\ ~At(p, "ended") /\ l = Handed(proc[p])
  <2>1. ~At(p, "ended")
    BY <1>9 DEF Running, Kill, Truncate, ExecuteBegins, NodeSaved, CompletionSaved, CompensationBegins,
       RollbackSaved, Delete, SkipNode, DoIt, UndoIt, UndoesNothing, AllUndone, Saving, At
  <2>2. \A q \in Processes : InHand(proc[q], n, id) => q = p
    BY <1>1, <1>5, <2>1
  <2>3. ~InPlace(n, id, cloud) \/ OnFile(file, n, id) \/ InHand(proc[p], n, id)
    BY <1>4, <2>2
  <2>4. Unsaved(proc[p]) /\ Readable(file) => OnRecord(file) \subseteq unread
    BY <1>1 DEF BlindInv
  <2>5. QED
    BY <1>1, <1>2, <1>3, <1>9, <2>1, <2>3, <2>4, RunLoses
<1>10. QED
  BY <1>6, <1>7, <1>8, <1>9 DEF Next

\* There are finitely many actions.
LEMMA LostFinite ==
  ASSUME saga \in Sagas
  PROVE  IsFiniteSet(Lost) /\ Cardinality(Lost) \in Nat
<1>1. ActionNodes = 1 .. Len(saga) /\ Len(saga) \in Int
  BY SagaShape
<1>2. IsFiniteSet(ActionNodes) /\ IsFiniteSet(1 .. MaxDeploys)
  BY <1>1, FS_Interval
<1>3. IsFiniteSet(ActionNodes \X (1 .. MaxDeploys))
  BY <1>2, FS_Product
<1>4. Lost \subseteq ActionNodes \X (1 .. MaxDeploys)
  BY DEF Lost
<1>5. QED
  BY <1>3, <1>4, FS_Subset, FS_CardinalityType

\* So one more is lost with each mishap, at most.
LEMMA NextLostInv ==
  ASSUME AloneIInv, LostInv, [Next]_vars
  PROVE  LostInv'
<1> SUFFICES ASSUME ~disturbed'
             PROVE  Cardinality(Lost') <= mishaps'
  BY DEF LostInv
<1>1. /\ saga \in Sagas /\ mishaps \in Nat /\ mishaps' \in {mishaps, mishaps + 1} /\ ~disturbed
  BY NeverBack DEF AloneIInv, IInv, StateInv
<1>2. Cardinality(Lost) <= mishaps
  BY <1>1 DEF LostInv
<1>3. IsFiniteSet(Lost) /\ Cardinality(Lost) \in Nat
  BY <1>1, LostFinite
<1>4. CASE Lost' \subseteq Lost
  <2>1. IsFiniteSet(Lost') /\ Cardinality(Lost') <= Cardinality(Lost)
    BY <1>3, <1>4, FS_Subset
  <2>2. Cardinality(Lost') \in Nat
    BY <2>1, FS_CardinalityType
  <2>3. QED
    BY <1>1, <1>2, <1>3, <2>1, <2>2
<1>5. CASE ~(Lost' \subseteq Lost)
  <2>1. PICK l \in Lost' : l \notin Lost
    BY <1>5
  <2>2. mishaps' = mishaps + 1
    BY <2>1, NewlyLost
  <2>3. \A p, q \in Processes : p # q => At(p, "ended") \/ At(q, "ended")
    BY <1>1 DEF AloneIInv, AloneInv
  <2>4. Lost' \subseteq Lost \cup {l}
    BY <2>1, <2>3, NewlyLost
  <2>5. IsFiniteSet(Lost \cup {l}) /\ Cardinality(Lost \cup {l}) = Cardinality(Lost) + 1
    BY <1>3, <2>1, FS_AddElement
  <2>6. IsFiniteSet(Lost') /\ Cardinality(Lost') <= Cardinality(Lost \cup {l})
    BY <2>4, <2>5, FS_Subset
  <2>7. Cardinality(Lost') \in Nat
    BY <2>6, FS_CardinalityType
  <2>8. QED
    BY <1>1, <1>2, <1>3, <2>2, <2>5, <2>6, <2>7
<1>6. QED
  BY <1>4, <1>5

\* Each failing call or save and each kill leaves the resources of one action at most
\* without a record, however many calls the action makes, as long as no command runs
\* beside another and no write of the file is cut short.  A deploy that cannot read a
\* file that is whole costs the record of what was on it, and of nothing else.
THEOREM OneLeftPerMishap == Spec => []LeftoversPerMishap
<1>1. ASSUME AloneIInv, LostInv
      PROVE  LeftoversPerMishap
  <2>1. /\ saga \in Sagas /\ ActionNodes = 1 .. Len(saga) /\ deploys \in 0 .. MaxDeploys
        /\ mishaps \in Nat
    BY <1>1, SagaShape DEF AloneIInv, IInv, StateInv
  <2>2. LeftoverActions \subseteq Lost
    <3>1. SUFFICES ASSUME NEW l \in LeftoverActions
                   PROVE  l \in Lost
      OBVIOUS
    <3>2. /\ l \in ActionNodes \X (1 .. MaxDeploys)
          /\ (MadeBy(l[1]) \X {l[2]}) \cap cloud # {}
          /\ ~OnFile(file, l[1], l[2]) /\ l \notin unread
          /\ \A p \in Processes : At(p, "ended") \/ proc[p].id # l[2]
      BY <2>1, <3>1 DEF LeftoverActions, OnFile
    <3>3. InPlace(l[1], l[2], cloud)
      BY <3>2 DEF InPlace
    <3>4. \A p \in Processes : ~InHand(proc[p], l[1], l[2])
      BY <3>2 DEF InHand, IsSaving, At
    <3>5. QED
      BY <3>2, <3>3, <3>4 DEF Lost
  <2>3. IsFiniteSet(Lost) /\ Cardinality(Lost) \in Nat
    BY <2>1, LostFinite
  <2>4. IsFiniteSet(LeftoverActions) /\ Cardinality(LeftoverActions) <= Cardinality(Lost)
    BY <2>2, <2>3, FS_Subset
  <2>5. Cardinality(LeftoverActions) \in Nat
    BY <2>4, FS_CardinalityType
  <2>6. ~disturbed => Cardinality(Lost) <= mishaps
    BY <1>1 DEF LostInv
  <2>7. QED
    BY <2>1, <2>3, <2>4, <2>5, <2>6 DEF LeftoversPerMishap
<1>2. Init => LostInv
  <2>1. ASSUME Init
        PROVE  Lost = {} /\ mishaps = 0
    BY <2>1 DEF Init, Lost, InPlace
  <2>2. QED
    BY <2>1, FS_EmptySet DEF LostInv
<1>3. QED
  BY <1>1, <1>2, InitAloneIInv, NextAloneIInv, NextLostInv, PTL DEF Spec

=============================================================================
