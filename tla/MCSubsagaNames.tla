--------------------------- MODULE MCSubsagaNames ---------------------------
(* A saga with a subsaga as the builder flattens it, one node after the other: *)
(* the StartNode 6, an action 1, the SubsagaStartNode 2, the subsaga's action  *)
(* 3, the SubsagaEndNode 4, and an action 5 that can look up what precedes it. *)
(* Both 1 and 3 are named "vpc", which the builder accepts.                    *)
EXTENDS SagaExecutor

MCDags == {{<<6, 1>>, <<1, 2>>, <<2, 3>>, <<3, 4>>, <<4, 5>>}}
MCRegistries == {{1, 3, 5}}
MCNameOf == <<"vpc", "", "vpc", "network", "server", "">>
Inner == {3}

\* nodes.go, of a subsaga node: "the output of individual nodes from the subsaga DAG
\* is _not_ available to other nodes in this DAG".
InnerOutputsHidden ==
  pc = "DoIt" /\ CurrentNode \notin Inner =>
    \A name \in Names, r \in live : r[1] \in Inner => ancestorTree[name] # r[2]
=============================================================================
