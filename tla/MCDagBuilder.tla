---------------------------- MODULE MCDagBuilder ----------------------------
(* Actions, a constant and subsagas, in stages of up to two nodes.  The       *)
(* subsagas are what a builder makes of a chain, of a fork and join, and of a *)
(* join with two roots; one is left by a builder that failed.                  *)
EXTENDS DagBuilder

Act(name) == [kind |-> "action", name |-> name, action |-> "do-" \o name]
Const(name) == [kind |-> "constant", name |-> name]
Sub(name, params, dag) == [kind |-> "subsaga", name |-> name, params |-> params, dag |-> dag]

Child(names, graph, roots, leaf) ==
  [nodes |-> [i \in DOMAIN names |-> Internal("action", names[i], "do-" \o names[i])],
   edges |-> graph, firstNodes |-> roots, lastNodes |-> <<leaf>>]

Chain == Child(<<"x", "y">>, {<<1, 2>>}, <<1>>, 2)
Diamond == Child(<<"x", "y", "z", "w">>, {<<1, 2>>, <<1, 3>>, <<2, 4>>, <<3, 4>>}, <<1>>, 4)
Wrapped == [Chain EXCEPT !.nodes = Append(@, Internal("start", NoName, NoName))]
TwoRoots == Child(<<"x", "y", "z">>, {<<1, 3>>, <<2, 3>>}, <<1, 2>>, 3)

\* Left by a builder whose first stage failed on its second node.
Orphaned == Child(<<"x", "y">>, {}, <<2>>, 2)
OrphanedWide == Child(<<"x", "y", "z", "w">>, {<<2, 4>>, <<3, 4>>}, <<2, 3>>, 4)

MCLabels ==
  LET names == {"", "a", "b", "c", "o", "r", "s", "t", "w", "x", "y", "z"}
  IN  names \cup {"do-" \o name : name \in names}
MCRegistered == {"do-" \o name : name \in {"x", "y", "z", "w"}}

MCStages ==
  {<<>>, <<Act("a")>>, <<Act("b")>>, <<Act("a"), Act("b")>>, <<Const("c")>>, <<Const("c"), Act("a")>>,
   <<Sub("s", "a", Diamond)>>, <<Act("b"), Sub("s", "a", Chain)>>, <<Sub("s", "a", Wrapped)>>,
   <<Sub("t", "c", Chain), Sub("s", "a", Chain)>>, <<Sub("r", "a", TwoRoots)>>, <<Sub("o", "a", Orphaned)>>,
   <<Sub("w", "a", OrphanedWide)>>}

\* The parameters of a subsaga in its own stage.
MCParams == MCStages \cup {<<Act("a"), Sub("s", "a", Chain)>>}
=============================================================================
