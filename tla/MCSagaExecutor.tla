--------------------------- MODULE MCSagaExecutor ---------------------------
(* Three actions 1, 2 and 3 and the StartNode 4, under every graph of the    *)
(* actions a builder can make, and one with a cycle; the second Execute      *)
(* over a fork, a join and a chain.                                          *)
EXTENDS SagaExecutor

MCDags ==
  LET fromStart == {4} \X {1, 2, 3}
  IN  {fromStart \cup e : e \in SUBSET {<<1, 2>>, <<1, 3>>, <<2, 3>>} \cup {{<<1, 2>>, <<2, 1>>}}}
MCRetryDags == {({4} \X {1, 2, 3}) \cup e : e \in {{<<1, 2>>, <<1, 3>>}, {<<1, 3>>, <<2, 3>>}, {<<1, 2>>, <<2, 3>>}}}
MCRegistries == {{1, 2, 3}, {1, 2}}
MCNameOf == <<"vpc", "subnet", "table", "">>
=============================================================================
