-------------------------- MODULE MCSagaLifecycle --------------------------
(* The CLI's saga cut to a database and a server, behind the StartNode 3: one *)
(* after the other as in the CLI, or side by side.                            *)
EXTENDS SagaLifecycle

MCChain == {{<<3, 1>>, <<1, 2>>}}
MCDags == MCChain \cup {{<<3, 1>>, <<3, 2>>}}
MCRegistries == {{1, 2}}
MCNameOf == <<"database", "server", "">>
=============================================================================
