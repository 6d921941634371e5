--------------------------- MODULE MCActionRegistry ---------------------------
(* Two goroutines whose sagas have actions of the same names. *)
EXTENDS ActionRegistry

RegistrySagas == {<<"create">>, <<"create", "attach">>}
=============================================================================
