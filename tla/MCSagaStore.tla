----------------------------- MODULE MCSagaStore -----------------------------
(* Three goroutines on one saga id, with either store. *)
EXTENDS SagaStore, TLC

CONSTANTS g1, g2, g3
=============================================================================
