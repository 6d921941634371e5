------------------------ MODULE MCAwsInfrastructure ------------------------
(* Two processes, which are interchangeable; the sagas with a server are run  *)
(* by one command at a time.                                                  *)
EXTENDS AwsInfrastructure, TLC

CONSTANTS p1, p2

NetworkOnly == {Network}
AllSagas == {Network, GroupFirst, InstanceFirst}

Symmetry == Permutations({p1, p2})
=============================================================================
