------------------------- MODULE MCExecutionLevels -------------------------
(* Every graph of four nodes without an edge from a node to itself, which the *)
(* graph of the code cannot have.                                             *)
EXTENDS ExecutionLevels

MCGraphs == SUBSET {e \in Nodes \X Nodes : e[1] # e[2]}
=============================================================================
