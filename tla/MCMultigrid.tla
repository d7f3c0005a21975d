---------------------------- MODULE MCMultigrid ----------------------------
(* A run over two grids, or a single one.                                    *)
EXTENDS Multigrid, TLC

CONSTANTS good1, good2, bad

MCState == {good1, good2, bad}
MCOriented == {good1, good2}
MCOutputs == <<"state", "checkpoint">>

(* Both good states are interchangeable: Init and every action treat the     *)
(* members of Oriented alike.                                                *)
GoodStates == Permutations(MCOriented)
=============================================================================
