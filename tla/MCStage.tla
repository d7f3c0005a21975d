------------------------------ MODULE MCStage ------------------------------
(* A stage with three spectral states, one with a bad geometry; with or      *)
(* without a vacuum operator, which starts cold, hot or refined.             *)
EXTENDS StageLoop, TLC

CONSTANTS good1, good2, bad

MCState == {good1, good2, bad}
MCOriented == {good1, good2}

(* Both good states are interchangeable: Init and every action treat the     *)
(* members of Oriented alike.                                                *)
GoodStates == Permutations(MCOriented)
=============================================================================
