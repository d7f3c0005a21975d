----------------------------- MODULE MCBrowser -----------------------------
(* A solve in the browser over one or two grids: a fixed boundary, with all  *)
(* a pass may add to it, or a free one.                                      *)
EXTENDS BrowserSolve, TLC

CONSTANTS good1, good2, bad

MCState == {good1, good2, bad}
MCOriented == {good1, good2}

MCProblems ==
  {[free |-> FALSE, geometry |-> TRUE, newton |-> TRUE],
   [free |-> TRUE, geometry |-> FALSE, newton |-> FALSE]}

(* Both good states are interchangeable: Init and every action treat the     *)
(* members of Oriented alike.                                                *)
GoodStates == Permutations(MCOriented)
=============================================================================
