---------------------------- MODULE MCBrowserPass ---------------------------
(* Two ordinary states, one whose residual ends the iteration, one that has  *)
(* folded over; the cadence 25 is scaled to 3.                               *)
EXTENDS BrowserPass, TLC

CONSTANTS stateA, stateB, last, folded

MCStates == {stateA, stateB, last, folded}
MCOriented == {stateA, stateB, last}
MCTerminal == {last}
MCGauges == {"free", "fixed"}
MCSymmetry == Permutations({stateA, stateB})
=============================================================================
