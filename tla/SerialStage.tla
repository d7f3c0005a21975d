---------------------------- MODULE SerialStage ----------------------------
(* What a browser stage promises, with every descent committed at once: one  *)
(* state, whether it carries momentum, one checkpoint, and the number of     *)
(* descents kept on this grid.  docs/webgpu-port.md:1234 says of the batched *)
(* pipeline that the host "still processes the collected results through the *)
(* original checks, double reductions, checkpoint rules, and controller in   *)
(* their original order".                                                    *)
EXTENDS Naturals

CONSTANTS
  State,         \* the states of the solver
  Good           \* those a correction may land on

VARIABLES
  state,         \* the state the next pass evaluates
  still,         \* it carries no momentum
  checkpoint,    \* the state a restart falls back on
  kept           \* descents kept on this grid

svars == <<state, still, checkpoint, kept>>

Init ==
  /\ state \in State /\ checkpoint = state
  /\ still = TRUE /\ kept = 0

(* Descend and keep the result; a refresh makes it the checkpoint.           *)
Keep ==
  /\ state' \in State /\ still' = FALSE
  /\ kept' = kept + 1
  /\ checkpoint' \in {checkpoint, state'}

(* A rejected geometry, a nonfinite residual, a discarded descent or a       *)
(* maintenance reset.                                                        *)
FallBack ==
  /\ state' = checkpoint /\ still' = TRUE
  /\ UNCHANGED <<checkpoint, kept>>

(* An accepted Newton trial.                                                 *)
Correct ==
  /\ state' \in Good /\ still' = TRUE
  /\ UNCHANGED <<checkpoint, kept>>

(* The next grid begins with the interpolated state at rest.                 *)
Refine ==
  /\ state' \in State /\ checkpoint' = state'
  /\ still' = TRUE /\ kept' = 0

Next == Keep \/ FallBack \/ Correct \/ Refine

Spec == Init /\ [][Next]_svars
=============================================================================
