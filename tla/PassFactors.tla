---------------------------- MODULE PassFactors ----------------------------
(* What the terminal predicate of a pass and the decision of the host owe    *)
(* each other: the device classifies the residual with one set of force-norm *)
(* factors, the host's or the pass's own, and the host then decides with the *)
(* very same ones.  No graph, cache or cadence is needed to say so.          *)
CONSTANTS
  Factors,      \* values of the force-norm factors
  Unset         \* the zeros they start with

VARIABLES
  host,         \* the factors the host decides with
  used,         \* the factors the device classified the last pass with
  valid,        \* the pass has a residual to decide on
  pc            \* "top", or "fence" when a pass has been evaluated

Init == host = Unset /\ used = Unset /\ valid = FALSE /\ pc = "top"

Evaluate ==
  /\ pc = "top" /\ pc' = "fence"
  /\ used' \in Factors /\ valid' \in BOOLEAN
  /\ UNCHANGED host

Reevaluate ==
  /\ pc = "fence" /\ valid
  /\ used' = host
  /\ UNCHANGED <<host, valid, pc>>

Decide ==
  /\ pc = "fence" /\ valid /\ pc' = "top"
  /\ host' = used
  /\ UNCHANGED <<used, valid>>

Discard ==
  /\ pc = "fence" /\ ~valid /\ pc' = "top"
  /\ UNCHANGED <<host, used, valid>>

Next == Evaluate \/ Reevaluate \/ Decide \/ Discard

Spec == Init /\ [][Next]_<<host, used, valid, pc>>
=============================================================================
