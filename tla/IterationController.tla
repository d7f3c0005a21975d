------------------------ MODULE IterationController ------------------------
(* cumes::IterationController: the host state machine that owns every scalar *)
(* decision of a pass.  It is a class without concurrency, so it is a value  *)
(* (a record) and its methods are operators on that value.                   *)
(*                                                                           *)
(* Counters are kept exactly.  Residuals and the time step are abstracted to *)
(* what a branch can tell apart:                                             *)
(*   step      delt_ relative to delt0_: "initial" or "reduced" (no branch   *)
(*             lets it exceed delt0_)                                        *)
(*   baseline  which force law res0_, the running minimum, was measured      *)
(*             under: "unset" (the -1 sentinel), "interior" or "coupled"     *)
(*             (with the vacuum edge force)                                  *)
(*   growth    the class of the preconditioned sum fsq against res0_         *)
(* The damping samples only scale the descent and are left out, as are       *)
(* log_anchor_ (printing) and fsqz_prev_ (a force mask chosen from data).    *)
EXTENDS Integers

(* The counters and cadences of control_policy.hpp that decide which branch  *)
(* the controller takes.  The code fixes them (25, 10, 12, 50, 25/50, 250,   *)
(* 100, 100, 20); a model-checking run scales them down, and the theorems    *)
(* hold for every value the assumption admits.                               *)
CONSTANTS
  RefreshInterval,        \* PRECONDITIONER_REFRESH_INTERVAL
  CheckpointMinAge,       \* CHECKPOINT_REFRESH_MIN_AGE
  BadProgressMinAge,      \* BAD_PROGRESS_MIN_AGE
  BadProgressMinIter,     \* BAD_PROGRESS_MIN_ITERATION
  FirstMaintenance,       \* FIRST_MAINTENANCE_BAD_JACOBIAN_COUNT
  SecondMaintenance,      \* SECOND_MAINTENANCE_BAD_JACOBIAN_COUNT
  StepRecoveryAge,        \* STEP_RECOVERY_AGE
  NewtonStart,            \* NEWTON_START_ITERATION
  NewtonPeriod,           \* NEWTON_PERIOD
  NewtonMinEpochAge       \* NEWTON_MIN_EPOCH_AGE

ASSUME PolicyAssumption ==
  /\ RefreshInterval \in Nat \ {0}
  /\ CheckpointMinAge \in Nat
  /\ BadProgressMinAge \in Nat
  /\ BadProgressMinIter \in Nat
  /\ FirstMaintenance \in Nat \ {0}
  /\ SecondMaintenance \in Nat
  /\ FirstMaintenance + 1 < SecondMaintenance
  /\ StepRecoveryAge \in Nat
  /\ NewtonStart \in Nat
  /\ NewtonPeriod \in Nat \ {0}
  /\ NewtonMinEpochAge \in Nat

Steps == {"initial", "reduced"}
Baselines == {"unset", "interior", "coupled"}
Growths == {"minimum", "between", "blowup"}

Controller ==
  [iter2 : Nat \ {0}, iter1 : Nat \ {0}, ijacob : Nat,
   step : Steps, recoveryTried : BOOLEAN, baseline : Baselines]

NewController_AnchorAtZero ==      \* mutant: iter1_ starts like log_anchor_
  [iter2 |-> 1, iter1 |-> 0, ijacob |-> 0,
   step |-> "initial", recoveryTried |-> FALSE, baseline |-> "unset"]

NewController ==
  [iter2 |-> 1, iter1 |-> 1, ijacob |-> 0,
   step |-> "initial", recoveryTried |-> FALSE, baseline |-> "unset"]

Age(c) == c.iter2 - c.iter1

ResetConstraintReference(c) == c.iter2 = c.iter1

RefreshPreconditioner(c) == Age(c) % RefreshInterval = 0

(* The restart every rejection shares: the anchor moves to the current       *)
(* effective iteration, which itself does not advance.                       *)
Reanchored(c) == [c EXCEPT !.iter1 = c.iter2]

MaintenanceDue(c) == c.ijacob \in {FirstMaintenance, SecondMaintenance}

MaintenanceReset_NotCounted(c) ==  \* mutant: without ++ijacob_
  [Reanchored(c) EXCEPT !.step = "reduced"]

(* next_schedule(): counting the reset keeps it from firing again.           *)
MaintenanceReset(c) ==
  [Reanchored(c) EXCEPT !.ijacob = @ + 1, !.step = "reduced"]

Rejected_KeepsAnchor(c) ==         \* mutant: without iter1_ = iter2_
  [c EXCEPT !.step = "reduced"]

(* reject_jacobian() and the nonfinite branch of classify_invariant().       *)
Rejected(c) == [Reanchored(c) EXCEPT !.step = "reduced"]

VacuumSoftRestart(c) == [Reanchored(c) EXCEPT !.ijacob = @ + 1]

(* An accepted Newton correction forgets the residual minimum, and nothing   *)
(* that schedules passes.                                                    *)
ResetCorrectionMomentum(c) == [c EXCEPT !.baseline = "unset"]

StartsBaseline_OnlyUnset(c) ==     \* mutant: an anchor keeps the minimum
  c.baseline = "unset"

StartsBaseline(c) == Age(c) = 0 \/ c.baseline = "unset"

(* fsq against res0_ after the update.  A new baseline equals fsq, so growth *)
(* cannot be seen; a NaN sum satisfies neither comparison and is "between".  *)
PossibleGrowth(c) ==
  IF StartsBaseline(c) THEN {"minimum", "between"} ELSE Growths

(* decide_restart(): res0_ of a pass evaluated under force law `law`.        *)
Baselined(c, law) ==
  [c EXCEPT !.baseline = IF StartsBaseline(c) THEN law ELSE @]

(* The three branches of decide_restart(), in their order.                   *)
WantsRefresh(c, growth) == growth = "minimum" /\ Age(c) > CheckpointMinAge

BadJacobian(c, growth) ==
  /\ ~WantsRefresh(c, growth)
  /\ growth = "blowup"
  /\ Age(c) > 0

BadProgress(c, growth, rzLarge) ==
  /\ ~WantsRefresh(c, growth)
  /\ ~BadJacobian(c, growth)
  /\ Age(c) > BadProgressMinAge
  /\ c.iter2 > BadProgressMinIter
  /\ rzLarge

(* after_descent() of a pass whose descent is discarded.                     *)
AfterBadJacobian(c) == [Rejected(c) EXCEPT !.ijacob = @ + 1]
AfterBadProgress(c) == Rejected(c)

(* after_descent() of a good pass.  Recovery multiplies a reduced step by    *)
(* 1.1, capped at the initial one: it may or may not get back there.         *)
Advanced(c) == [c EXCEPT !.iter2 = @ + 1]

RecoversStep(c, enabled) ==
  /\ enabled
  /\ ~c.recoveryTried
  /\ c.iter2 + 1 - c.iter1 >= StepRecoveryAge
  /\ c.step = "reduced"

AfterGoodDescent(c, enabled) ==
  IF RecoversStep(c, enabled)
  THEN {[Advanced(c) EXCEPT !.step = s, !.recoveryTried = TRUE] : s \in Steps}
  ELSE {Advanced(c)}
=============================================================================
