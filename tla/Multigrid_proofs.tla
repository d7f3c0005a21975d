-------------------------- MODULE Multigrid_proofs --------------------------
(* Proofs about solver_run() and about a whole run, for every set of states, *)
(* every cap, cadence and value of the control policy and every number of    *)
(* grids.  First about one stage, in three parts: the recovery slabs are     *)
(* safe, and implement the single trusted state of Recovery.tla; what the    *)
(* loop keeps beside its state, the residual and the caches, belongs to it;  *)
(* and with a vacuum operator attached the edge force, the residual minimum  *)
(* and the vacuum factors belong to the same coupling.  Then about a run:    *)
(* each grid starts from a state StageLoop starts from, so that what is      *)
(* proved of a stage holds on every grid, and what the exit status and the   *)
(* files promise.                                                            *)
EXTENDS Multigrid, Methods_proofs, FiniteSetTheorems

-----------------------------------------------------------------------------
(* The inductive invariant.  A pass is in flight between the head of the     *)
(* device pass and its decision; it is judged once its record has been read. *)
Unjudged == {"top", "vacuum", "device"}
Judged == {"newton", "gate", "soft", "classify", "decide"}

(* All the invariant asks of the counters: the pass is the one after a       *)
(* restart, and no descent has been kept yet.                                *)
Anchored == Age(ctl) = 0

First == ctl.iter2 = 1

(* A pass begins below the cap.                                              *)
CapInv == pc \in {"vacuum", "device"} \cup Judged => iter < MaxIter

(* The anchor never overtakes the effective iteration.                       *)
AnchorInv == ctl.iter1 <= ctl.iter2

(* What a pass has learnt of the state it evaluated.                         *)
VerdictInv ==
  /\ pc \in {"newton", "soft", "classify", "decide"} => verdict # "invalid"
  /\ (pc \in Judged /\ verdict # "invalid") => evaluated \in Oriented
  /\ (pc = "decide") => evaluated \in passed
  /\ passed \subseteq Oriented

(* Before the first descent nothing but the initial state is anywhere.       *)
FirstInv ==
  First =>
    /\ ~pending /\ checkpoint = spectral
    /\ pc \in Judged => evaluated = spectral

(* The candidate is the state under judgement, until it is accepted.         *)
CandidateInv ==
  /\ pc = "decide" => ~pending
  /\ pending /\ pc \in Unjudged => spectral = checkpoint
  /\ pending /\ pc = "newton" => evaluated = checkpoint
  /\ pending /\ pc \in Judged => evaluated = checkpoint \/ checkpoint \in passed
  /\ pending /\ pc \in Judged /\ FreeBoundary => spectral = checkpoint

(* Momentum comes from a descent, and a restart takes it away.               *)
MomentumInv ==
  /\ pc \in Unjudged \cup {"newton"} => (atRest <=> Anchored)
  /\ pc = "newton" => Newton /\ ~Anchored
  /\ ~FreeBoundary => ~vac.soft /\ ~vac.run
  /\ pc = "soft" => vac.soft
  /\ pc = "vacuum" => vac.run

(* Within a pass the bad-Jacobian counter moves only with the anchor.        *)
MaintenanceInv ==
  /\ pc \in (Unjudged \cup Judged) \ {"top"}
       => ~MaintenanceDue(ctl) \/ Anchored
  /\ pc = "top" /\ pending => ~MaintenanceDue(ctl)

-----------------------------------------------------------------------------
(* Type correctness.                                                         *)

(* Flags and data are proved apart: no one prover is at ease with both.      *)
FlagsOK ==
  /\ atRest \in BOOLEAN /\ pending \in BOOLEAN
  /\ small \in BOOLEAN /\ softEpoch \in BOOLEAN

DataOK ==
  /\ pc \in {"top"} \cup {"vacuum", "device"} \cup Judged \cup Stopped
  /\ iter \in 0 .. MaxIter
  /\ ctl \in Controller
  /\ vac \in Vacuum
  /\ spectral \in State /\ checkpoint \in State
  /\ previous \in State /\ evaluated \in State
  /\ sched \in [refresh : BOOLEAN, reset : BOOLEAN, edge : BOOLEAN]
  /\ verdict \in Verdicts
  /\ result \in [converged : BOOLEAN, iterations : Nat, residuals : BOOLEAN]
  /\ passed \subseteq State
  /\ stale \subseteq Caches
  /\ events \in Nat
  /\ maintained \in Nat

LEMMA TypeParts == TypeOK <=> FlagsOK /\ DataOK
BY DEF TypeOK, FlagsOK, DataOK, Judged, Stopped

LEMMA TypeInit == Init => TypeOK /\ CapInv
<1> SUFFICES ASSUME Init PROVE FlagsOK /\ DataOK /\ CapInv
  BY TypeParts
<1>1. ctl \in Controller
  BY DEF Init, NewController, Controller, Steps, Baselines
<1>2. vac \in Vacuum
  BY StageStartTypes DEF Init
<1>3. FlagsOK
  BY DEF Init, FlagsOK
<1>4. MaxIter \in Nat
  BY StageAssumption
<1>5. DataOK /\ CapInv
  BY <1>1, <1>2, <1>4
     DEF Init, DataOK, CapInv, Judged, NoSchedule, Verdicts, Caches
<1> QED
  BY <1>3, <1>5

LEMMA FlagsStep == FlagsOK /\ [Next]_vars => FlagsOK'
<1> SUFFICES ASSUME FlagsOK, [Next]_vars PROVE FlagsOK'
  OBVIOUS
<1> USE DEF FlagsOK
<1>1. CASE Maintenance \/ RejectGeometry \/ SoftRestart
  BY <1>1 DEF Maintenance, RejectGeometry, SoftRestart, RejectPending,
              Restore, slabs
<1>2. CASE RecoverNonfinite
  BY <1>2 DEF RecoverNonfinite, RecordResidual, RejectPending, Restore, slabs
<1>3. CASE Converge \/ Continue
  BY <1>3 DEF Converge, Continue, RecordResidual, Validate, device
<1>4. CASE Descend
  BY <1>4 DEF Descend, CaptureCheckpoint, EndPass, slabs
<1>5. CASE DiscardDescent
  BY <1>5 DEF DiscardDescent, Restore, EndPass, slabs
<1>6. CASE NewtonAccepts \/ NewtonRollsBack
  BY <1>6 DEF NewtonAccepts, NewtonRollsBack, slabs, device, history
<1>7. CASE BeginPass \/ VacuumUpdate \/ VacuumThrows \/ Evaluate
  BY <1>7 DEF BeginPass, VacuumUpdate, VacuumThrows, Evaluate, slabs, device,
              history
<1>8. CASE ThrowInvalidStart \/ AcceptGeometry \/ Exhaust
  BY <1>8 DEF ThrowInvalidStart, AcceptGeometry, Exhaust, slabs, device,
              history
<1>9. CASE Finished \/ UNCHANGED vars
  BY <1>9 DEF Finished, vars, host, slabs, device, history
<1> QED
  BY <1>1, <1>2, <1>3, <1>4, <1>5, <1>6, <1>7, <1>8, <1>9 DEF Next, FixedNext, VacuumNext

LEMMA DataStep ==
  ASSUME DataOK, CapInv, [Next]_vars
  PROVE  DataOK' /\ CapInv'
<1> USE DEF DataOK, CapInv, Judged, Stopped
<1>a. MaxIter \in Nat /\ Oriented \subseteq State
  BY StageAssumption
<1>0. ctl \in Controller /\ ctl.iter2 \in Nat /\ ctl.iter1 \in Nat
  BY DEF Controller
<1>r. ASSUME iter < MaxIter, NextPass
      PROVE  iter' \in 0 .. MaxIter /\ pc' = "top"
  BY <1>a, <1>r DEF NextPass
<1>1. CASE Maintenance
  <2>1. ctl' \in Controller
    BY <1>0, <1>1, ControllerMethods DEF Maintenance
  <2>2. iter' \in 0 .. MaxIter /\ pc' = "top"
    BY <1>1, <1>r DEF Maintenance
  <2> QED
    BY <1>1, <2>1, <2>2 DEF Maintenance, Restore, slabs
<1>2. CASE BeginPass
  <2>1. vac' \in Vacuum
    <3>1. CASE vac' \in AdvancedVacuum(vac, ctl.iter2, ctl.iter1, small)
      BY <1>0, <3>1, AdvanceTypes
    <3> QED
      BY <1>2, <3>1 DEF BeginPass
  <2>2. sched' \in [refresh : BOOLEAN, reset : BOOLEAN, edge : BOOLEAN]
    BY <1>2 DEF BeginPass, RefreshPreconditioner, ResetConstraintReference
  <2> QED
    BY <1>2, <2>1, <2>2 DEF BeginPass, slabs, Verdicts
<1>3. CASE VacuumUpdate
  <2>1. vac' \in Vacuum /\ vac'.edge \in BOOLEAN
    BY <1>3, UpdateTypes DEF VacuumUpdate, Vacuum
  <2> QED
    BY <1>3, <2>1 DEF VacuumUpdate, slabs, device
<1>4. CASE VacuumThrows
  BY <1>4 DEF VacuumThrows, slabs, device, history
<1>5. CASE Evaluate
  BY <1>5 DEF Evaluate, slabs, Verdicts
<1>6. CASE NewtonAccepts
  BY <1>a, <1>6, ControllerMethods DEF NewtonAccepts, slabs, Verdicts
<1>7. CASE NewtonRollsBack
  BY <1>7 DEF NewtonRollsBack, slabs, device, history
<1>8. CASE RejectGeometry
  <2>1. ctl' \in Controller
    BY <1>0, <1>8, ControllerMethods DEF RejectGeometry
  <2>2. iter' \in 0 .. MaxIter /\ pc' = "top"
    BY <1>8, <1>r DEF RejectGeometry
  <2> QED
    BY <1>8, <2>1, <2>2 DEF RejectGeometry, RejectPending, Restore, slabs
<1>9. CASE ThrowInvalidStart
  <2>1. ctl' \in Controller
    BY <1>0, <1>9, ControllerMethods DEF ThrowInvalidStart
  <2> QED
    BY <1>9, <2>1 DEF ThrowInvalidStart, slabs, device
<1>10. CASE AcceptGeometry
  BY <1>10 DEF AcceptGeometry, slabs, device
<1>11. CASE SoftRestart
  <2>1. ctl' \in Controller
    BY <1>0, <1>11, ControllerMethods DEF SoftRestart
  <2> QED
    BY <1>11, <2>1 DEF SoftRestart, Restore, slabs
<1>12. CASE RecoverNonfinite
  <2>1. ctl' \in Controller
    BY <1>0, <1>12, ControllerMethods DEF RecoverNonfinite
  <2>2. iter' \in 0 .. MaxIter /\ pc' = "top"
    BY <1>12, <1>r DEF RecoverNonfinite
  <2> QED
    BY <1>12, <2>1, <2>2 DEF RecoverNonfinite, RejectPending, Restore, slabs
<1>13. CASE Converge
  BY <1>0, <1>13 DEF Converge, Validate, device
<1>14. CASE Continue
  BY <1>14 DEF Continue, Validate, device
<1>15. Decided \in Controller
  BY <1>0, DecidedController DEF Decided
<1>16. ASSUME EndPass, pc = "decide"
       PROVE  /\ vac' \in Vacuum
              /\ result' \in [converged : BOOLEAN, iterations : Nat,
                               residuals : BOOLEAN]
              /\ iter' \in 0 .. MaxIter /\ pc' = "top"
  <2>1. (result.residuals \/ iter + 1 = MaxIter) \in BOOLEAN
    OBVIOUS
  <2>2. vac' \in Vacuum
    BY <1>16, UpdateTypes DEF EndPass
  <2>3. result' = [result EXCEPT !.residuals =
                      result.residuals \/ iter + 1 = MaxIter]
    BY <1>16 DEF EndPass
  <2> QED
    BY <1>16, <1>r, <2>1, <2>2, <2>3 DEF EndPass
<1>17. CASE Descend
  <2>1. ctl' \in Controller
    <3>1. ctl' \in AfterGoodDescent(Decided, StepRecovery)
      BY <1>17 DEF Descend
    <3>2. StepRecovery \in BOOLEAN
      BY StageAssumption
    <3> QED
      BY <1>15, <3>1, <3>2, GoodDescentController
  <2>2. EndPass /\ pc = "decide"
    BY <1>17 DEF Descend
  <2>3. spectral' \in State /\ checkpoint' \in State /\ previous' \in State
    BY <1>17 DEF Descend, CaptureCheckpoint, slabs
  <2>4. UNCHANGED <<sched, verdict, evaluated, passed, maintained, stale,
                    events>>
    BY <1>17 DEF Descend, EndPass
  <2> QED
    BY <1>16, <2>1, <2>2, <2>3, <2>4
<1>18. CASE DiscardDescent
  <2>1. ctl' \in Controller
    <3>1. \/ ctl' = AfterBadJacobian(Decided)
          \/ ctl' = AfterBadProgress(Decided)
      BY <1>18 DEF DiscardDescent
    <3> QED
      BY <1>15, <3>1, ControllerMethods
  <2>2. EndPass /\ pc = "decide"
    BY <1>18 DEF DiscardDescent
  <2>3. UNCHANGED <<sched, verdict, evaluated, passed, maintained, slabs>>
    BY <1>18 DEF DiscardDescent, EndPass
  <2>4. spectral' = checkpoint /\ stale' = Caches /\ events' = events + 1
    BY <1>18 DEF DiscardDescent, Restore
  <2> QED
    BY <1>16, <2>1, <2>2, <2>3, <2>4 DEF slabs
<1>19. CASE Exhaust
  BY <1>0, <1>19 DEF Exhaust, slabs, device, history
<1>20. CASE Finished \/ UNCHANGED vars
  BY <1>20 DEF Finished, vars, host, slabs, device, history
<1> QED
  BY <1>1, <1>2, <1>3, <1>4, <1>5, <1>6, <1>7, <1>8, <1>9, <1>10, <1>11,
     <1>12, <1>13, <1>14, <1>17, <1>18, <1>19, <1>20 DEF Next, FixedNext, VacuumNext

LEMMA TypeStep == TypeOK /\ CapInv /\ [Next]_vars => TypeOK' /\ CapInv'
<1> SUFFICES ASSUME TypeOK, CapInv, [Next]_vars
             PROVE  FlagsOK' /\ DataOK' /\ CapInv'
  BY TypeParts, PTL
<1> QED
  BY TypeParts, FlagsStep, DataStep

(* Every variable of the stage loop keeps its type, and no pass begins at    *)
(* the cap.                                                                  *)
THEOREM TypeCorrect == Spec => []TypeOK
<1>1. Spec => [](TypeOK /\ CapInv)
  BY TypeInit, TypeStep, PTL DEF Spec
<1> QED
  BY <1>1, PTL

-----------------------------------------------------------------------------
(* What the actions do to the counters, seen through the two conditions the  *)
(* invariant asks of them.                                                   *)
(* A restart moves the anchor to the iteration it leaves in place.           *)
LEMMA RestartMoves ==
  ASSUME ctl \in Controller,
         ctl' \in {MaintenanceReset(ctl), Rejected(ctl), VacuumSoftRestart(ctl),
                   AfterBadJacobian(Decided), AfterBadProgress(Decided)}
  PROVE  Anchored' /\ (First' <=> First) /\ AnchorInv'
<1>1. Decided \in Controller /\ Decided.iter2 = ctl.iter2
  BY DecidedController, KeepsCounters DEF Decided
<1>2. ctl'.iter2 = ctl.iter2 /\ ctl'.iter1 = ctl.iter2
  BY <1>1, ControllerMoves
<1>3. ctl.iter2 \in Nat
  BY DEF Controller
<1> QED
  BY <1>2, <1>3 DEF Anchored, First, Age, AnchorInv

(* A descent that is kept leaves the anchor behind.                          *)
LEMMA DescendMoves ==
  ASSUME ctl \in Controller, AnchorInv,
         ctl' \in AfterGoodDescent(Decided, StepRecovery)
  PROVE  /\ ~Anchored' /\ ~First' /\ ctl'.iter1 <= ctl'.iter2
         /\ ctl'.ijacob = ctl.ijacob
<1>1. Decided \in Controller /\ Decided.iter2 = ctl.iter2
        /\ Decided.iter1 = ctl.iter1 /\ Decided.ijacob = ctl.ijacob
  BY DecidedController, KeepsCounters DEF Decided
<1>2. StepRecovery \in BOOLEAN
  BY StageAssumption
<1>3. ctl'.iter2 = ctl.iter2 + 1 /\ ctl'.iter1 = ctl.iter1
        /\ ctl'.ijacob = ctl.ijacob
  BY <1>1, <1>2, GoodDescentController
<1>4. ctl.iter2 \in Nat \ {0} /\ ctl.iter1 \in Nat
  BY DEF Controller
<1> QED
  BY <1>3, <1>4 DEF Anchored, First, Age, AnchorInv

LEMMA FirstIteration ==
  ASSUME ctl \in Controller, AnchorInv
  PROVE  /\ ctl.iter2 > 1 <=> ~First
         /\ Age(ctl) > 0 <=> ~Anchored
         /\ First => Anchored
<1>1. ctl.iter2 \in Nat \ {0} /\ ctl.iter1 \in Nat \ {0}
  BY DEF Controller
<1> QED
  BY <1>1 DEF First, Anchored, Age, AnchorInv

(* A refresh and a Newton correction happen past the anchor only.            *)
LEMMA PastAnchor ==
  ASSUME ctl \in Controller, AnchorInv
  PROVE  /\ NewtonDue => Newton /\ ~Anchored
         /\ \A growth : WantsRefresh(ctl, growth) => ~Anchored
<1>1. ctl.iter2 \in Nat \ {0} /\ ctl.iter1 \in Nat \ {0}
  BY DEF Controller
<1> QED
  BY <1>1, PolicyAssumption DEF NewtonDue, WantsRefresh, Anchored, Age

-----------------------------------------------------------------------------
(* The inductive step.                                                       *)

RecoveryInv ==
  /\ VerdictInv /\ FirstInv /\ CandidateInv /\ MomentumInv /\ MaintenanceInv
  /\ ~First => Trusted \in passed
  /\ pc \in Unjudged /\ Anchored /\ ~First => spectral \in Oriented /\ atRest

IInv == TypeOK /\ CapInv /\ AnchorInv /\ RecoveryInv

LEMMA RecoveryParts ==
  ASSUME TypeOK, AnchorInv
  PROVE  /\ RecoverySlabValidated <=> (~First => Trusted \in passed)
         /\ RestartsFromOriented
              <=> (pc \in Unjudged /\ Anchored /\ ~First
                     => spectral \in Oriented /\ atRest)
BY FirstIteration DEF TypeOK, RecoverySlabValidated, RestartsFromOriented,
                      Unjudged, Anchored

LEMMA RecoveryInit == Init => RecoveryInv /\ AnchorInv
<1> SUFFICES ASSUME Init PROVE RecoveryInv /\ AnchorInv
  OBVIOUS
<1>1. ctl.iter2 = 1 /\ ctl.iter1 = 1
  BY DEF Init, NewController
<1>2. First /\ Anchored /\ AnchorInv
  BY <1>1 DEF First, Anchored, Age, AnchorInv
<1>3. ~NoVacuum.soft /\ ~NoVacuum.run
  BY DEF NoVacuum
<1>4. ~FreeBoundary => ~vac.soft /\ ~vac.run
  BY <1>3 DEF Init
<1> QED
  BY <1>2, <1>4
     DEF Init, RecoveryInv, VerdictInv, FirstInv, CandidateInv, MomentumInv,
         MaintenanceInv, Unjudged, Judged

LEMMA RecoveryStep ==
  ASSUME TypeOK, AnchorInv, RecoveryInv, [Next]_vars
  PROVE  RecoveryInv' /\ AnchorInv'
<1> USE DEF RecoveryInv, VerdictInv, FirstInv, CandidateInv, MomentumInv,
            MaintenanceInv, Unjudged, Judged, Trusted
<1>0. ctl \in Controller
  BY DEF TypeOK
<1>1. CASE Maintenance
  <2>1. Anchored' /\ (First' <=> First) /\ AnchorInv'
    BY <1>0, <1>1, RestartMoves DEF Maintenance
  <2> QED
    BY <1>1, <2>1 DEF Maintenance, Restore, NextPass, slabs
<1>2. CASE BeginPass
  <2>1. UNCHANGED ctl
    BY <1>2 DEF BeginPass
  <2>2. (Anchored' <=> Anchored) /\ (First' <=> First) /\ AnchorInv'
        /\ (MaintenanceDue(ctl') <=> MaintenanceDue(ctl))
    BY <2>1 DEF Anchored, First, AnchorInv
  <2>3. ~FreeBoundary => vac' = vac
    BY <1>2 DEF BeginPass
  <2> QED
    BY <1>2, <2>2, <2>3 DEF BeginPass, slabs
<1>3. CASE SoftRestart
  <2>1. Anchored' /\ (First' <=> First) /\ AnchorInv'
    BY <1>0, <1>3, RestartMoves DEF SoftRestart
  <2> QED
    BY <1>3, <2>1 DEF SoftRestart, Restore, slabs
<1>4. CASE RejectGeometry
  <2>1. Anchored' /\ (First' <=> First) /\ AnchorInv'
    BY <1>0, <1>4, RestartMoves DEF RejectGeometry
  <2> QED
    BY <1>4, <2>1
       DEF RejectGeometry, RejectPending, Restore, NextPass, slabs
<1>5. CASE RecoverNonfinite
  <2>1. Anchored' /\ (First' <=> First) /\ AnchorInv'
    BY <1>0, <1>5, RestartMoves DEF RecoverNonfinite
  <2> QED
    BY <1>5, <2>1
       DEF RecoverNonfinite, RejectPending, Restore, NextPass, slabs
<1>6. CASE Descend
  <2>1. ~Anchored' /\ ~First' /\ AnchorInv' /\ ctl'.ijacob = ctl.ijacob
    BY <1>0, <1>6, DescendMoves DEF Descend, AnchorInv
  <2>2. CASE UNCHANGED slabs
    BY <1>6, <2>1, <2>2 DEF Descend, EndPass, NextPass, slabs, IterationEnd
  <2>3. CASE CaptureCheckpoint /\ ~Anchored
    <3>1. ~MaintenanceDue(ctl')
      BY <1>6, <2>1, <2>3 DEF Descend, MaintenanceDue
    <3> QED
      BY <1>6, <2>1, <2>3, <3>1
         DEF Descend, EndPass, NextPass, CaptureCheckpoint, IterationEnd
  <2> QED
    BY <1>0, <1>6, <2>2, <2>3, PastAnchor DEF Descend
<1>7. CASE DiscardDescent
  <2>1. Anchored' /\ (First' <=> First) /\ AnchorInv'
    BY <1>0, <1>7, RestartMoves DEF DiscardDescent
  <2> QED
    BY <1>7, <2>1 DEF DiscardDescent, Restore, EndPass, NextPass, slabs,
                      IterationEnd
<1>8. CASE NewtonAccepts
  <2>1. (Anchored' <=> Anchored) /\ (First' <=> First) /\ AnchorInv'
        /\ (MaintenanceDue(ctl') <=> MaintenanceDue(ctl))
    BY <1>0, <1>8, KeepsCounters
       DEF NewtonAccepts, Anchored, First, AnchorInv, Age, MaintenanceDue
  <2> QED
    BY <1>0, <1>8, <2>1, StageAssumption, FirstIteration
       DEF NewtonAccepts, slabs
<1>9. CASE ThrowInvalidStart
  <2>1. Anchored' /\ (First' <=> First) /\ AnchorInv'
    BY <1>0, <1>9, RestartMoves DEF ThrowInvalidStart
  <2> QED
    BY <1>9, <2>1 DEF ThrowInvalidStart, slabs, device
<1>10. ASSUME UNCHANGED ctl
       PROVE  /\ Anchored' <=> Anchored
              /\ First' <=> First
              /\ AnchorInv'
              /\ MaintenanceDue(ctl') <=> MaintenanceDue(ctl)
  BY <1>10 DEF Anchored, First, AnchorInv
<1>11. CASE VacuumUpdate
  BY <1>10, <1>11 DEF VacuumUpdate, slabs, device
<1>12. CASE VacuumThrows
  BY <1>10, <1>12 DEF VacuumThrows, slabs, device, history
<1>13. CASE Evaluate
  BY <1>0, <1>10, <1>13, PastAnchor DEF Evaluate, slabs
<1>14. CASE NewtonRollsBack
  BY <1>10, <1>14 DEF NewtonRollsBack, slabs, device, history
<1>15. CASE AcceptGeometry
  BY <1>10, <1>15 DEF AcceptGeometry, slabs, device
<1>16. CASE Converge
  BY <1>10, <1>16 DEF Converge, Validate, device
<1>17. CASE Continue
  BY <1>10, <1>17 DEF Continue, Validate, device
<1>18. CASE Exhaust
  BY <1>10, <1>18 DEF Exhaust, slabs, device, history
<1>19. CASE Finished \/ UNCHANGED vars
  BY <1>10, <1>19 DEF Finished, vars, host, slabs, device, history
<1> QED
  BY <1>1, <1>2, <1>3, <1>4, <1>5, <1>6, <1>7, <1>8, <1>9, <1>11, <1>12,
     <1>13, <1>14, <1>15, <1>16, <1>17, <1>18, <1>19 DEF Next, FixedNext, VacuumNext
LEMMA Inductive == Spec => []IInv
<1>1. Init => IInv
  BY TypeInit, RecoveryInit DEF IInv
<1>2. IInv /\ [Next]_vars => IInv'
  BY TypeStep, RecoveryStep DEF IInv
<1> QED
  BY <1>1, <1>2, PTL DEF Spec

(* Without a vacuum operator no step is one of the three that belong to it,  *)
(* so that what is shown of the actions without them is shown of the stage.  *)
THEOREM FixedBoundaryStage == ~FreeBoundary => (Spec <=> FixedSpec)
<1> SUFFICES ASSUME ~FreeBoundary PROVE Spec <=> FixedSpec
  OBVIOUS
<1>1. IInv /\ [Next]_vars => [FixedNext]_vars
  <2>1. IInv => pc # "vacuum" /\ pc # "soft"
    BY DEF IInv, RecoveryInv, MomentumInv
  <2> QED
    BY <2>1 DEF Next, VacuumNext, VacuumUpdate, VacuumThrows, SoftRestart
<1>2. [FixedNext]_vars => [Next]_vars
  BY DEF Next
<1> QED
  BY <1>1, <1>2, Inductive, PTL DEF Spec, FixedSpec

(* solver_run() always has an accepted state to fall back on.                *)
THEOREM FallbackIsValidated == Spec => []RecoverySlabValidated
<1>1. IInv => RecoverySlabValidated
  BY RecoveryParts DEF IInv, RecoveryInv
<1> QED
  BY <1>1, Inductive, PTL

(* A restart is never followed by an evaluation of an invalid geometry.      *)
THEOREM RestartsAreOriented == Spec => []RestartsFromOriented
<1>1. IInv => RestartsFromOriented
  BY RecoveryParts DEF IInv, RecoveryInv
<1> QED
  BY <1>1, Inductive, PTL

(* A pending checkpoint is the state the next verdict is about, and no       *)
(* maintenance reset restores it before that verdict.                        *)
THEOREM CandidateIsCurrent == Spec => []PendingIsCurrent
<1>1. IInv => PendingIsCurrent
  BY DEF IInv, RecoveryInv, CandidateInv, MaintenanceInv, PendingIsCurrent, Unjudged
<1> QED
  BY <1>1, Inductive, PTL

(* What a restore copies back is the current state or an accepted one.       *)
LEMMA RollbackStep ==
  ASSUME IInv, [Next]_vars,
         spectral' # spectral, atRest', pc # "newton"
  PROVE  spectral' \in passed
<1> USE DEF IInv, RecoveryInv, VerdictInv, FirstInv, CandidateInv, MomentumInv,
            MaintenanceInv, Unjudged, Judged, Trusted
<1>1. CASE Maintenance
  BY <1>1 DEF Maintenance, Restore
<1>2. CASE RejectGeometry \/ RecoverNonfinite
  BY <1>2 DEF RejectGeometry, RecoverNonfinite, RejectPending, Restore, slabs
<1>3. CASE SoftRestart
  BY <1>3 DEF SoftRestart, Restore
<1>4. CASE DiscardDescent
  BY <1>4 DEF DiscardDescent, Restore
<1>5. CASE Descend
  BY <1>5 DEF Descend
<1>6. CASE NewtonAccepts \/ NewtonRollsBack
  BY <1>6 DEF NewtonAccepts, NewtonRollsBack
<1>7. CASE BeginPass \/ VacuumUpdate \/ VacuumThrows \/ Evaluate
  BY <1>7 DEF BeginPass, VacuumUpdate, VacuumThrows, Evaluate, device
<1>8. CASE ThrowInvalidStart \/ AcceptGeometry \/ Converge \/ Continue
  BY <1>8 DEF ThrowInvalidStart, AcceptGeometry, Converge, Continue, device
<1>9. CASE Exhaust \/ Finished \/ UNCHANGED vars
  BY <1>9 DEF Exhaust, Finished, vars, device
<1> QED
  BY <1>1, <1>2, <1>3, <1>4, <1>5, <1>6, <1>7, <1>8, <1>9 DEF Next, FixedNext, VacuumNext

(* No rollback, maintenance reset or soft restart brings back a state that   *)
(* no pass has accepted.                                                     *)
THEOREM RollbacksAreValidated == Spec => RollbacksReachValidated
<1>1. IInv /\ [Next]_vars
        => [(spectral' # spectral /\ atRest' /\ pc # "newton")
               => spectral' \in passed]_vars
  BY RollbackStep
<1> QED
  BY <1>1, Inductive, PTL DEF Spec, RollbacksReachValidated
-----------------------------------------------------------------------------
(* The recovery slabs implement the single trusted state of Recovery.tla.    *)

LEMMA RefinesInit == Init => R!Init
BY DEF Init, R!Init, Trusted

LEMMA RefinesStep ==
  ASSUME IInv, IInv', [Next]_vars
  PROVE  [R!Next]_(R!rvars)
<1> USE DEF IInv, RecoveryInv, VerdictInv, FirstInv, CandidateInv, MomentumInv,
            MaintenanceInv, Unjudged, Judged, Trusted
<1>0. /\ spectral \in State /\ spectral' \in State /\ checkpoint \in State
      /\ checkpoint # NoState /\ ctl \in Controller
  BY StageAssumption DEF TypeOK
<1>1. CASE Maintenance
  <2>1. ~pending
    BY <1>1 DEF Maintenance
  <2>2. R!FallBack
    BY <1>1, <2>1 DEF Maintenance, Restore, slabs, R!FallBack
  <2> QED
    BY <2>2 DEF R!Next
<1>2. CASE RejectGeometry \/ RecoverNonfinite
  <2>1. R!FallBack
    BY <1>2 DEF RejectGeometry, RecoverNonfinite, RejectPending, Restore,
                slabs, R!FallBack
  <2> QED
    BY <2>1 DEF R!Next
<1>3. CASE SoftRestart
  <2>1. CASE pending
    <3>1. R!Settle
      BY <1>3, <2>1 DEF SoftRestart, Restore, slabs, R!Settle
    <3> QED
      BY <3>1 DEF R!Next
  <2>2. CASE ~pending
    <3>1. R!FallBack
      BY <1>3, <2>2 DEF SoftRestart, Restore, slabs, R!FallBack
    <3> QED
      BY <3>1 DEF R!Next
  <2> QED
    BY <2>1, <2>2
<1>4. CASE DiscardDescent
  <2>1. R!FallBack
    BY <1>4 DEF DiscardDescent, Restore, slabs, R!FallBack
  <2> QED
    BY <2>1 DEF R!Next
<1>5. CASE Descend
  <2>1. CASE UNCHANGED slabs
    <3>1. R!Move
      BY <1>0, <1>5, <2>1 DEF Descend, slabs, R!Move
    <3> QED
      BY <3>1 DEF R!Next
  <2>2. CASE CaptureCheckpoint
    <3>1. R!Nominate
      BY <1>0, <1>5, <2>2 DEF Descend, CaptureCheckpoint, R!Nominate
    <3> QED
      BY <3>1 DEF R!Next
  <2> QED
    BY <1>5, <2>1, <2>2 DEF Descend
<1>6. CASE NewtonAccepts
  <2>1. R!Correct
    BY <1>6 DEF NewtonAccepts, slabs, R!Correct
  <2> QED
    BY <2>1 DEF R!Next
<1>7. CASE Converge \/ Continue
  <2>1. CASE pending
    <3>1. R!Confirm
      BY <1>0, <1>7, <2>1 DEF Converge, Continue, Validate, device, R!Confirm
    <3> QED
      BY <3>1 DEF R!Next
  <2>2. CASE ~pending
    BY <1>7, <2>2 DEF Converge, Continue, Validate, device, R!rvars
  <2> QED
    BY <2>1, <2>2
<1>8. CASE UNCHANGED <<spectral, atRest, slabs>>
  BY <1>8 DEF slabs, R!rvars
<1>9. CASE BeginPass \/ VacuumUpdate \/ VacuumThrows \/ Evaluate
  BY <1>8, <1>9 DEF BeginPass, VacuumUpdate, VacuumThrows, Evaluate, device
<1>10. CASE NewtonRollsBack \/ ThrowInvalidStart \/ AcceptGeometry
  BY <1>8, <1>10 DEF NewtonRollsBack, ThrowInvalidStart, AcceptGeometry, device
<1>11. CASE Exhaust \/ Finished \/ UNCHANGED vars
  BY <1>8, <1>11 DEF Exhaust, Finished, vars, device
<1> QED
  BY <1>1, <1>2, <1>3, <1>4, <1>5, <1>6, <1>7, <1>9, <1>10, <1>11 DEF Next, FixedNext, VacuumNext

(* ADR-0020, implemented: whatever slab plays which role, there is one       *)
(* trusted state, and every rejection returns to it.                         *)
THEOREM SlabsImplementRecovery == Spec => RecoverySpec
<1>1. IInv /\ IInv' /\ [Next]_vars => [R!Next]_(R!rvars)
  BY RefinesStep
<1> QED
  BY <1>1, RefinesInit, Inductive, PTL DEF Spec, RecoverySpec, R!Spec

-----------------------------------------------------------------------------
(* Fixed boundary.  Past the fence the record is that of the state in        *)
(* storage: only a descent or a restart takes the state away from it, and    *)
(* either ends the pass.                                                     *)
ResidualInv ==
  /\ pc \in Judged => evaluated = spectral
  /\ result.converged => pc = "done" /\ evaluated = spectral

(* Stale caches mean that a restart has just re-anchored, so that this pass  *)
(* rebuilds them: the preconditioner and the constraint reference on the     *)
(* device, and the normalization factors when the host has seen the record.  *)
ScheduledInv ==
  pc \in {"device", "newton", "gate"} /\ Anchored => sched.refresh /\ sched.reset

CachesInv ==
  /\ pc \in Unjudged /\ ~(stale \subseteq {"factors"}) => Anchored
  /\ pc = "newton" \/ (pc = "gate" /\ verdict # "invalid")
       => /\ stale \subseteq {"norms", "factors"}
          /\ "norms" \in stale => sched.refresh
  /\ pc \in {"classify", "decide"} => stale \subseteq {"factors"}

FixedInv == ResidualInv /\ ScheduledInv /\ CachesInv

LEMMA FixedInit == Init => FixedInv
<1> SUFFICES ASSUME Init PROVE FixedInv
  OBVIOUS
<1>1. Anchored
  BY DEF Init, NewController, Anchored, Age
<1> QED
  BY <1>1 DEF Init, FixedInv, ResidualInv, ScheduledInv, CachesInv, Unjudged,
              Judged

(* The pass after a restart refreshes and resets.                            *)
LEMMA RestartRebuilds ==
  ASSUME ctl \in Controller, Anchored
  PROVE  RefreshPreconditioner(ctl) /\ ResetConstraintReference(ctl)
<1>1. ctl.iter2 \in Nat /\ ctl.iter1 \in Nat
  BY DEF Controller
<1>2. 0 % RefreshInterval = 0
  BY PolicyAssumption
<1> QED
  BY <1>1, <1>2 DEF Anchored, Age, RefreshPreconditioner, ResetConstraintReference

LEMMA FixedStep ==
  ASSUME IInv, FixedInv, ~FreeBoundary, [FixedNext]_vars
  PROVE  FixedInv'
<1> USE DEF IInv, FixedInv, ResidualInv, ScheduledInv, CachesInv, Unjudged, Judged
<1>0. ctl \in Controller /\ stale \subseteq Caches
  BY DEF TypeOK
<1>1. CASE Maintenance \/ RejectGeometry \/ RecoverNonfinite
  <2>1. pc' = "top" /\ UNCHANGED result /\ pc \notin Stopped
    BY <1>1 DEF Maintenance, RejectGeometry, RecoverNonfinite, NextPass, Stopped
  <2>2. ctl' \in {MaintenanceReset(ctl), Rejected(ctl)}
    BY <1>1 DEF Maintenance, RejectGeometry, RecoverNonfinite
  <2>3. Anchored'
    BY <1>0, <2>2, RestartMoves
  <2> QED
    BY <2>1, <2>3 DEF Stopped
<1>2. CASE BeginPass
  <2>1. pc = "top" /\ UNCHANGED <<ctl, spectral, result, stale, evaluated>>
    BY <1>2 DEF BeginPass
  <2>2. vac' = vac /\ ~vac.run
    BY <1>2 DEF BeginPass, RecoveryInv, MomentumInv
  <2>3. pc' = "device"
    BY <1>2, <2>2 DEF BeginPass
  <2>4. /\ RefreshPreconditioner(ctl) => sched'.refresh
        /\ ResetConstraintReference(ctl) => sched'.reset
    BY <1>2 DEF BeginPass
  <2>5. Anchored' <=> Anchored
    BY <2>1 DEF Anchored
  <2> QED
    BY <1>0, <2>1, <2>3, <2>4, <2>5, RestartRebuilds
<1>3. CASE Evaluate
  <2>1. /\ pc = "device" /\ pc' \in {"gate", "newton"}
        /\ evaluated' = spectral /\ spectral' = spectral
        /\ UNCHANGED <<ctl, sched, result>>
        /\ pc' = "newton" => verdict' = "normal"
    BY <1>3 DEF Evaluate
  <2>2. Anchored' <=> Anchored
    BY <2>1 DEF Anchored
  <2>3. verdict' # "invalid"
          => stale' = stale \ ((IF sched.refresh THEN {"preconditioner"} ELSE {})
                                 \cup (IF sched.reset THEN {"reference"} ELSE {}))
    BY <1>3 DEF Evaluate
  <2>4. verdict' # "invalid" => /\ stale' \subseteq {"norms", "factors"}
                                /\ "norms" \in stale' => sched.refresh
    <3>1. CASE stale \subseteq {"factors"}
      <4> HIDE DEF IInv, FixedInv, ResidualInv, ScheduledInv, CachesInv
      <4>1. verdict' # "invalid" => stale' \subseteq stale
        BY <2>3
      <4> QED
        BY <3>1, <4>1
    <3>2. CASE ~(stale \subseteq {"factors"})
      <4>1. sched.refresh /\ sched.reset
        BY <2>1, <3>2
      <4> HIDE DEF IInv, FixedInv, ResidualInv, ScheduledInv, CachesInv
      <4>2. verdict' # "invalid" => stale' = stale \ {"preconditioner", "reference"}
        BY <2>3, <4>1
      <4> QED
        BY <1>0, <4>1, <4>2 DEF Caches
    <3> QED
      BY <3>1, <3>2
  <2> QED
    BY <2>1, <2>2, <2>4
<1>4. CASE NewtonAccepts
  <2>1. /\ pc = "newton" /\ pc' = "gate" /\ evaluated' = spectral'
        /\ ctl' = ResetCorrectionMomentum(ctl)
        /\ UNCHANGED <<sched, result, stale>>
    BY <1>4 DEF NewtonAccepts
  <2>2. Anchored' <=> Anchored
    BY <1>0, <2>1 DEF Anchored, Age, ResetCorrectionMomentum, Controller
  <2> QED
    BY <2>1, <2>2
<1>5. CASE NewtonRollsBack
  <2>1. /\ pc = "newton" /\ pc' \in {"gate", "failed"}
        /\ UNCHANGED <<ctl, sched, device, result, stale>>
    BY <1>5 DEF NewtonRollsBack, history
  <2> QED
    BY <2>1 DEF device, Anchored
<1>6. CASE AcceptGeometry
  <2>1. /\ pc = "gate" /\ pc' = "classify"
        /\ UNCHANGED <<ctl, sched, device, result>>
        /\ stale' = IF sched.refresh THEN stale \ {"norms"} ELSE stale
        /\ verdict # "invalid"
    BY <1>6 DEF AcceptGeometry, RecoveryInv, MomentumInv
  <2> QED
    BY <2>1 DEF device
<1>7. CASE Converge \/ Continue
  <2>1. /\ pc = "classify" /\ pc' \in {"done", "decide"}
        /\ UNCHANGED <<device, stale>>
        /\ pc' = "done" \/ UNCHANGED result
    BY <1>7 DEF Converge, Continue
  <2> QED
    BY <2>1 DEF device
<1>8. CASE Descend \/ DiscardDescent
  <2>1. /\ pc = "decide" /\ pc' = "top"
        /\ result' = [result EXCEPT !.residuals = @ \/ iter + 1 = MaxIter]
    BY <1>8 DEF Descend, DiscardDescent, EndPass, NextPass
  <2>2. result'.converged = result.converged
    BY <2>1 DEF TypeOK
  <2>3. CASE Descend
    BY <2>1, <2>2, <2>3 DEF Descend
  <2>4. CASE DiscardDescent
    <3>1. Anchored'
      BY <1>0, <2>4, RestartMoves DEF DiscardDescent
    <3> QED
      BY <2>1, <2>2, <3>1
  <2> QED
    BY <1>8, <2>3, <2>4
<1>9. CASE Exhaust
  <2>1. result'.converged = result.converged
    BY <1>9 DEF Exhaust, TypeOK
  <2> QED
    BY <1>9, <2>1 DEF Exhaust
<1>10. CASE ThrowInvalidStart
  BY <1>10 DEF ThrowInvalidStart
<1>11. CASE Finished \/ UNCHANGED vars
  BY <1>11 DEF Finished, vars, host, device, history, Anchored
<1> QED
  BY <1>1, <1>2, <1>3, <1>4, <1>5, <1>6, <1>7, <1>8, <1>9, <1>10, <1>11
     DEF FixedNext

LEMMA FixedInductive == ~FreeBoundary => (Spec => []FixedInv)
<1> SUFFICES ASSUME ~FreeBoundary PROVE Spec => []FixedInv
  OBVIOUS
<1>1. IInv /\ FixedInv /\ [FixedNext]_vars => FixedInv'
  BY FixedStep
<1>2. Spec => FixedSpec
  BY FixedBoundaryStage
<1> QED
  BY <1>1, <1>2, FixedInit, Inductive, PTL DEF FixedSpec

(* With a fixed boundary, the residual a descent applies and the one a       *)
(* converged result reports are those of the state in storage.               *)
THEOREM ResidualIsOfState == ~FreeBoundary => (Spec => []ResidualMatchesState)
<1>1. FixedInv => ResidualMatchesState
  BY DEF FixedInv, ResidualInv, ResidualMatchesState, Judged
<1> QED
  BY <1>1, FixedInductive, PTL

(* With a fixed boundary, every descent uses caches rebuilt since the state  *)
(* was last replaced by a restart.                                           *)
THEOREM CachesAreRebuilt == ~FreeBoundary => (Spec => []CachesRebuilt)
<1>1. FixedInv => CachesRebuilt
  BY DEF FixedInv, CachesInv, CachesRebuilt
<1> QED
  BY <1>1, FixedInductive, PTL
-----------------------------------------------------------------------------
(* Maintenance, with or without a vacuum operator.  The counter moves by one *)
(* at a time and never twice in a pass: a pass that begins stands on no      *)
(* threshold, and only the soft restart may put it on one, re-anchored.      *)
Passed(n) == IF n <= FirstMaintenance THEN 0 ELSE IF n <= SecondMaintenance THEN 1 ELSE 2

CountedInv ==
  /\ maintained = Passed(ctl.ijacob)
  /\ pc \in {"vacuum", "device", "newton", "gate", "soft"} => ~MaintenanceDue(ctl)
  /\ pc \in {"classify", "decide"} => ~MaintenanceDue(ctl) \/ Anchored

LEMMA PassedCounts ==
  ASSUME NEW n \in Nat
  PROVE  Cardinality({k \in {FirstMaintenance, SecondMaintenance} : k < n}) = Passed(n)
<1> DEFINE S == {k \in {FirstMaintenance, SecondMaintenance} : k < n}
<1>1. CASE n <= FirstMaintenance
  <2>1. S = {}
    BY <1>1, PolicyAssumption
  <2> QED
    BY <1>1, <2>1, FS_EmptySet DEF Passed
<1>2. CASE ~(n <= FirstMaintenance) /\ n <= SecondMaintenance
  <2>1. S = {FirstMaintenance}
    BY <1>2, PolicyAssumption
  <2> QED
    BY <1>2, <2>1, FS_Singleton DEF Passed
<1>3. CASE ~(n <= FirstMaintenance) /\ ~(n <= SecondMaintenance)
  <2>1. S = {FirstMaintenance} \cup {SecondMaintenance}
    BY <1>3, PolicyAssumption
  <2>2. SecondMaintenance \notin {FirstMaintenance}
    BY PolicyAssumption
  <2>3. IsFiniteSet({FirstMaintenance}) /\ Cardinality({FirstMaintenance}) = 1
    BY FS_Singleton
  <2>4. Cardinality(S) = Cardinality({FirstMaintenance}) + 1
    BY <2>1, <2>2, <2>3, FS_AddElement
  <2> QED
    BY <1>3, <2>3, <2>4 DEF Passed
<1> QED
  BY <1>1, <1>2, <1>3

(* One event crosses no threshold unless it starts from one.                 *)
LEMMA OneMore ==
  ASSUME NEW n \in Nat
  PROVE  /\ n \notin {FirstMaintenance, SecondMaintenance} => Passed(n + 1) = Passed(n)
         /\ n \in {FirstMaintenance, SecondMaintenance} => Passed(n + 1) = Passed(n) + 1
BY PolicyAssumption DEF Passed

(* Which decisions count.                                                    *)
LEMMA Counting ==
  ASSUME NEW c \in Controller
  PROVE  /\ MaintenanceReset(c).ijacob = c.ijacob + 1
         /\ VacuumSoftRestart(c).ijacob = c.ijacob + 1
         /\ Rejected(c).ijacob = c.ijacob
         /\ ResetCorrectionMomentum(c).ijacob = c.ijacob
         /\ \A law \in Baselines :
              /\ AfterBadJacobian(Baselined(c, law)).ijacob = c.ijacob + 1
              /\ AfterBadProgress(Baselined(c, law)).ijacob = c.ijacob
              /\ \A d \in AfterGoodDescent(Baselined(c, law), StepRecovery) :
                   d.ijacob = c.ijacob
BY DEF Controller, MaintenanceReset, VacuumSoftRestart, Rejected, Reanchored,
       ResetCorrectionMomentum, Baselined, AfterBadJacobian, AfterBadProgress,
       AfterGoodDescent, Advanced

LEMMA CountedStep ==
  ASSUME IInv, CountedInv, [Next]_vars
  PROVE  CountedInv'
<1> USE DEF CountedInv
<1>0. ctl \in Controller /\ ctl.ijacob \in Nat
  BY DEF IInv, TypeOK, Controller
<1>1. CASE Maintenance
  <2>1. /\ pc' = "top" /\ maintained' = maintained + 1
        /\ ctl' = MaintenanceReset(ctl) /\ MaintenanceDue(ctl)
    BY <1>1 DEF Maintenance, NextPass
  <2>2. ctl'.ijacob = ctl.ijacob + 1
    BY <1>0, <2>1, Counting
  <2> QED
    BY <1>0, <2>1, <2>2, OneMore DEF MaintenanceDue
<1>2. CASE RejectGeometry \/ RecoverNonfinite \/ ThrowInvalidStart
  <2>1. /\ pc' \in {"top", "failed"} /\ ctl' = Rejected(ctl)
        /\ UNCHANGED maintained
    BY <1>2 DEF RejectGeometry, RecoverNonfinite, ThrowInvalidStart, NextPass
  <2> QED
    BY <1>0, <2>1, Counting
<1>3. CASE BeginPass \/ VacuumUpdate \/ VacuumThrows \/ Evaluate \/ NewtonRollsBack
  <2>1. /\ UNCHANGED <<ctl, maintained>>
        /\ pc' \in {"vacuum", "device", "newton", "gate", "failed"}
        /\ pc = "top" => ~MaintenanceDue(ctl)
        /\ pc \in {"top", "vacuum", "device", "newton"}
    BY <1>3 DEF BeginPass, VacuumUpdate, VacuumThrows, Evaluate,
                NewtonRollsBack, history
  <2> QED
    BY <2>1 DEF MaintenanceDue
<1>4. CASE NewtonAccepts
  <2>1. /\ pc = "newton" /\ pc' = "gate" /\ ctl' = ResetCorrectionMomentum(ctl)
        /\ UNCHANGED maintained
    BY <1>4 DEF NewtonAccepts
  <2>2. ctl'.ijacob = ctl.ijacob
    BY <1>0, <2>1, Counting
  <2> QED
    BY <2>1, <2>2 DEF MaintenanceDue
<1>5. CASE AcceptGeometry \/ Converge \/ Continue
  <2>1. /\ UNCHANGED <<ctl, maintained>>
        /\ \/ pc = "gate" /\ pc' \in {"soft", "classify"}
           \/ pc = "classify" /\ pc' \in {"decide", "done"}
    BY <1>5 DEF AcceptGeometry, Converge, Continue
  <2> QED
    BY <2>1 DEF MaintenanceDue, Anchored
<1>6. CASE SoftRestart
  <2>1. /\ pc = "soft" /\ pc' = "classify" /\ ctl' = VacuumSoftRestart(ctl)
        /\ UNCHANGED maintained
    BY <1>6 DEF SoftRestart
  <2>2. Anchored'
    BY <1>0, <2>1 DEF VacuumSoftRestart, Reanchored, Anchored, Age, Controller
  <2>3. ctl'.ijacob = ctl.ijacob + 1
    BY <1>0, <2>1, Counting
  <2>4. ctl.ijacob \notin {FirstMaintenance, SecondMaintenance}
    BY <2>1 DEF MaintenanceDue
  <2> QED
    BY <1>0, <2>1, <2>2, <2>3, <2>4, OneMore
<1>7. CASE Descend
  <2>1. /\ pc' = "top" /\ UNCHANGED maintained
        /\ ctl' \in AfterGoodDescent(Decided, StepRecovery)
    BY <1>7 DEF Descend, EndPass, NextPass
  <2>2. ctl'.ijacob = ctl.ijacob
    BY <1>0, <2>1, Counting DEF Decided, Baselines
  <2> QED
    BY <2>1, <2>2
<1>8. CASE DiscardDescent
  <2>1. /\ pc = "decide" /\ pc' = "top" /\ UNCHANGED maintained
    BY <1>8 DEF DiscardDescent, EndPass, NextPass
  <2>2. CASE ctl' = AfterBadProgress(Decided)
    <3>1. ctl'.ijacob = ctl.ijacob
      BY <1>0, <2>2, Counting DEF Decided, Baselines
    <3> QED
      BY <2>1, <3>1
  <2>3. CASE /\ ctl' = AfterBadJacobian(Decided)
             /\ \E growth \in PossibleGrowth(ctl) : BadJacobian(ctl, growth)
    <3>1. ctl'.ijacob = ctl.ijacob + 1
      BY <1>0, <2>3, Counting DEF Decided, Baselines
    <3>2. ~Anchored
      BY <1>0, <2>3 DEF BadJacobian, Anchored
    <3>3. ctl.ijacob \notin {FirstMaintenance, SecondMaintenance}
      BY <2>1, <3>2 DEF MaintenanceDue
    <3> QED
      BY <1>0, <2>1, <3>1, <3>3, OneMore
  <2> QED
    BY <1>8, <2>2, <2>3 DEF DiscardDescent
<1>9. CASE Exhaust \/ Finished \/ UNCHANGED vars
  <2>1. UNCHANGED <<ctl, maintained>> /\ pc' \in {pc, "done"}
    BY <1>9 DEF Exhaust, Finished, vars, host, history
  <2> QED
    BY <2>1 DEF MaintenanceDue, Anchored
<1> QED
  BY <1>1, <1>2, <1>3, <1>4, <1>5, <1>6, <1>7, <1>8, <1>9
     DEF Next, FixedNext, VacuumNext

(* Every maintenance threshold the bad-Jacobian counter has gone beyond has  *)
(* reset the step exactly once.                                              *)
THEOREM MaintenanceOnSchedule == Spec => []MaintenanceNotSkipped
<1>1. Init => CountedInv
  BY PolicyAssumption DEF Init, NewController, CountedInv, Passed, Anchored
<1>2. IInv /\ CountedInv /\ [Next]_vars => CountedInv'
  BY CountedStep
<1>3. IInv /\ CountedInv => MaintenanceNotSkipped
  <2> SUFFICES ASSUME IInv, CountedInv PROVE MaintenanceNotSkipped
    OBVIOUS
  <2>1. ctl.ijacob \in Nat
    BY DEF IInv, TypeOK, Controller
  <2> QED
    BY <2>1, PassedCounts DEF CountedInv, MaintenanceNotSkipped
<1> QED
  BY <1>1, <1>2, <1>3, Inductive, PTL DEF Spec
-----------------------------------------------------------------------------
(* Free boundary.  Only a soft restart replaces the state of a pass that     *)
(* goes on to descend.  What it leaves behind is due at the next multiple of *)
(* the refresh interval, which no pass can step over.                        *)
Behind == stale \cap {"preconditioner", "norms"} # {}
Late == softEpoch /\ Age(ctl) < RefreshInterval

RefreshInv ==
  /\ pc = "top" /\ Behind
       => Anchored \/ (softEpoch /\ Age(ctl) <= RefreshInterval)
  /\ pc \in {"vacuum", "device"} /\ Behind => sched.refresh \/ Late
  /\ pc = "newton" \/ (pc = "gate" /\ verdict # "invalid")
       => /\ "preconditioner" \in stale => Late
          /\ "norms" \in stale => sched.refresh \/ Late
  /\ pc \in {"soft", "classify", "decide"} /\ Behind => Late

LEMMA RefreshOnTime ==
  ASSUME ctl \in Controller,
         Anchored \/ (softEpoch /\ Age(ctl) <= RefreshInterval)
  PROVE  RefreshPreconditioner(ctl) \/ Late
<1>1. ctl.iter2 \in Nat /\ ctl.iter1 \in Nat /\ RefreshInterval \in Nat \ {0}
  BY PolicyAssumption DEF Controller
<1>2. 0 % RefreshInterval = 0 /\ RefreshInterval % RefreshInterval = 0
  BY <1>1
<1> QED
  BY <1>1, <1>2 DEF Anchored, Age, Late, RefreshPreconditioner

LEMMA RefreshStep ==
  ASSUME IInv, RefreshInv, [Next]_vars
  PROVE  RefreshInv'
<1> USE DEF RefreshInv
<1>0. /\ ctl \in Controller /\ AnchorInv /\ stale \subseteq Caches
      /\ Age(ctl) \in Int /\ RefreshInterval \in Nat \ {0}
  BY PolicyAssumption DEF IInv, TypeOK, Controller, Age
<1>1. CASE Maintenance \/ RejectGeometry \/ RecoverNonfinite \/ DiscardDescent
  <2>1. /\ pc' = "top"
        /\ ctl' \in {MaintenanceReset(ctl), Rejected(ctl),
                     AfterBadJacobian(Decided), AfterBadProgress(Decided)}
    BY <1>1 DEF Maintenance, RejectGeometry, RecoverNonfinite, DiscardDescent,
                EndPass, NextPass
  <2>2. Anchored'
    BY <1>0, <2>1, RestartMoves
  <2> QED
    BY <2>1, <2>2
<1>2. CASE BeginPass
  <2>1. /\ pc = "top" /\ pc' \in {"vacuum", "device"}
        /\ RefreshPreconditioner(ctl) => sched'.refresh
        /\ UNCHANGED <<ctl, stale, softEpoch>>
    BY <1>2 DEF BeginPass
  <2>2. (Behind' <=> Behind) /\ (Late' <=> Late)
    BY <2>1 DEF Behind, Late
  <2> QED
    BY <1>0, <2>1, <2>2, RefreshOnTime
<1>3. CASE VacuumUpdate
  <2>1. /\ pc = "vacuum" /\ pc' = "device" /\ stale' \subseteq stale
        /\ UNCHANGED <<ctl, softEpoch>>
        /\ sched' = [sched EXCEPT !.edge = vac'.edge]
    BY <1>3 DEF VacuumUpdate
  <2>2. sched'.refresh = sched.refresh
    BY <2>1 DEF IInv, TypeOK
  <2>3. (Behind' => Behind) /\ (Late' <=> Late)
    BY <2>1 DEF Behind, Late
  <2> QED
    BY <2>1, <2>2, <2>3
<1>4. CASE Evaluate
  <2>1. /\ pc = "device" /\ pc' \in {"gate", "newton"}
        /\ pc' = "newton" => verdict' = "normal"
        /\ UNCHANGED <<ctl, sched, softEpoch>>
        /\ stale' \subseteq stale
        /\ verdict' # "invalid" /\ sched.refresh
             => "preconditioner" \notin stale'
    BY <1>4 DEF Evaluate
  <2>2. Late' <=> Late
    BY <2>1 DEF Late
  <2>3. \A c \in {"preconditioner", "norms"} : c \in stale' => Behind
    BY <2>1 DEF Behind
  <2> QED
    BY <2>1, <2>2, <2>3
<1>5. CASE NewtonAccepts \/ NewtonRollsBack
  <2>1. /\ pc = "newton" /\ pc' \in {"gate", "failed"}
        /\ UNCHANGED <<sched, stale, softEpoch>>
        /\ ctl' \in {ctl, ResetCorrectionMomentum(ctl)}
    BY <1>5 DEF NewtonAccepts, NewtonRollsBack, history
  <2>2. Late' <=> Late
    BY <1>0, <2>1 DEF Late, Age, ResetCorrectionMomentum, Controller
  <2> QED
    BY <2>1, <2>2
<1>6. CASE AcceptGeometry
  <2>1. /\ pc = "gate" /\ verdict # "invalid" /\ pc' \in {"soft", "classify"}
        /\ UNCHANGED <<ctl, softEpoch>>
        /\ stale' \subseteq stale
        /\ sched.refresh => "norms" \notin stale'
    BY <1>6 DEF AcceptGeometry
  <2>2. Late' <=> Late
    BY <2>1 DEF Late
  <2> QED
    BY <2>1, <2>2 DEF Behind
<1>7. CASE SoftRestart
  <2>1. pc' = "classify" /\ softEpoch' = TRUE /\ ctl' = VacuumSoftRestart(ctl)
    BY <1>7 DEF SoftRestart
  <2>2. Age(ctl)' = 0
    BY <1>0, <2>1, RestartMoves DEF Anchored
  <2> QED
    BY <1>0, <2>1, <2>2 DEF Late
<1>8. CASE Converge \/ Continue
  <2>1. /\ pc = "classify" /\ pc' \in {"done", "decide"}
        /\ UNCHANGED <<ctl, stale, softEpoch>>
    BY <1>8 DEF Converge, Continue
  <2> QED
    BY <2>1 DEF Behind, Late
<1>9. CASE Descend
  <2>1. /\ pc = "decide" /\ pc' = "top" /\ UNCHANGED <<stale, softEpoch>>
        /\ ctl' \in AfterGoodDescent(Decided, StepRecovery)
    BY <1>9 DEF Descend, EndPass, NextPass
  <2>2. Age(ctl)' = Age(ctl) + 1
    <3>1. /\ Decided \in Controller /\ StepRecovery \in BOOLEAN
          /\ Decided.iter2 = ctl.iter2 /\ Decided.iter1 = ctl.iter1
      BY <1>0, DecidedController, KeepsCounters, StageAssumption DEF Decided
    <3>2. ctl'.iter2 = ctl.iter2 + 1 /\ ctl'.iter1 = ctl.iter1
      BY <2>1, <3>1, GoodDescentController
    <3> QED
      BY <1>0, <3>2 DEF Age, Controller
  <2> QED
    BY <1>0, <2>1, <2>2 DEF Behind, Late
<1>10. CASE VacuumThrows \/ ThrowInvalidStart \/ Exhaust
  BY <1>10 DEF VacuumThrows, ThrowInvalidStart, Exhaust
<1>11. CASE Finished \/ UNCHANGED vars
  BY <1>11 DEF Finished, vars, host, device, history, Behind, Late, Anchored
<1> QED
  BY <1>1, <1>2, <1>3, <1>4, <1>5, <1>6, <1>7, <1>8, <1>9, <1>10, <1>11
     DEF Next, FixedNext, VacuumNext

(* A descent with a stale preconditioner or stale norms happens within one   *)
(* refresh interval of a soft restart, and never else.                       *)
THEOREM StaleWithinInterval == Spec => []StaleOnlyAfterSoftRestart
<1>1. Init => RefreshInv
  BY DEF Init, NewController, RefreshInv, Anchored, Age
<1>2. IInv /\ RefreshInv /\ [Next]_vars => RefreshInv'
  BY RefreshStep
<1>3. RefreshInv => StaleOnlyAfterSoftRestart
  BY DEF RefreshInv, StaleOnlyAfterSoftRestart, Behind, Late
<1> QED
  BY <1>1, <1>2, <1>3, Inductive, PTL DEF Spec

-----------------------------------------------------------------------------
(* The vacuum operator between passes.  A soft restart is requested on the   *)
(* activation pass only; INITIALIZING lasts no longer than one update; and a *)
(* coupled vacuum whose factors exist has its edge force on.                 *)
VacInv ==
  /\ vac.soft => vac.state = "INITIALIZED"
  /\ vac.state = "INITIALIZING" => pc \in {"vacuum", "failed"}
  /\ pc = "vacuum" => vac.full \/ vac.factors
  /\ pc \notin {"vacuum", "failed"}
       => (vac.edge <=> Coupled(vac) /\ vac.factors)
  /\ ~FreeBoundary => vac = NoVacuum

LEMMA VacInit == Init => VacInv
BY DEF Init, VacInv, StageStartVacuum, Coupled, NoVacuum

(* One step of a stage keeps it: only these four actions touch the operator. *)
LEMMA VacStep ==
  ASSUME TypeOK, VacInv, [Next]_vars
  PROVE  VacInv'
<1> USE DEF VacInv
<1>0. vac \in Vacuum
  BY DEF TypeOK
<1>1. CASE BeginPass
  <2>1. CASE ~FreeBoundary
    BY <1>1, <2>1 DEF BeginPass, NoVacuum, Coupled
  <2>2. CASE FreeBoundary
    <3>1. vac' \in AdvancedVacuum(vac, ctl.iter2, ctl.iter1, small)
            /\ pc' = (IF vac'.run THEN "vacuum" ELSE "device")
      BY <1>1, <2>2 DEF BeginPass
    <3>2. CASE ~RunsBlock(vac, ctl.iter2)
      <4>1. vac' = [vac EXCEPT !.run = FALSE, !.full = FALSE, !.soft = FALSE]
        BY <3>1, <3>2 DEF AdvancedVacuum
      <4>2. /\ vac'.state = vac.state /\ vac'.edge = vac.edge
            /\ vac'.factors = vac.factors /\ ~vac'.soft /\ ~vac'.run
        BY <1>0, <4>1 DEF Vacuum
      <4> QED
        BY <1>1, <2>2, <3>1, <4>2 DEF BeginPass, Coupled
    <3>3. CASE RunsBlock(vac, ctl.iter2)
      <4> DEFINE full == FullUpdate(vac, ctl.iter2, ctl.iter1, small)
      <4>1. PICK n \in IF full THEN vac.nvacskip .. MaxVacSkip
                        ELSE {vac.nvacskip} :
              vac' = [vac EXCEPT !.run = TRUE, !.soft = FALSE, !.full = full,
                        !.state = IF Ramps(vac, small) THEN Successor[@] ELSE @,
                        !.nvacskip = n]
        BY <3>1, <3>3 DEF AdvancedVacuum
      <4>2. vac'.run /\ ~vac'.soft /\ vac'.full = full
              /\ vac'.factors = vac.factors
        BY <1>0, <4>1 DEF Vacuum
      <4>3. full \/ vac.factors
        BY DEF FullUpdate
      <4> QED
        BY <2>2, <3>1, <4>2, <4>3
    <3> QED
      BY <3>2, <3>3
  <2> QED
    BY <2>1, <2>2
<1>2. CASE VacuumUpdate
  <2>1. FreeBoundary
    BY <1>2 DEF VacuumUpdate, NoVacuum
  <2>2. /\ vac'.state = Promoted(vac.state)
        /\ vac'.factors = (vac.factors \/ vac.full)
        /\ vac'.soft = (Promoted(vac.state) = "INITIALIZED")
        /\ vac'.edge = (Promoted(vac.state) \in {"INITIALIZED", "ACTIVE"})
        /\ pc' = "device"
    BY <1>0, <1>2 DEF VacuumUpdate, UpdatedVacuum, Vacuum
  <2>3. vac.factors \/ vac.full
    BY <1>2 DEF VacuumUpdate
  <2> QED
    BY <2>1, <2>2, <2>3 DEF Promoted, Coupled
<1>3. CASE Descend \/ DiscardDescent
  <2>1. vac' = (IF FreeBoundary THEN IterationEnd(vac) ELSE vac) /\ pc' = "top"
          /\ pc = "decide"
    BY <1>3 DEF Descend, DiscardDescent, EndPass, NextPass
  <2>2. CASE vac' = vac
    BY <2>1, <2>2 DEF Coupled
  <2>3. CASE FreeBoundary /\ vac.state = "INITIALIZED"
    <3>1. vac'.state = "ACTIVE" /\ ~vac'.soft /\ vac'.edge = vac.edge
            /\ vac'.factors = vac.factors
      BY <1>0, <2>1, <2>3 DEF IterationEnd, Vacuum
    <3> QED
      BY <2>1, <2>3, <3>1 DEF Coupled
  <2> QED
    BY <2>1, <2>2, <2>3 DEF IterationEnd
<1>4. ASSUME vac' = vac,
             pc' = "vacuum" => pc = "vacuum",
             pc \in {"vacuum", "failed"} => pc' \in {"vacuum", "failed"}
      PROVE  VacInv'
  BY <1>4 DEF Coupled
<1>5. CASE Maintenance \/ RejectGeometry \/ RecoverNonfinite
  BY <1>4, <1>5 DEF Maintenance, RejectGeometry, RecoverNonfinite, NextPass
<1>6. CASE VacuumThrows \/ Evaluate \/ NewtonAccepts \/ NewtonRollsBack
  BY <1>4, <1>6 DEF VacuumThrows, Evaluate, NewtonAccepts, NewtonRollsBack
<1>7. CASE ThrowInvalidStart \/ AcceptGeometry \/ SoftRestart
  BY <1>4, <1>7 DEF ThrowInvalidStart, AcceptGeometry, SoftRestart
<1>8. CASE Converge \/ Continue \/ Exhaust
  BY <1>4, <1>8 DEF Converge, Continue, Exhaust
<1>9. CASE Finished \/ UNCHANGED vars
  BY <1>4, <1>9 DEF Finished, vars, host
<1> QED
  BY <1>1, <1>2, <1>3, <1>5, <1>6, <1>7, <1>8, <1>9 DEF Next, FixedNext, VacuumNext
-----------------------------------------------------------------------------
(* One coupling.  Past the fence of a pass the edge force is on exactly when *)
(* the vacuum is coupled.  That needs the second part: the block gate is     *)
(* closed in the first effective iteration unless the vacuum is INITIALIZED, *)
(* so the vacuum must not be ACTIVE yet; and it is not, because the residual *)
(* that lets it ramp is not compared before that iteration has ended.        *)
EdgeInv ==
  /\ First /\ pc \notin {"decide"} \cup Stopped => ~small
  /\ vac.state = "ACTIVE" => ~First
  /\ pc \in Judged \cup {"device"} => (sched.edge <=> Coupled(vac))

(* Away from an anchor the residual minimum was taken under the force law of *)
(* this pass, unless the pass activates the vacuum and is about to restart.  *)
MinimumCoupled == ctl.baseline = "coupled"

MinimumInv ==
  /\ pc \in {"top", "vacuum"} /\ ~Anchored
       => /\ vac.state # "INITIALIZED"
          /\ MinimumCoupled <=> vac.state = "ACTIVE"
  /\ pc \in {"device", "newton", "gate"} /\ ~Anchored /\ ~vac.soft
       => (MinimumCoupled <=> Coupled(vac))
  /\ pc \in {"classify", "decide"} /\ ~Anchored
       => (MinimumCoupled <=> Coupled(vac))

(* Factors that have outlived their boundary, other than across a soft       *)
(* restart, are rebuilt before they can take part in a coupled update.       *)
Outlived == "factors" \in stale /\ ~softEpoch

FactorsInv ==
  /\ pc = "top" /\ Outlived /\ ~Anchored => vac.state = "OFF"
  /\ pc = "vacuum" /\ Outlived => vac.full \/ vac.state = "OFF"
  /\ pc \in Judged \cup {"device"} /\ Outlived => ~Coupled(vac)

OneLawInv == EdgeInv /\ MinimumInv /\ FactorsInv

LEMMA OneLawInit == Init => OneLawInv
<1> SUFFICES ASSUME Init PROVE OneLawInv
  OBVIOUS
<1>1. Anchored /\ First /\ vac.state # "ACTIVE"
  BY DEF Init, NewController, Anchored, Age, First, StageStartVacuum, NoVacuum
<1> QED
  BY <1>1 DEF Init, OneLawInv, EdgeInv, MinimumInv, FactorsInv, Judged

(* What the gates of a pass do to the operator.  A closed block gate leaves  *)
(* it alone; an open one after a restart, or on a ramp, updates in full.     *)
LEMMA Advance ==
  ASSUME TypeOK, AnchorInv, VacInv, BeginPass
  PROVE  /\ pc' \in {"vacuum", "device"}
         /\ pc' = "device" =>
              /\ vac'.state = vac.state
              /\ FreeBoundary => First /\ vac.state # "INITIALIZED"
         /\ pc' = "vacuum" =>
              /\ FreeBoundary /\ ~vac'.soft
              /\ Anchored => vac'.full
              /\ \/ vac'.state = vac.state
                 \/ /\ small /\ vac'.full
                    /\ \/ vac.state = "OFF" /\ vac'.state = "INITIALIZING"
                       \/ vac.state = "INITIALIZED" /\ vac'.state = "ACTIVE"
<1>0. /\ vac \in Vacuum /\ ctl.iter2 \in Nat /\ ctl.iter1 \in Nat
      /\ vac.state # "INITIALIZING" /\ pc = "top"
  BY DEF TypeOK, Controller, VacInv, BeginPass
<1>1. CASE ~FreeBoundary
  BY <1>1 DEF BeginPass, VacInv, NoVacuum
<1>2. CASE FreeBoundary /\ ~RunsBlock(vac, ctl.iter2)
  <2>1. vac' = [vac EXCEPT !.run = FALSE, !.full = FALSE, !.soft = FALSE]
          /\ pc' = (IF vac'.run THEN "vacuum" ELSE "device")
    BY <1>2 DEF BeginPass, AdvancedVacuum
  <2>2. vac'.state = vac.state /\ ~vac'.run
    BY <1>0, <2>1 DEF Vacuum
  <2>3. First /\ vac.state # "INITIALIZED"
    BY <1>2, FirstIteration DEF RunsBlock, TypeOK
  <2> QED
    BY <1>2, <2>1, <2>2, <2>3
<1>3. CASE FreeBoundary /\ RunsBlock(vac, ctl.iter2)
  <2> DEFINE full == FullUpdate(vac, ctl.iter2, ctl.iter1, small)
  <2>1. /\ vac' \in AdvancedVacuum(vac, ctl.iter2, ctl.iter1, small)
        /\ pc' = (IF vac'.run THEN "vacuum" ELSE "device")
    BY <1>3 DEF BeginPass
  <2>2. PICK n \in IF full THEN vac.nvacskip .. MaxVacSkip ELSE {vac.nvacskip} :
          vac' = [vac EXCEPT !.run = TRUE, !.soft = FALSE, !.full = full,
                    !.state = IF Ramps(vac, small) THEN Successor[@] ELSE @,
                    !.nvacskip = n]
    BY <1>3, <2>1 DEF AdvancedVacuum
  <2>3. /\ vac'.run /\ ~vac'.soft /\ vac'.full = full
        /\ vac'.state = IF Ramps(vac, small) THEN Successor[vac.state]
                        ELSE vac.state
    BY <1>0, <2>2 DEF Vacuum
  <2>4. Anchored => full
    <3>1. vac.nvacskip \in Nat \ {0}
      BY <1>0, VacSkipAssumption DEF Vacuum
    <3>2. 0 % vac.nvacskip = 0
      BY <3>1
    <3> QED
      BY <1>0, <3>2 DEF Anchored, Age, FullUpdate
  <2>5. Ramps(vac, small) => small /\ full /\ vac.state \in {"OFF", "INITIALIZED"}
    BY <1>0 DEF Ramps, FullUpdate, Vacuum, VacuumStates
  <2>6. Successor["OFF"] = "INITIALIZING" /\ Successor["INITIALIZED"] = "ACTIVE"
    BY DEF Successor
  <2> HIDE DEF full
  <2>7. pc' = "vacuum"
    BY <2>1, <2>3
  <2> QED
    BY <1>3, <2>3, <2>4, <2>5, <2>6, <2>7
<1> QED
  BY <1>1, <1>2, <1>3

(* The update of a pass, and the end of it.                                  *)
LEMMA Updated ==
  ASSUME TypeOK, VacuumUpdate
  PROVE  /\ vac'.state = Promoted(vac.state)
         /\ vac'.soft <=> vac'.state = "INITIALIZED"
         /\ sched'.edge <=> Coupled(vac')
         /\ vac.full => "factors" \notin stale'
         /\ ~vac.full => stale' = stale
         /\ pc = "vacuum" /\ pc' = "device"
         /\ UNCHANGED <<ctl, small, softEpoch>>
<1>0. vac \in Vacuum
  BY DEF TypeOK
<1>1. /\ vac'.state = Promoted(vac.state)
      /\ vac'.soft = (Promoted(vac.state) = "INITIALIZED")
      /\ vac'.edge = (Promoted(vac.state) \in {"INITIALIZED", "ACTIVE"})
  BY <1>0 DEF VacuumUpdate, UpdatedVacuum, Vacuum
<1>2. sched'.edge = vac'.edge
  BY DEF VacuumUpdate, TypeOK
<1>3. /\ vac.full => "factors" \notin stale'
      /\ ~vac.full => stale' = stale
      /\ pc = "vacuum" /\ pc' = "device"
      /\ UNCHANGED <<ctl, small, softEpoch>>
  BY DEF VacuumUpdate
<1> QED
  BY <1>1, <1>2, <1>3 DEF Coupled

LEMMA Ended ==
  ASSUME TypeOK, VacInv, EndPass, pc = "decide"
  PROVE  /\ pc' = "top" /\ small' = small
         /\ vac'.state # "INITIALIZED"
         /\ vac'.state = "ACTIVE" <=> Coupled(vac)
         /\ ~Coupled(vac) => vac'.state = "OFF"
<1>1. vac \in Vacuum /\ vac.state # "INITIALIZING"
  BY DEF TypeOK, VacInv
<1>2. vac.state \in {"OFF", "INITIALIZED", "ACTIVE"}
  BY <1>1 DEF Vacuum, VacuumStates
<1>3. vac' = IF FreeBoundary THEN IterationEnd(vac) ELSE vac
  BY DEF EndPass
<1>4. ~FreeBoundary => vac.state = "OFF"
  BY DEF VacInv, NoVacuum
<1>5. vac'.state = IF vac.state = "INITIALIZED" THEN "ACTIVE" ELSE vac.state
  BY <1>1, <1>3, <1>4 DEF IterationEnd, Vacuum
<1>6. pc' = "top" /\ small' = small
  BY DEF EndPass, NextPass
<1> QED
  BY <1>2, <1>5, <1>6 DEF Coupled
-----------------------------------------------------------------------------
(* The inductive step.                                                       *)
LEMMA OneLawStep ==
  ASSUME IInv, VacInv, OneLawInv, ~LambdaOnly, [Next]_vars
  PROVE  OneLawInv'
<1> USE DEF OneLawInv, EdgeInv, MinimumInv, FactorsInv
<1>0. /\ TypeOK /\ AnchorInv /\ ctl \in Controller /\ vac \in Vacuum
      /\ First => Anchored
  BY FirstIteration DEF IInv, TypeOK
<1>1. CASE BeginPass
  <2>1. /\ UNCHANGED <<ctl, small, stale, softEpoch>> /\ pc = "top"
        /\ sched'.edge = FALSE
    BY <1>1 DEF BeginPass
  <2>2. /\ Anchored' <=> Anchored
        /\ First' <=> First
        /\ MinimumCoupled' <=> MinimumCoupled
        /\ Outlived' <=> Outlived
    BY <2>1 DEF Anchored, First, MinimumCoupled, Outlived
  <2>3. CASE pc' = "device"
    <3>1. vac'.state = vac.state
      BY <1>0, <1>1, <2>3, Advance
    <3>2. vac.state = "OFF"
      <4>1. FreeBoundary => First /\ vac.state # "INITIALIZED"
        BY <1>0, <1>1, <2>3, Advance
      <4>2. ~FreeBoundary => vac.state = "OFF"
        BY DEF VacInv, NoVacuum
      <4>3. vac.state # "INITIALIZING"
        BY <2>1 DEF VacInv
      <4> QED
        BY <1>0, <4>1, <4>2, <4>3 DEF Vacuum, VacuumStates
    <3> QED
      BY <2>1, <2>2, <2>3, <3>1, <3>2 DEF Coupled, Stopped
  <2>4. CASE pc' = "vacuum"
    <3>1. /\ Anchored => vac'.full
          /\ \/ vac'.state = vac.state
             \/ /\ small /\ vac'.full
                /\ \/ vac.state = "OFF" /\ vac'.state = "INITIALIZING"
                   \/ vac.state = "INITIALIZED" /\ vac'.state = "ACTIVE"
      BY <1>0, <1>1, <2>4, Advance
    <3>2. First => ~small
      BY <2>1 DEF Stopped
    <3>3. EdgeInv'
      <4>1. pc' \notin Judged \cup {"device"}
        BY <2>4 DEF Judged
      <4>2. vac'.state = "ACTIVE" => ~First'
        BY <2>2, <3>1, <3>2
      <4>3. First' => ~small'
        BY <2>1, <2>2, <3>2
      <4> QED
        BY <4>1, <4>2, <4>3
    <3>4. MinimumInv'
      BY <2>1, <2>2, <2>4, <3>1
    <3>5. FactorsInv'
      BY <2>1, <2>2, <2>4, <3>1 DEF Judged
    <3> QED
      BY <3>3, <3>4, <3>5
  <2> QED
    BY <1>0, <1>1, <2>3, <2>4, Advance
<1>2. CASE VacuumUpdate
  <2>1. /\ vac'.state = Promoted(vac.state)
        /\ vac'.soft <=> vac'.state = "INITIALIZED"
        /\ sched'.edge <=> Coupled(vac')
        /\ vac.full => "factors" \notin stale'
        /\ ~vac.full => stale' = stale
        /\ pc = "vacuum" /\ pc' = "device"
        /\ UNCHANGED <<ctl, small, softEpoch>>
    BY <1>0, <1>2, Updated
  <2>2. /\ Anchored' <=> Anchored
        /\ First' <=> First
        /\ MinimumCoupled' <=> MinimumCoupled
        /\ Outlived' => ~vac.full /\ Outlived
    BY <2>1 DEF Anchored, First, MinimumCoupled, Outlived
  <2>3. EdgeInv'
    BY <2>1, <2>2 DEF Promoted, Judged, Stopped
  <2>4. MinimumInv'
    BY <2>1, <2>2 DEF Promoted, Coupled
  <2>5. FactorsInv'
    BY <2>1, <2>2 DEF Promoted, Coupled, Judged
  <2> QED
    BY <2>3, <2>4, <2>5
<1>3. CASE Maintenance \/ RejectGeometry \/ RecoverNonfinite
  <2>1. /\ ctl' \in {MaintenanceReset(ctl), Rejected(ctl)}
        /\ vac' = vac /\ pc' = "top" /\ pc \in {"top", "gate", "classify"}
    BY <1>3 DEF Maintenance, RejectGeometry, RecoverNonfinite, NextPass
  <2>2. ~small' \/ small' = small
    BY <1>3 DEF Maintenance, RejectGeometry, RecoverNonfinite, RecordResidual
  <2>3. Anchored' /\ (First' <=> First)
    BY <1>0, <2>1, RestartMoves
  <2> QED
    BY <2>1, <2>2, <2>3 DEF Stopped, Judged
<1>4. CASE VacuumThrows \/ ThrowInvalidStart
  <2>1. pc' = "failed" /\ vac' = vac
    BY <1>4 DEF VacuumThrows, ThrowInvalidStart
  <2>2. First' <=> First
    <3>1. CASE VacuumThrows
      BY <3>1 DEF VacuumThrows, First
    <3>2. CASE ThrowInvalidStart
      BY <1>0, <3>2, RestartMoves DEF ThrowInvalidStart
    <3> QED
      BY <1>4, <3>1, <3>2
  <2> QED
    BY <2>1, <2>2 DEF Stopped, Judged
<1>5. CASE Evaluate \/ AcceptGeometry
  <2>1. /\ UNCHANGED <<ctl, vac, sched, small, softEpoch>>
        /\ stale' \subseteq stale
    BY <1>5 DEF Evaluate, AcceptGeometry
  <2>2. \/ pc = "device" /\ pc' \in {"gate", "newton"}
        \/ pc = "gate" /\ pc' = (IF vac.soft THEN "soft" ELSE "classify")
    BY <1>5 DEF Evaluate, AcceptGeometry
  <2>3. /\ Anchored' <=> Anchored
        /\ First' <=> First
        /\ MinimumCoupled' <=> MinimumCoupled
        /\ Outlived' => Outlived
    BY <2>1 DEF Anchored, First, MinimumCoupled, Outlived
  <2> QED
    BY <2>1, <2>2, <2>3 DEF Judged, Stopped
<1>6. CASE NewtonAccepts \/ NewtonRollsBack
  <2>1. /\ UNCHANGED <<vac, sched, small, stale, softEpoch>>
        /\ pc = "newton" /\ pc' \in {"gate", "failed"}
        /\ ctl' \in {ctl, ResetCorrectionMomentum(ctl)}
    BY <1>6 DEF NewtonAccepts, NewtonRollsBack, history
  <2>2. /\ Anchored' <=> Anchored
        /\ First' <=> First
        /\ MinimumCoupled' => MinimumCoupled
        /\ Outlived' <=> Outlived
    BY <1>0, <2>1 DEF Anchored, Age, First, MinimumCoupled, Outlived,
                      ResetCorrectionMomentum, Controller
  <2>3. ~Coupled(vac)
    <3>1. ~FreeBoundary
      BY <2>1, StageAssumption DEF IInv, RecoveryInv, MomentumInv
    <3> QED
      BY <3>1 DEF VacInv, NoVacuum, Coupled
  <2>4. EdgeInv'
    BY <2>1, <2>2 DEF Judged, Stopped
  <2>5. MinimumInv'
    BY <2>1, <2>2, <2>3 DEF VacInv
  <2>6. FactorsInv'
    BY <2>1, <2>2, <2>3
  <2> QED
    BY <2>4, <2>5, <2>6
<1>7. CASE SoftRestart
  <2>1. /\ pc = "soft" /\ pc' = "classify" /\ softEpoch' = TRUE
        /\ UNCHANGED <<vac, sched, small>>
        /\ ctl' = VacuumSoftRestart(ctl)
    BY <1>7 DEF SoftRestart
  <2>2. Anchored' /\ (First' <=> First) /\ ~Outlived'
    BY <1>0, <2>1, RestartMoves DEF Outlived
  <2> QED
    BY <2>1, <2>2 DEF Judged, Stopped
<1>8. CASE Converge \/ Continue
  <2>1. /\ pc = "classify" /\ pc' \in {"done", "decide"}
        /\ UNCHANGED <<ctl, vac, sched, stale, softEpoch>>
    BY <1>8 DEF Converge, Continue
  <2>2. /\ Anchored' <=> Anchored
        /\ First' <=> First
        /\ MinimumCoupled' <=> MinimumCoupled
        /\ Outlived' <=> Outlived
    BY <2>1 DEF Anchored, First, MinimumCoupled, Outlived
  <2> QED
    BY <2>1, <2>2 DEF Judged, Stopped
<1>9. CASE Descend
  <2>1. /\ pc = "decide" /\ UNCHANGED <<stale, softEpoch>> /\ EndPass
        /\ ctl' \in AfterGoodDescent(Decided, StepRecovery)
    BY <1>9 DEF Descend
  <2>2. /\ pc' = "top" /\ small' = small
        /\ vac'.state # "INITIALIZED"
        /\ vac'.state = "ACTIVE" <=> Coupled(vac)
        /\ ~Coupled(vac) => vac'.state = "OFF"
    BY <1>0, <2>1, Ended
  <2>3. ~Anchored' /\ ~First'
    BY <1>0, <2>1, DescendMoves
  <2>4. MinimumCoupled' <=> Coupled(vac)
    <3>1. ctl'.baseline = Decided.baseline
      BY <1>0, <2>1 DEF AfterGoodDescent, Advanced, Decided, Baselined,
                        Controller
    <3>2. Decided.baseline = IF StartsBaseline(ctl)
                             THEN (IF sched.edge THEN "coupled" ELSE "interior")
                             ELSE ctl.baseline
      BY <1>0 DEF Decided, Baselined, Controller
    <3>3. sched.edge <=> Coupled(vac)
      BY <2>1 DEF Judged
    <3>4. ~StartsBaseline(ctl) => (ctl.baseline = "coupled" <=> Coupled(vac))
      BY <2>1 DEF StartsBaseline, Anchored, MinimumCoupled
    <3> QED
      BY <3>1, <3>2, <3>3, <3>4 DEF MinimumCoupled
  <2>5. Outlived' => ~Coupled(vac)
    BY <2>1 DEF Outlived, Judged
  <2> QED
    BY <2>2, <2>3, <2>4, <2>5 DEF Judged
<1>10. CASE DiscardDescent
  <2>1. /\ pc = "decide" /\ EndPass
        /\ ctl' \in {AfterBadJacobian(Decided), AfterBadProgress(Decided)}
        /\ \E growth : BadJacobian(ctl, growth) \/ BadProgress(ctl, growth, TRUE)
    BY <1>10 DEF DiscardDescent
  <2>2. /\ pc' = "top" /\ small' = small
    BY <1>0, <2>1, Ended
  <2>3. ~First
    BY <1>0, <2>1, PolicyAssumption
       DEF BadJacobian, BadProgress, First, Age, Controller
  <2>4. Anchored' /\ ~First'
    BY <1>0, <2>1, <2>3, RestartMoves
  <2> QED
    BY <2>2, <2>4 DEF Judged
<1>11. CASE Exhaust \/ Finished \/ UNCHANGED vars
  <2>1. /\ UNCHANGED <<ctl, vac, sched, small, stale, softEpoch>>
        /\ pc' \in {pc, "done"}
    BY <1>11 DEF Exhaust, Finished, vars, host, history
  <2>2. /\ Anchored' <=> Anchored
        /\ First' <=> First
        /\ MinimumCoupled' <=> MinimumCoupled
        /\ Outlived' <=> Outlived
    BY <2>1 DEF Anchored, First, MinimumCoupled, Outlived
  <2> QED
    BY <2>1, <2>2 DEF Judged, Stopped
<1> QED
  BY <1>1, <1>2, <1>3, <1>4, <1>5, <1>6, <1>7, <1>8, <1>9, <1>10, <1>11
     DEF Next, FixedNext, VacuumNext

LEMMA CoupledStage == ~LambdaOnly => (Spec => [](IInv /\ VacInv /\ OneLawInv))
<1> SUFFICES ASSUME ~LambdaOnly
             PROVE  Spec => [](IInv /\ VacInv /\ OneLawInv)
  OBVIOUS
<1>1. Init => VacInv /\ OneLawInv
  BY VacInit, OneLawInit
<1>2. IInv /\ VacInv /\ [Next]_vars => VacInv'
  BY VacStep DEF IInv
<1>3. IInv /\ VacInv /\ OneLawInv /\ [Next]_vars => OneLawInv'
  BY OneLawStep
<1> QED
  BY <1>1, <1>2, <1>3, Inductive, PTL DEF Spec

(* While no residual is nonfinite in lambda alone, the edge force acts on    *)
(* exactly the passes of a coupled vacuum.                                   *)
THEOREM EdgeIsCoupled == ~LambdaOnly => (Spec => []EdgeFollowsCoupling)
<1>1. OneLawInv => EdgeFollowsCoupling
  BY DEF OneLawInv, EdgeInv, EdgeFollowsCoupling, Judged
<1> QED
  BY <1>1, CoupledStage, PTL

(* Under the same condition residual growth is judged against a minimum of   *)
(* the same force law.                                                       *)
THEOREM MinimumOfThisLaw == ~LambdaOnly => (Spec => []BaselineMatchesCoupling)
<1>1. IInv /\ OneLawInv => BaselineMatchesCoupling
  <2> SUFFICES ASSUME IInv, OneLawInv PROVE BaselineMatchesCoupling
    OBVIOUS
  <2>1. Age(ctl) > 0 <=> ~Anchored
    BY FirstIteration DEF IInv, TypeOK
  <2> QED
    BY <2>1 DEF OneLawInv, EdgeInv, MinimumInv, MinimumCoupled,
                BaselineMatchesCoupling, Judged
<1> QED
  BY <1>1, CoupledStage, PTL

(* Under the same condition a coupled partial update uses factors of the     *)
(* current boundary, except across a soft restart.                           *)
THEOREM FactorsAreCurrent == ~LambdaOnly => (Spec => []FactorsOfThisEpoch)
<1>1. OneLawInv => FactorsOfThisEpoch
  BY DEF OneLawInv, EdgeInv, FactorsInv, Outlived, FactorsOfThisEpoch
<1> QED
  BY <1>1, CoupledStage, PTL

-----------------------------------------------------------------------------
(* Whatever the stage before left behind, the refined one starts from a      *)
(* vacuum operator StageLoop starts from.                                    *)
LEMMA TransitionStarts ==
  ASSUME NEW v \in Vacuum, v.state # "INITIALIZING",
         v.soft => v.state = "INITIALIZED",
         v.edge <=> Coupled(v) /\ v.factors
  PROVE  StageTransition(IterationEnd(v)) \in StageStartVacuum
<1>1. CASE v.state = "OFF"
  BY <1>1 DEF Vacuum, Coupled, IterationEnd, StageTransition, StageStartVacuum
<1>2. CASE v.state = "INITIALIZED"
  BY <1>2 DEF Vacuum, VacuumStates, Coupled, IterationEnd, StageTransition,
              StageStartVacuum
<1>3. CASE v.state = "ACTIVE"
  BY <1>3 DEF Vacuum, VacuumStates, Coupled, IterationEnd, StageTransition,
              StageStartVacuum
<1> QED
  BY <1>1, <1>2, <1>3 DEF Vacuum, VacuumStates

-----------------------------------------------------------------------------
(* A pass that goes on past the Jacobian gate leaves an oriented state in    *)
(* storage, even if a soft restart has put another one there than it         *)
(* evaluated; so a converged stage ends on an oriented state.                *)
PastGate ==
  pc \in {"newton", "soft", "classify", "decide"}
    \/ (pc = "gate" /\ verdict # "invalid")

GateInv ==
  /\ PastGate => spectral \in Oriented
  /\ result.converged => pc = "done" /\ spectral \in Oriented

LEMMA GateInit == Init => GateInv
BY DEF Init, GateInv, PastGate

LEMMA GateStep ==
  ASSUME IInv, GateInv, [Next]_vars
  PROVE  GateInv'
<1> USE DEF GateInv, PastGate
<1>1. CASE Evaluate
  BY <1>1 DEF Evaluate, IInv, RecoveryInv, VerdictInv, Judged
<1>2. CASE NewtonAccepts \/ NewtonRollsBack
  BY <1>2 DEF NewtonAccepts, NewtonRollsBack, device
<1>3. CASE AcceptGeometry
  BY <1>3 DEF AcceptGeometry, device
<1>4. CASE SoftRestart
  <2>1. checkpoint \in Oriented
    BY <1>4 DEF SoftRestart, IInv, RecoveryInv, VerdictInv, FirstInv,
                CandidateInv, Trusted, Judged
  <2> QED
    BY <1>4, <2>1 DEF SoftRestart, Restore
<1>5. CASE Converge \/ Continue
  BY <1>5 DEF Converge, Continue, Validate, device
<1>6. ASSUME result'.converged = result.converged, pc' = "top",
             pc \in {"top", "gate", "classify", "decide"}
      PROVE  GateInv'
  BY <1>6
<1>7. CASE Maintenance \/ RejectGeometry \/ RecoverNonfinite
  BY <1>6, <1>7 DEF Maintenance, RejectGeometry, RecoverNonfinite, NextPass
<1>8. CASE Descend \/ DiscardDescent
  <2>1. result' = [result EXCEPT !.residuals = @ \/ iter + 1 = MaxIter]
          /\ pc' = "top" /\ pc = "decide"
    BY <1>8 DEF Descend, DiscardDescent, EndPass, NextPass
  <2>2. result'.converged = result.converged
    BY <2>1 DEF IInv, TypeOK
  <2> QED
    BY <1>6, <2>1, <2>2
<1>9. CASE Exhaust
  <2>1. result'.converged = result.converged
    BY <1>9 DEF Exhaust, IInv, TypeOK
  <2> QED
    BY <1>9, <2>1 DEF Exhaust, device
<1>10. CASE BeginPass \/ VacuumUpdate \/ VacuumThrows \/ ThrowInvalidStart
  BY <1>10 DEF BeginPass, VacuumUpdate, VacuumThrows, ThrowInvalidStart, device
<1>11. CASE Finished \/ UNCHANGED vars
  BY <1>11 DEF Finished, vars, host, device
<1> QED
  BY <1>1, <1>2, <1>3, <1>4, <1>5, <1>7, <1>8, <1>9, <1>10, <1>11 DEF Next, FixedNext, VacuumNext

-----------------------------------------------------------------------------
(* What holds of a stage holds on every grid.                                *)
StageInv == IInv /\ VacInv /\ GateInv

LEMMA StageStarts == Init => StageInv
BY TypeInit, RecoveryInit, VacInit, GateInit DEF StageInv, IInv

LEMMA StageKept ==
  ASSUME StageInv, [Next]_vars
  PROVE  StageInv'
BY TypeStep, RecoveryStep, VacStep, GateStep DEF StageInv, IInv

(* The prolongated state and the vacuum operator that the coarse stage left  *)
(* are a start that StageLoop knows.                                         *)
LEMMA RefineStarts ==
  ASSUME StageInv, Refine
  PROVE  Init'
<1>1. FreeBoundary => vac' \in StageStartVacuum
  BY TransitionStarts DEF StageInv, IInv, TypeOK, VacInv, Refine
<1>2. ~FreeBoundary => vac' = NoVacuum
  BY DEF StageInv, VacInv, Refine
<1> QED
  BY <1>1, <1>2 DEF Init, Refine

(* The vacuum hook at the end of the last stage disturbs nothing.            *)
LEMMA ReturnKeeps ==
  ASSUME StageInv, Return
  PROVE  StageInv'
<1> USE DEF StageInv, IInv
<1>0. UNCHANGED <<pc, iter, ctl, sched, small, result, slabs, device, history>>
        /\ pc = "done" /\ vac \in Vacuum
  BY DEF Return, TypeOK
<1>1. vac' = (IF FreeBoundary THEN IterationEnd(vac) ELSE vac)
  BY DEF Return
<1>2. vac' \in Vacuum /\ (~FreeBoundary => vac' = vac)
  BY <1>0, <1>1, UpdateTypes
<1>3. TypeOK' /\ CapInv' /\ AnchorInv'
  BY <1>0, <1>2 DEF TypeOK, CapInv, AnchorInv, slabs, device, history
<1>4. RecoveryInv'
  BY <1>0, <1>2 DEF RecoveryInv, VerdictInv, FirstInv, CandidateInv,
       MomentumInv, MaintenanceInv, Unjudged, Judged, First, Anchored, Age,
       MaintenanceDue, Trusted, slabs, device, history
<1>5. VacInv'
  <2>1. CASE vac' = vac
    BY <1>0, <2>1 DEF VacInv, Coupled
  <2>2. CASE vac.state = "INITIALIZED" /\ FreeBoundary
    <3>1. vac'.state = "ACTIVE" /\ ~vac'.soft /\ vac'.edge = vac.edge
            /\ vac'.factors = vac.factors
      BY <1>0, <1>1, <2>2 DEF IterationEnd, Vacuum
    <3> QED
      BY <1>0, <2>2, <3>1 DEF VacInv, Coupled
  <2> QED
    BY <1>1, <2>1, <2>2 DEF IterationEnd
<1>6. GateInv'
  BY <1>0 DEF GateInv, PastGate, device
<1> QED
  BY <1>3, <1>4, <1>5, <1>6

-----------------------------------------------------------------------------
(* The run around the stages.  Nothing is written before the last stage has  *)
(* been handed on, and from then on its state no longer changes; what has    *)
(* been written and what is still to be written make up what was asked for.  *)
Elements(s) == {s[i] : i \in DOMAIN s}

Files == {"state", "checkpoint", "boozer"}

RunTypes ==
  /\ phase \in {"solving", "output", "exited"}
  /\ stage \in 1 .. Stages
  /\ failedStage \in 0 .. Stages
  /\ snapshot \in State \cup {NoState}
  /\ outputOk \in BOOLEAN
  /\ written \subseteq Files
  /\ exit \in {"none", "success", "failure"}
  /\ todo \in Seq(Files)

HandedOn ==
  /\ pc = "done"
  /\ failedStage = 0 => /\ stage = Stages /\ snapshot = spectral
                        /\ Stages > 1 => result.converged
  /\ failedStage = 0 /\ outputOk
       => written \cup Elements(todo) = Elements(Outputs)

RunInv ==
  /\ RunTypes
  /\ phase = "solving" => written = {} /\ todo = Outputs
  /\ phase = "output" => HandedOn
  /\ phase # "exited" => exit = "none"
  /\ OnlyFinestIsWritten
  /\ SuccessIsValid

(* Writing the first file of a list leaves the others.                       *)
LEMMA HeadWritten ==
  ASSUME NEW s \in Seq(Files), s # << >>
  PROVE  /\ Tail(s) \in Seq(Files) /\ Head(s) \in Files
         /\ Elements(s) = {Head(s)} \cup Elements(Tail(s))
<1>1. /\ Tail(s) \in Seq(Files) /\ Head(s) = s[1] /\ Head(s) \in Files
      /\ Len(s) \in Nat \ {0} /\ DOMAIN s = 1 .. Len(s)
      /\ DOMAIN Tail(s) = 1 .. (Len(s) - 1)
      /\ \A i \in 1 .. (Len(s) - 1) : Tail(s)[i] = s[i + 1]
  OBVIOUS
<1>2. ASSUME NEW x \in Elements(s)
      PROVE  x \in {Head(s)} \cup Elements(Tail(s))
  <2>1. PICK i \in 1 .. Len(s) : x = s[i]
    BY <1>1 DEF Elements
  <2>2. CASE i = 1
    BY <1>1, <2>1, <2>2
  <2>3. CASE i # 1
    <3>1. i - 1 \in 1 .. (Len(s) - 1) /\ Tail(s)[i - 1] = x
      BY <1>1, <2>1, <2>3
    <3> QED
      BY <1>1, <3>1 DEF Elements
  <2> QED
    BY <2>2, <2>3
<1>3. ASSUME NEW x \in Elements(Tail(s))
      PROVE  x \in Elements(s)
  <2>1. PICK i \in 1 .. (Len(s) - 1) : x = s[i + 1]
    BY <1>1 DEF Elements
  <2>2. i + 1 \in 1 .. Len(s)
    BY <1>1
  <2> QED
    BY <1>1, <2>1, <2>2 DEF Elements
<1>4. Head(s) \in Elements(s)
  BY <1>1 DEF Elements
<1> QED
  BY <1>1, <1>2, <1>3, <1>4

LEMMA RunStarts == RunInit => Init /\ RunInv
<1> SUFFICES ASSUME RunInit PROVE RunInv
  BY DEF RunInit
<1>1. RunTypes
  BY RunAssumption DEF RunInit, RunTypes, Files
<1> QED
  BY <1>1 DEF RunInit, RunInv, OnlyFinestIsWritten, SuccessIsValid

LEMMA RunKept ==
  ASSUME StageInv, RunInv, [RunNext]_<<vars, run>>
  PROVE  RunInv'
<1> USE DEF RunInv, RunTypes, OnlyFinestIsWritten, SuccessIsValid
<1>0. Stages \in Nat \ {0} /\ Outputs \in Seq(Files)
        /\ spectral \in State
  BY RunAssumption DEF Files, StageInv, IInv, TypeOK
<1>1. CASE SolveStage
  BY <1>1 DEF SolveStage, run
<1>2. CASE Abort
  BY <1>2 DEF Abort
<1>3. CASE Refine
  BY <1>0, <1>3 DEF Refine
<1>4. CASE Return
  <2>1. snapshot' = (IF stage = Stages THEN spectral ELSE snapshot)
          /\ spectral' = spectral /\ result' = result /\ pc' = pc
    BY <1>4 DEF Return, CaptureFields, device
  <2>2. phase = "solving" /\ pc = "done" /\ phase' = "output"
          /\ failedStage' = (IF Failing THEN stage ELSE 0)
          /\ (Failing \/ stage = Stages)
          /\ UNCHANGED <<stage, todo, outputOk, written, exit>>
    BY <1>4 DEF Return
  <2>3. failedStage' = 0 => stage = Stages /\ ~Failing
    BY <1>0, <2>2
  <2>4. HandedOn'
    BY <2>1, <2>2, <2>3 DEF HandedOn, Failing, Elements
  <2> QED
    BY <1>0, <2>1, <2>2, <2>4
<1>5. CASE Write
  <2>1. /\ phase = "output" /\ failedStage = 0 /\ todo # << >>
        /\ todo' = Tail(todo)
        /\ UNCHANGED <<vars, phase, stage, failedStage, snapshot, exit>>
    BY <1>5 DEF Write
  <2>2. \/ written' = written \cup {Head(todo)} /\ outputOk' = outputOk
        \/ /\ outputOk' = FALSE
           /\ written' \in {written, written \cup {Head(todo)}}
    BY <1>5 DEF Write
  <2>3. /\ todo' \in Seq(Files) /\ Head(todo) \in Files
        /\ Elements(todo) = {Head(todo)} \cup Elements(todo')
    BY <2>1, HeadWritten
  <2>4. spectral' = spectral /\ result' = result /\ pc' = pc
    BY <2>1 DEF vars, host, device
  <2>5. HandedOn'
    <3>1. outputOk' => written' \cup Elements(todo') = written \cup Elements(todo)
                         /\ outputOk
      BY <2>2, <2>3
    <3> QED
      BY <2>1, <2>4, <3>1 DEF HandedOn, Elements
  <2> QED
    BY <2>1, <2>2, <2>3, <2>4, <2>5 DEF HandedOn
<1>6. CASE Exit
  <2>1. /\ phase = "output" /\ (failedStage > 0 \/ todo = << >>)
        /\ phase' = "exited"
        /\ exit' = (IF failedStage = 0 /\ outputOk /\ result.converged
                    THEN "success" ELSE "failure")
        /\ UNCHANGED <<vars, stage, failedStage, snapshot, todo, outputOk,
                       written>>
    BY <1>6 DEF Exit
  <2>2. spectral' = spectral /\ result' = result
    BY <2>1 DEF vars, host, device
  <2>3. ASSUME exit' = "success"
        PROVE  /\ result.converged /\ snapshot = spectral
               /\ written = Elements(Outputs) /\ spectral \in Oriented
    <3>1. failedStage = 0 /\ outputOk /\ result.converged /\ todo = << >>
      BY <2>1, <2>3
    <3>2. Elements(<< >>) = {}
      BY DEF Elements
    <3> QED
      BY <2>1, <3>1, <3>2 DEF HandedOn, StageInv, GateInv
  <2> QED
    BY <2>1, <2>2, <2>3 DEF Elements
<1>7. CASE Exited \/ UNCHANGED <<vars, run>>
  BY <1>7 DEF Exited, vars, run, host, device, HandedOn, Elements
<1> QED
  BY <1>1, <1>2, <1>3, <1>4, <1>5, <1>6, <1>7 DEF RunNext

-----------------------------------------------------------------------------
(* The inductive invariant of a run.                                         *)
LEMMA RunKeepsStages ==
  ASSUME StageInv, [RunNext]_<<vars, run>>
  PROVE  [Next]_vars \/ Init' \/ StageInv'
<1>1. CASE SolveStage
  BY <1>1 DEF SolveStage
<1>2. CASE Refine
  BY <1>2, RefineStarts
<1>3. CASE Return
  BY <1>3, ReturnKeeps
<1>4. CASE Abort \/ Write \/ Exit \/ Exited \/ UNCHANGED <<vars, run>>
  BY <1>4 DEF Abort, Write, Exit, Exited
<1> QED
  BY <1>1, <1>2, <1>3, <1>4 DEF RunNext

LEMMA RunInductive == RunSpec => [](StageInv /\ RunInv)
<1>1. RunInit => StageInv /\ RunInv
  BY RunStarts, StageStarts
<1>2. Init => StageInv
  BY StageStarts
<1>3. StageInv /\ [RunNext]_<<vars, run>> => [Next]_vars \/ Init' \/ StageInv'
  BY RunKeepsStages
<1>4. StageInv /\ [Next]_vars => StageInv'
  BY StageKept
<1>5. StageInv /\ RunInv /\ [RunNext]_<<vars, run>> => RunInv'
  BY RunKept
<1> QED
  BY <1>1, <1>2, <1>3, <1>4, <1>5, PTL DEF RunSpec

(* Type correctness of a run.                                                *)
THEOREM RunTypeCorrect == RunSpec => []RunTypeOK
<1>1. StageInv /\ RunInv => RunTypeOK
  BY DEF StageInv, IInv, RunInv, RunTypes, RunTypeOK, Files
<1> QED
  BY <1>1, RunInductive, PTL

(* Each grid starts as solver_run() is modelled to start: the vacuum         *)
(* operator crosses a refinement in a state that StageLoop starts from.      *)
StageStart == pc = "top" /\ iter = 0 => Init

LEMMA StageStartKept ==
  ASSUME StageInv, StageStart, [RunNext]_<<vars, run>>
  PROVE  StageStart' \/ Init'
<1>1. CASE Refine
  BY <1>1, RefineStarts
<1>2. ASSUME [Next]_vars, vars' # vars
      PROVE  ~(pc' = "top" /\ iter' = 0)
  <2>1. iter \in Nat
    BY StageAssumption DEF StageInv, IInv, TypeOK
  <2>2. CASE NextPass
    BY <2>1, <2>2 DEF NextPass
  <2>3. CASE Maintenance \/ RejectGeometry \/ RecoverNonfinite
    BY <2>2, <2>3 DEF Maintenance, RejectGeometry, RecoverNonfinite
  <2>4. CASE Descend \/ DiscardDescent
    BY <2>2, <2>4 DEF Descend, DiscardDescent, EndPass
  <2>5. CASE BeginPass \/ VacuumUpdate \/ VacuumThrows
    BY <2>5 DEF BeginPass, VacuumUpdate, VacuumThrows
  <2>6. CASE Evaluate \/ NewtonAccepts \/ NewtonRollsBack
    BY <2>6 DEF Evaluate, NewtonAccepts, NewtonRollsBack
  <2>7. CASE ThrowInvalidStart \/ AcceptGeometry \/ SoftRestart
    BY <2>7 DEF ThrowInvalidStart, AcceptGeometry, SoftRestart
  <2>8. CASE Converge \/ Continue \/ Exhaust \/ Finished
    BY <1>2, <2>8 DEF Converge, Continue, Exhaust, Finished
  <2> QED
    BY <1>2, <2>3, <2>4, <2>5, <2>6, <2>7, <2>8 DEF Next, FixedNext, VacuumNext
<1>3. CASE SolveStage
  <2>1. CASE vars' = vars
    BY <2>1 DEF StageStart, Init, vars, host, slabs, device, history
  <2>2. CASE vars' # vars
    BY <1>2, <1>3, <2>2 DEF SolveStage, StageStart
  <2> QED
    BY <2>1, <2>2
<1>4. CASE Return
  BY <1>4 DEF Return, StageStart
<1>5. CASE Abort \/ Write \/ Exit \/ Exited \/ UNCHANGED <<vars, run>>
  BY <1>5 DEF Abort, Write, Exit, Exited, StageStart, Init, vars, host, slabs,
              device, history
<1> QED
  BY <1>1, <1>3, <1>4, <1>5 DEF RunNext

THEOREM EveryGridStartsAsModelled == RunSpec => []StagesStartAsModelled
<1>1. RunInit => StageStart
  BY RunStarts DEF StageStart
<1>2. Init => StageStart
  BY DEF StageStart
<1>3. StageInv /\ StageStart /\ [RunNext]_<<vars, run>>
        => StageStart' \/ Init'
  BY StageStartKept
<1>4. StageStart => StagesStartAsModelled
  BY DEF StageStart, StagesStartAsModelled
<1> QED
  BY <1>1, <1>2, <1>3, <1>4, RunInductive, PTL DEF RunSpec

(* No exit status of success without a converged, gated state in every file. *)
THEOREM SuccessMeansValid == RunSpec => []SuccessIsValid
<1>1. RunInv => SuccessIsValid
  BY DEF RunInv
<1> QED
  BY <1>1, RunInductive, PTL

(* No file holds a coarse state, or a multigrid result short of tolerance.   *)
THEOREM FilesAreFinest == RunSpec => []OnlyFinestIsWritten
<1>1. RunInv => OnlyFinestIsWritten
  BY DEF RunInv
<1> QED
  BY <1>1, RunInductive, PTL

(* The rollback safety of a stage, on every grid of a run.                   *)
THEOREM EveryGridFallsBackSafely ==
  RunSpec => [](RecoverySlabValidated /\ RestartsFromOriented
                  /\ PendingIsCurrent)
<1>1. IInv => RecoverySlabValidated /\ RestartsFromOriented
  BY RecoveryParts DEF IInv, RecoveryInv
<1>2. IInv => PendingIsCurrent
  BY DEF IInv, RecoveryInv, CandidateInv, MaintenanceInv, PendingIsCurrent,
         Unjudged
<1>3. StageInv => IInv
  BY DEF StageInv
<1> QED
  BY <1>1, <1>2, <1>3, RunInductive, PTL

-----------------------------------------------------------------------------
(* The vacuum ramp never goes back.                                          *)

(* Every method of the operator keeps a coupled vacuum coupled.              *)
LEMMA MethodsKeepCoupling ==
  ASSUME NEW v \in Vacuum, Coupled(v)
  PROVE  /\ Coupled(UpdatedVacuum(v)) /\ Coupled(IterationEnd(v))
         /\ Coupled(StageTransition(IterationEnd(v)))
         /\ \A i2, i1, s : \A w \in AdvancedVacuum(v, i2, i1, s) : Coupled(w)
<1>1. v.state \in {"INITIALIZED", "ACTIVE"}
  BY DEF Coupled
<1>2. Coupled(UpdatedVacuum(v))
  BY <1>1 DEF UpdatedVacuum, Promoted, Coupled, Vacuum
<1>3. IterationEnd(v) \in Vacuum /\ Coupled(IterationEnd(v))
  BY <1>1, UpdateTypes DEF IterationEnd, Coupled, Vacuum
<1>4. Coupled(StageTransition(IterationEnd(v)))
  BY <1>3 DEF StageTransition, Coupled, Vacuum
<1>5. ASSUME NEW i2, NEW i1, NEW s, NEW w \in AdvancedVacuum(v, i2, i1, s)
      PROVE  Coupled(w)
  <2>1. CASE ~RunsBlock(v, i2)
    BY <1>1, <2>1 DEF AdvancedVacuum, Coupled, Vacuum
  <2>2. CASE RunsBlock(v, i2)
    <3>1. w.state = IF Ramps(v, s) THEN Successor[v.state] ELSE v.state
      BY <2>2 DEF AdvancedVacuum, Vacuum
    <3>2. Successor["INITIALIZED"] = "ACTIVE"
      BY DEF Successor
    <3> QED
      BY <1>1, <3>1, <3>2 DEF Ramps, Coupled
  <2> QED
    BY <2>1, <2>2
<1> QED
  BY <1>2, <1>3, <1>4, <1>5

LEMMA CouplingStep ==
  ASSUME StageInv, Coupled(vac), [RunNext]_<<vars, run>>
  PROVE  Coupled(vac')
<1>0. vac \in Vacuum
  BY DEF StageInv, IInv, TypeOK
<1>1. CASE vac' = vac
  BY <1>1
<1>2. CASE BeginPass
  BY <1>0, <1>2, MethodsKeepCoupling DEF BeginPass
<1>3. CASE VacuumUpdate
  BY <1>0, <1>3, MethodsKeepCoupling DEF VacuumUpdate
<1>4. CASE Descend \/ DiscardDescent
  BY <1>0, <1>4, MethodsKeepCoupling DEF Descend, DiscardDescent, EndPass
<1>5. CASE Refine \/ Return
  BY <1>0, <1>5, MethodsKeepCoupling DEF Refine, Return
<1>6. CASE SolveStage
  <2>1. CASE Maintenance \/ VacuumThrows \/ Evaluate \/ NewtonAccepts
               \/ NewtonRollsBack
    BY <1>1, <2>1 DEF Maintenance, VacuumThrows, Evaluate, NewtonAccepts,
                      NewtonRollsBack
  <2>2. CASE RejectGeometry \/ ThrowInvalidStart \/ AcceptGeometry
               \/ SoftRestart \/ RecoverNonfinite
    BY <1>1, <2>2 DEF RejectGeometry, ThrowInvalidStart, AcceptGeometry,
                      SoftRestart, RecoverNonfinite
  <2>3. CASE Converge \/ Continue \/ Exhaust \/ Finished
    BY <1>1, <2>3 DEF Converge, Continue, Exhaust, Finished, vars, host
  <2> QED
    BY <1>2, <1>3, <1>4, <1>6, <2>1, <2>2, <2>3 DEF SolveStage, Next, FixedNext, VacuumNext
<1>7. CASE Abort \/ Write \/ Exit \/ Exited \/ UNCHANGED <<vars, run>>
  BY <1>1, <1>7 DEF Abort, Write, Exit, Exited, vars, host
<1> QED
  BY <1>5, <1>6, <1>7 DEF RunNext

(* No rollback and no refinement takes the plasma back to an evaluation      *)
(* without the vacuum pressure.                                              *)
THEOREM CouplingIsKept == RunSpec => CouplingSurvives
<1>1. StageInv /\ [RunNext]_<<vars, run>>
        => [Coupled(vac) => Coupled(vac')]_<<vars, run>>
  BY CouplingStep
<1> QED
  BY <1>1, RunInductive, PTL DEF RunSpec, CouplingSurvives
=============================================================================
