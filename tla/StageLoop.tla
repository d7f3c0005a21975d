----------------------------- MODULE StageLoop -----------------------------
(* solver_run(): one radial stage of the fixed-point solver.  Each pass      *)
(* evaluates the force of the current spectral state on the device, reads    *)
(* one control record at a single fence, and lets the host decide: reject    *)
(* the geometry, recover from a nonfinite residual, stop, or descend and     *)
(* then keep, checkpoint or discard the descent.                             *)
(*                                                                           *)
(* A spectral state is a member of State.  Whether its geometry passes the   *)
(* Jacobian gate depends on nothing else, so the valid ones are the subset   *)
(* Oriented.  Every other verdict also depends on data the model leaves out  *)
(* and is chosen nondeterministically.  The host enqueues all device work on *)
(* one stream and blocks at the fences, so the steps are sequential.         *)
EXTENDS IterationController, VacuumCoupling, FiniteSets

CONSTANTS
  State,             \* spectral states
  NoState,           \* stands for the absent candidate
  Oriented,          \* those that pass the oriented-Jacobian gate
  MaxIter,           \* the stage's cap on passes
  FreeBoundary,      \* a vacuum operator is attached
  StepRecovery,      \* enable_step_recovery
  Newton,            \* enable_newton
  LambdaOnly         \* a residual can be nonfinite in lambda alone

ASSUME StageAssumption ==
  /\ State # {}
  /\ NoState \notin State
  /\ Oriented \subseteq State
  /\ MaxIter \in Nat
  /\ {FreeBoundary, StepRecovery, Newton, LambdaOnly} \subseteq BOOLEAN
  /\ ~(FreeBoundary /\ (Newton \/ StepRecovery))

VARIABLES
  pc,            \* where the host is in the pass
  iter,          \* raw passes begun and left
  ctl,           \* the IterationController
  vac,           \* the FreeBoundaryOperator
  spectral,      \* the state in storage
  atRest,        \* the velocities in storage are zero
  checkpoint,    \* the state slab a restore copies from
  previous,      \* the slab retained while the checkpoint is pending
  pending,       \* checkpoint_pending
  sched,         \* the EvaluationSchedule of this pass
  verdict,       \* what the control record says of this pass
  evaluated,     \* the state whose residual is in the device buffers
  small,         \* the previous R/Z residual is below the vacuum threshold
  result         \* SolverResult: converged, iterations, whether fsq was set

(* What the properties remember of the past; no action reads these.          *)
VARIABLES
  passed,        \* states that passed the Jacobian and the finite gate
  stale,         \* caches not rebuilt since the state was last replaced
  events,        \* restart events pushed during this pass
  maintained,    \* maintenance resets so far
  softEpoch      \* the current restart epoch began with a soft restart

host == <<pc, iter, ctl, vac, sched, small, result>>
slabs == <<checkpoint, previous, pending>>
device == <<spectral, atRest, verdict, evaluated>>
history == <<passed, stale, events, maintained, softEpoch>>
vars == <<host, slabs, device, history>>

Caches == {"preconditioner", "norms", "reference", "factors"}
Verdicts == {"none", "invalid", "nonfinite", "converged", "normal"}
Stopped == {"done", "failed"}

NoSchedule ==
  [refresh |-> FALSE, reset |-> FALSE, edge |-> FALSE]

TypeOK ==
  /\ pc \in {"top", "vacuum", "device", "newton", "gate", "soft", "classify",
             "decide"} \cup Stopped
  /\ iter \in 0 .. MaxIter
  /\ ctl \in Controller
  /\ vac \in Vacuum
  /\ spectral \in State
  /\ atRest \in BOOLEAN
  /\ checkpoint \in State
  /\ previous \in State
  /\ pending \in BOOLEAN
  /\ sched \in [refresh : BOOLEAN, reset : BOOLEAN, edge : BOOLEAN]
  /\ verdict \in Verdicts
  /\ evaluated \in State
  /\ small \in BOOLEAN
  /\ result \in [converged : BOOLEAN, iterations : Nat, residuals : BOOLEAN]
  /\ passed \subseteq State
  /\ stale \subseteq Caches
  /\ events \in Nat
  /\ maintained \in Nat
  /\ softEpoch \in BOOLEAN

(* The stage starts from a cold guess, a restart file or the prolongation of *)
(* a coarser stage, so from any state.  previous_checkpoint is allocated but *)
(* not written before the first refresh: it holds anything.                  *)
Init ==
  /\ pc = "top" /\ iter = 0
  /\ ctl = NewController
  /\ vac \in IF FreeBoundary THEN StageStartVacuum ELSE {NoVacuum}
  /\ spectral \in State /\ checkpoint = spectral /\ previous \in State
  /\ atRest = TRUE /\ pending = FALSE
  /\ sched = NoSchedule /\ verdict = "none" /\ evaluated = spectral
  /\ small = FALSE
  /\ result = [converged |-> FALSE, iterations |-> 0, residuals |-> FALSE]
  /\ passed = {} /\ stale = Caches /\ events = 0 /\ maintained = 0
  /\ softEpoch = FALSE

(* restore_state(): the state slab and zero velocities.                      *)
Restore(slab) ==
  /\ spectral' = slab
  /\ atRest' = TRUE
  /\ stale' = Caches

RejectPending_NoSwap ==      \* mutant: the flag is cleared, nothing is swapped
  pending' = FALSE /\ UNCHANGED <<checkpoint, previous>>

(* reject_pending_checkpoint(): the slabs swap roles.                        *)
RejectPending ==
  IF pending
  THEN /\ checkpoint' = previous /\ previous' = checkpoint
       /\ pending' = FALSE
  ELSE UNCHANGED slabs

NextPass_Effective ==        \* mutant: the cap bounds effective iterations
  pc' = "top" /\ iter' = IF ctl'.iter2 > ctl.iter2 THEN iter + 1 ELSE iter

(* `continue`, the end of the loop body, and their `++iter`.                 *)
NextPass == pc' = "top" /\ iter' = iter + 1

(* Top of the pass: after 25 or 50 bad Jacobians the pass only restores.     *)
Maintenance ==
  /\ pc = "top" /\ iter < MaxIter
  /\ MaintenanceDue(ctl)
  /\ ctl' = MaintenanceReset(ctl)
  /\ Restore(checkpoint)
  /\ NextPass
  /\ events' = 1 /\ maintained' = maintained + 1 /\ softEpoch' = FALSE
  /\ UNCHANGED <<vac, slabs, sched, verdict, evaluated, small,
                 result, passed>>

(* The vacuum gates advance before the schedule is built from them; the      *)
(* control record is cleared at the head of the device pass.                 *)
BeginPass ==
  /\ pc = "top" /\ iter < MaxIter
  /\ ~MaintenanceDue(ctl)
  /\ vac' \in IF FreeBoundary
              THEN AdvancedVacuum(vac, ctl.iter2, ctl.iter1, small)
              ELSE {vac}
  /\ sched' = [refresh |-> RefreshPreconditioner(ctl),
               reset |-> ResetConstraintReference(ctl)
                           /\ ~(FreeBoundary /\ Coupled(vac')),
               edge |-> FALSE]
  /\ verdict' = "none" /\ events' = 0
  /\ pc' = IF vac'.run THEN "vacuum" ELSE "device"
  /\ UNCHANGED <<iter, ctl, slabs, spectral, atRest, evaluated,
                 small, result, passed, stale, maintained, softEpoch>>

(* run_host_update() between the device prefix and suffix, before anything   *)
(* has looked at the Jacobian of this pass.                                  *)
VacuumUpdate ==
  /\ pc = "vacuum"
  /\ vac' = UpdatedVacuum(vac)
  /\ sched' = [sched EXCEPT !.edge = vac'.edge]
  /\ stale' = IF vac.full THEN stale \ {"factors"} ELSE stale
  /\ pc' = "device"
  /\ UNCHANGED <<iter, ctl, slabs, device, small, result, passed, events,
                 maintained, softEpoch>>

VacuumThrows ==
  /\ pc = "vacuum"
  /\ InconsistentUpdateThrows(vac)
  /\ pc' = "failed"
  /\ UNCHANGED <<iter, ctl, vac, sched, slabs, device, small, result, history>>

NewtonDue ==
  /\ Newton
  /\ ctl.iter2 >= NewtonStart
  /\ ctl.iter2 % NewtonPeriod = 0
  /\ Age(ctl) > NewtonMinEpochAge
  /\ ~sched.refresh
  /\ ~sched.reset

(* The device pass up to the control fence.  Cache rebuilds are guarded by   *)
(* the Jacobian status.  A due correction also needs the m = 1 gauge to be   *)
(* fixed, which depends on the residual.                                     *)
Evaluate ==
  LET oriented == spectral \in Oriented
      rebuilt == (IF sched.refresh THEN {"preconditioner"} ELSE {})
                   \cup (IF sched.reset THEN {"reference"} ELSE {})
  IN  /\ pc = "device"
      /\ evaluated' = spectral
      /\ verdict' \in IF oriented THEN {"nonfinite", "converged", "normal"}
                      ELSE {"invalid"}
      /\ stale' = IF oriented THEN stale \ rebuilt ELSE stale
      /\ \/ pc' = "gate"
         \/ NewtonDue /\ verdict' = "normal" /\ pc' = "newton"
      /\ UNCHANGED <<iter, ctl, vac, sched, slabs, spectral, atRest, small,
                     result, passed, events, maintained, softEpoch>>

(* An accepted trial replaces the state and its record, and drops momentum.  *)
NewtonAccepts ==
  /\ pc = "newton"
  /\ spectral' \in Oriented /\ evaluated' = spectral' /\ atRest' = TRUE
  /\ verdict' \in {"converged", "normal"}
  /\ ctl' = ResetCorrectionMomentum(ctl)
  /\ passed' = passed \cup {evaluated}
  /\ pc' = "gate"
  /\ UNCHANGED <<iter, vac, sched, slabs, small, result, stale,
                 events, maintained, softEpoch>>

NewtonRollsBack_Forgets ==   \* mutant: enqueue_restore() is forgotten
  /\ pc = "newton"
  /\ spectral' \in State
  /\ pc' = "gate"
  /\ UNCHANGED <<iter, ctl, vac, sched, slabs, atRest, verdict, evaluated,
                 small, result, history>>

(* No trial accepted: the base state is evaluated again, and a residual that *)
(* differs is an error.                                                      *)
NewtonRollsBack ==
  /\ pc = "newton"
  /\ pc' \in {"gate", "failed"}
  /\ UNCHANGED <<iter, ctl, vac, sched, slabs, device, small, result, history>>

(* The Jacobian gate comes first.  At the first effective iteration the      *)
(* checkpoint is the same invalid state, so there is nothing to restore.     *)
RejectGeometry ==
  /\ pc = "gate" /\ verdict = "invalid" /\ ctl.iter2 > 1
  /\ ctl' = Rejected(ctl)
  /\ RejectPending
  /\ Restore(checkpoint')
  /\ NextPass
  /\ events' = events + 1 /\ softEpoch' = FALSE
  /\ UNCHANGED <<vac, sched, verdict, evaluated, small, result,
                 passed, maintained>>

ThrowInvalidStart ==
  /\ pc = "gate" /\ verdict = "invalid" /\ ctl.iter2 = 1
  /\ ctl' = Rejected(ctl)
  /\ pc' = "failed"
  /\ events' = events + 1 /\ softEpoch' = FALSE
  /\ UNCHANGED <<iter, vac, sched, slabs, device, small, result, passed,
                 stale, maintained>>

(* A valid geometry: a refresh pass publishes its normalization factors.     *)
AcceptGeometry ==
  /\ pc = "gate" /\ verdict # "invalid"
  /\ stale' = IF sched.refresh THEN stale \ {"norms"} ELSE stale
  /\ pc' = IF vac.soft THEN "soft" ELSE "classify"
  /\ UNCHANGED <<iter, ctl, vac, sched, slabs, device, small, result, passed,
                 events, maintained, softEpoch>>

(* The vacuum activation pass restores the checkpoint and re-anchors.        *)
SoftRestart ==
  /\ pc = "soft"
  /\ Restore(checkpoint)
  /\ ctl' = VacuumSoftRestart(ctl)
  /\ pc' = "classify"
  /\ events' = events + 1 /\ softEpoch' = TRUE
  /\ UNCHANGED <<iter, vac, sched, slabs, verdict, evaluated, small,
                 result, passed, maintained>>

(* previous_fsqr and previous_fsqz; only the vacuum ramp reads them.  A NaN  *)
(* or infinite sum is not below the threshold.                               *)
RecordResidual(comparable) ==
  small' \in IF FreeBoundary /\ comparable THEN BOOLEAN ELSE {FALSE}

RecoverNonfinite ==
  /\ pc = "classify" /\ verdict = "nonfinite"
  /\ RecordResidual(LambdaOnly)
  /\ ctl' = Rejected(ctl)
  /\ RejectPending
  /\ Restore(checkpoint')
  /\ NextPass
  /\ events' = events + 1 /\ softEpoch' = FALSE
  /\ UNCHANGED <<vac, sched, verdict, evaluated, result, passed,
                 maintained>>

(* Both gates passed: a pending checkpoint is validated.                     *)
Validate ==
  /\ pending' = FALSE
  /\ passed' = passed \cup {evaluated}
  /\ UNCHANGED <<checkpoint, previous>>

Converge ==
  /\ pc = "classify" /\ verdict = "converged"
  /\ RecordResidual(TRUE)
  /\ Validate
  /\ result' = [converged |-> TRUE, iterations |-> ctl.iter2,
                residuals |-> TRUE]
  /\ pc' = "done"
  /\ UNCHANGED <<iter, ctl, vac, sched, device, stale, events, maintained,
                 softEpoch>>

Continue ==
  /\ pc = "classify" /\ verdict = "normal"
  /\ RecordResidual(TRUE)
  /\ Validate
  /\ pc' = "decide"
  /\ UNCHANGED <<iter, ctl, vac, sched, device, result, stale, events,
                 maintained, softEpoch>>

(* The controller after decide_restart() has updated its baseline.           *)
Decided == Baselined(ctl, IF sched.edge THEN "coupled" ELSE "interior")

(* The bottom of a full pass: the vacuum hook, and on the last pass the      *)
(* residuals of the result.                                                  *)
EndPass ==
  /\ vac' = IF FreeBoundary THEN IterationEnd(vac) ELSE vac
  /\ result' = [result EXCEPT !.residuals = @ \/ iter + 1 = MaxIter]
  /\ NextPass
  /\ UNCHANGED <<sched, verdict, evaluated, small, passed,
                 maintained>>

CaptureCheckpoint_OneSlab == \* mutant: the slabs do not rotate
  /\ checkpoint' = spectral' /\ pending' = TRUE
  /\ UNCHANGED previous

CaptureCheckpoint_PreDescent ==  \* mutant: the state before the descent
  /\ checkpoint' = spectral /\ previous' = checkpoint
  /\ pending' = TRUE

(* A refresh swaps the slabs and overwrites the older one.                   *)
CaptureCheckpoint ==
  /\ checkpoint' = spectral' /\ previous' = checkpoint
  /\ pending' = TRUE

(* Descend; a refresh rotates the slabs and captures the state after the     *)
(* descent, whose geometry nobody has checked.                               *)
Descend ==
  \E growth \in PossibleGrowth(ctl) :
    LET refresh == WantsRefresh(ctl, growth)
    IN  /\ pc = "decide"
        /\ ~BadJacobian(ctl, growth)
        /\ \E rzLarge \in BOOLEAN : ~BadProgress(ctl, growth, rzLarge)
        /\ ctl' \in AfterGoodDescent(Decided, StepRecovery)
        /\ spectral' \in State /\ atRest' = FALSE
        /\ IF refresh THEN CaptureCheckpoint ELSE UNCHANGED slabs
        /\ EndPass
        /\ UNCHANGED <<stale, events, softEpoch>>

(* Bad residual growth or bad progress: the descent runs and is discarded.   *)
DiscardDescent ==
  /\ pc = "decide"
  /\ \E growth \in PossibleGrowth(ctl) :
       \/ /\ BadJacobian(ctl, growth)
          /\ ctl' = AfterBadJacobian(Decided)
       \/ /\ BadProgress(ctl, growth, TRUE)
          /\ ctl' = AfterBadProgress(Decided)
  /\ Restore(checkpoint)
  /\ EndPass
  /\ events' = events + 1 /\ softEpoch' = FALSE
  /\ UNCHANGED slabs

(* The cap: counters are reported whatever the last pass did, residuals only *)
(* if it ran to its end.                                                     *)
Exhaust ==
  /\ pc = "top" /\ iter = MaxIter
  /\ result' = IF MaxIter > 0 THEN [result EXCEPT !.iterations = ctl.iter2]
               ELSE result
  /\ pc' = "done"
  /\ UNCHANGED <<iter, ctl, vac, sched, small, slabs, device, history>>

(* The stage has returned or thrown.                                         *)
Finished == pc \in Stopped /\ UNCHANGED vars

FixedNext ==
  \/ Maintenance \/ BeginPass \/ Evaluate \/ NewtonAccepts \/ NewtonRollsBack
  \/ RejectGeometry \/ ThrowInvalidStart \/ AcceptGeometry
  \/ RecoverNonfinite \/ Converge \/ Continue
  \/ Descend \/ DiscardDescent \/ Exhaust \/ Finished

VacuumNext == VacuumUpdate \/ VacuumThrows \/ SoftRestart

Next == FixedNext \/ VacuumNext

Spec == Init /\ [][Next]_vars

(* A stage without a vacuum operator: `vacuum_` is null, and the three       *)
(* regions that ask for it are skipped.                                      *)
FixedSpec == Init /\ [][FixedNext]_vars

-----------------------------------------------------------------------------
(* Recovery.  The slab that a rejection would leave in place.                *)
Trusted == IF pending THEN previous ELSE checkpoint

(* Once a pass has been accepted there is always an accepted state to fall   *)
(* back on, whatever refreshes, rejections and rotations have happened since.*)
RecoverySlabValidated == ctl.iter2 > 1 => Trusted \in passed

(* A state that replaces the current one, other than by descent or a Newton  *)
(* correction, has itself been accepted by an earlier pass: no rollback,     *)
(* maintenance reset or soft restart brings back an unchecked state.         *)
RollbacksReachValidated ==
  [][ (spectral' # spectral /\ atRest' /\ pc # "newton")
        => spectral' \in passed ]_vars

(* After a restart the loop never evaluates an invalid geometry at the same  *)
(* anchor: a bad checkpoint cannot make it reject the same state for ever.   *)
RestartsFromOriented ==
  (pc \in {"top", "vacuum", "device"} /\ Age(ctl) = 0 /\ ctl.iter2 > 1)
    => spectral \in Oriented /\ atRest

(* The pending candidate is the state about to be evaluated, so the verdict  *)
(* that validates or rejects it is a verdict on it; and a maintenance reset, *)
(* which restores without asking, never finds a candidate pending.           *)
PendingIsCurrent ==
  pc = "top" /\ pending => spectral = checkpoint /\ ~MaintenanceDue(ctl)

(* The recovery slabs implement the single trusted state of ADR-0020.        *)
R == INSTANCE Recovery
       WITH Good <- Oriented,
            current <- spectral,
            still <- atRest,
            trusted <- Trusted,
            candidate <- IF pending THEN checkpoint ELSE NoState

RecoverySpec == R!Spec

-----------------------------------------------------------------------------
(* Fixed boundary.                                                           *)

(* Every descent uses caches rebuilt since the state was last replaced: a    *)
(* restart re-anchors, so the pass after it refreshes and resets.            *)
CachesRebuilt == pc = "decide" => stale \subseteq {"factors"}

(* The residual a descent applies, and the one a converged result reports,   *)
(* was evaluated on the very state in storage.                               *)
ResidualMatchesState ==
  pc = "decide" \/ result.converged => evaluated = spectral

(* The bad-Jacobian counter meets 25 and 50 on its way, and each resets the  *)
(* step exactly once: no pass counts twice and jumps over a threshold.       *)
MaintenanceNotSkipped ==
  maintained = Cardinality({n \in {FirstMaintenance, SecondMaintenance} :
                              n < ctl.ijacob})

-----------------------------------------------------------------------------
(* Free boundary.                                                            *)

(* Residual growth is judged against a minimum taken under the same force    *)
(* law: the edge force never appears between a baseline and a comparison.    *)
BaselineMatchesCoupling ==
  (pc = "decide" /\ Age(ctl) > 0)
    => (ctl.baseline = "coupled" <=> sched.edge)

(* The edge force acts exactly on the passes of a coupled vacuum: the        *)
(* "edge-force gate is state-dependent and INDEPENDENT of the block gate"    *)
(* (free_boundary_impl.cuh:684).                                             *)
EdgeFollowsCoupling ==
  pc \in {"gate", "soft", "classify", "decide"}
    => (sched.edge <=> Coupled(vac))

(* A stale preconditioner survives a soft restart only, and then no longer   *)
(* than one refresh interval.                                                *)
StaleOnlyAfterSoftRestart ==
  (pc = "decide" /\ stale \cap {"preconditioner", "norms"} # {})
    => softEpoch /\ Age(ctl) < RefreshInterval

(* A partial vacuum update never reuses factors of a boundary that has been  *)
(* rolled back, except across a soft restart.                                *)
FactorsOfThisEpoch ==
  (pc = "device" /\ sched.edge /\ "factors" \in stale) => softEpoch

-----------------------------------------------------------------------------
(* What the comments and documents of the repository say and the code does   *)
(* not do; refuted by a run of its own.                                      *)

(* docs/verification.md:147: "convergence is authoritatively defined by      *)
(* finite discrete force residuals below the configured tolerances".  The    *)
(* state a converged stage hands on is the state of those residuals.         *)
ConvergedStateEvaluated == result.converged => evaluated = spectral
=============================================================================
