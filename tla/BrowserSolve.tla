---------------------------- MODULE BrowserSolve ----------------------------
(* A production solve in the browser: BrowserSelfTest of src/webgpu/main.cpp *)
(* on its resident, batched path.  The controller and the vacuum operator    *)
(* are the native ones, but a pass is a chain of callbacks, and its descent  *)
(* is committed to the host only when the NEXT pass has been read back: until*)
(* then the device runs ahead of host state, and one batch carries both.     *)
EXTENDS IterationController, ResidentVacuum, ReadbackBatch, FiniteSets

CONSTANTS
  State,             \* spectral states
  NoState,           \* stands for an empty handle or vector
  Oriented,          \* those that pass the oriented-Jacobian gate
  MaxIter,           \* the stage's cap on attempts
  Stages,            \* number of radial grids
  Problems           \* the kinds of problem, each with what it enables

ASSUME BrowserAssumption ==
  /\ State # {} /\ NoState \notin State /\ Oriented \subseteq State
  /\ MaxIter \in Nat /\ Stages \in Nat \ {0}
  /\ Problems \subseteq [free : BOOLEAN, geometry : BOOLEAN, newton : BOOLEAN]
  /\ \A p \in Problems : ~(p.free /\ p.newton)  \* run_interactive_solver()

VARIABLES
  problem,       \* the kind of problem of this solve
  pc,            \* the callback the host is in or waits for
  stage,         \* stage_index_, from 1
  attempts,      \* attempted_passes_
  ctl,           \* controller_
  vac,           \* vacuum_
  hook,          \* the resident vacuum mode, gpu_pending, finish_vacuum_force_
  small,         \* the previous R/Z residual is below the vacuum threshold
  host,          \* initialized_stage_.state (and stage_state_lo_)
  velocity,      \* stage_velocity_: at rest, moving, or never read back
  checkpoint,    \* checkpoint_state_
  dev,           \* device_iteration_state_, device_descent_{state,velocity}_
  deferred,      \* the descent deferred_descent_callback_ will commit
  decision,      \* pending_decision_
  batch,         \* iteration_readback_
  scratch,       \* the state whose fields are in the device buffers
  evaluated,     \* the state whose results the host is consuming
  verdict,       \* what those results say
  fields,        \* the state of the full fields on the host
  newton         \* last_newton_iteration_ and the trial in flight

(* What the properties remember of the past; no action reads these.          *)
VARIABLES
  softened,      \* this pass was a soft restart
  overtaken      \* a maintenance restore was followed by the older commit

control == <<stage, attempts, ctl, small, decision>>
vacuum == <<vac, hook>>
states == <<host, velocity, checkpoint, dev, deferred>>
results == <<scratch, evaluated, verdict, fields>>
history == <<softened, overtaken>>
vars == <<problem, pc, control, vacuum, states, batch, results, newton, history>>

FreeBoundary == problem.free           \* there is a vacuum operator
GeometryControl == problem.geometry    \* requested_geometry_control()
Newton == problem.newton               \* newton_enabled_

Stopped == {"done", "failed"}
Waiting == {"flush", "mapped", "remapped", "suffix", "gmres", "trial",
            "fields", "prolong"}
Consuming == {"accept", "update", "force", "tail", "soft", "classify"}
Rollback == 4
Cleared == [iteration |-> NoState, descent |-> NoState, velocity |-> FALSE]

NoDecision == [refresh |-> FALSE, keep |-> FALSE]

(* reset_stage_state(), of a stage that begins at state s.                   *)
StageBegins(s) ==
  /\ host' = s /\ velocity' = "zero" /\ checkpoint' = s
  /\ dev' = Cleared
  /\ ctl' = NewController
  /\ small' = FALSE /\ attempts' = 0
  /\ newton' = [last |-> 0, trial |-> 0]

Init ==
  /\ problem \in Problems
  /\ pc = "run" /\ stage = 1 /\ attempts = 0 /\ ctl = NewController
  /\ vac \in IF FreeBoundary
             THEN {[NoVacuum EXCEPT !.nvacskip = n] : n \in 1 .. MaxVacSkip}
             ELSE {NoVacuum}
  /\ hook \in [resident : {FreeBoundary, FALSE}, pending : {FALSE},
               finish : {FALSE}]
  /\ small = FALSE
  /\ host \in State /\ velocity = "zero" /\ checkpoint = host
  /\ dev = Cleared /\ deferred = NoState /\ decision = NoDecision
  /\ batch = EmptyBatch
  /\ scratch = host /\ evaluated = host /\ verdict = "none" /\ fields = NoState
  /\ newton = [last |-> 0, trial |-> 0]
  /\ softened = FALSE /\ overtaken = FALSE

Restore_KeepsDescent ==   \* mutant: device_descent_state_ is not cleared
  /\ host' = checkpoint /\ velocity' = "zero"
  /\ dev' = [dev EXCEPT !.iteration = NoState, !.velocity = FALSE]

(* restore_checkpoint()                                                      *)
Restore ==
  /\ host' = checkpoint /\ velocity' = "zero"
  /\ dev' = Cleared

Kept == deferred # NoState /\ decision.keep

Commit_CheckpointsHost ==   \* mutant: the checkpoint is the state before
  /\ deferred' = NoState
  /\ checkpoint' = IF decision.refresh THEN host ELSE checkpoint
  /\ host' = IF decision.keep THEN deferred ELSE checkpoint
  /\ velocity' = IF decision.keep THEN "none" ELSE "zero"
  /\ dev' = [dev EXCEPT !.iteration = NoState]

(* commit_deferred_descent() and the callback it runs.  The velocity of a    *)
(* kept descent stays on the device.                                         *)
Commit ==
  /\ deferred' = NoState
  /\ checkpoint' = IF decision.refresh THEN deferred ELSE checkpoint
  /\ host' = IF decision.keep THEN deferred ELSE checkpoint
  /\ velocity' = IF decision.keep THEN "none" ELSE "zero"
  /\ dev' = IF decision.keep THEN [dev EXCEPT !.iteration = NoState]
            ELSE Cleared

CommitAny ==
  IF deferred # NoState THEN Commit ELSE UNCHANGED states

-----------------------------------------------------------------------------
(* run_stage_inverse()                                                       *)

(* The cap, with a descent in flight: map what is there and come back.       *)
FlushDeferred ==
  /\ pc = "run" /\ attempts >= MaxIter /\ deferred # NoState
  /\ batch' = Mapped(batch)
  /\ pc' = IF Refused(batch) THEN "failed" ELSE "flush"
  /\ UNCHANGED <<problem, control, vacuum, states, results, newton, history>>

FlushArrives ==
  /\ pc = "flush" /\ pc' = "run"
  /\ batch' = Completed(batch)
  /\ Commit
  /\ UNCHANGED <<problem, control, vacuum, results, newton, history>>

(* A stage that runs out of attempts fails the whole solve.                  *)
Exhaust ==
  /\ pc = "run" /\ attempts >= MaxIter /\ deferred = NoState
  /\ pc' = "failed"
  /\ UNCHANGED <<problem, control, vacuum, states, batch, results, newton,
                 history>>

(* next_schedule(): the reset is an attempt, and starts the next one.  The   *)
(* descent of the pass before may still be in flight.                        *)
Maintenance ==
  /\ pc = "run" /\ attempts < MaxIter /\ MaintenanceDue(ctl)
  /\ attempts' = attempts + 1
  /\ ctl' = MaintenanceReset(ctl)
  /\ Restore
  /\ overtaken' = (overtaken \/ Kept)
  /\ UNCHANGED <<problem, pc, stage, small, decision, vacuum, checkpoint,
                 deferred, batch, results, newton, softened>>

Dispatched_Host ==   \* mutant: the device state is not handed to the pass
  host

(* make_iteration_case(): the device state where there is one.               *)
Dispatched == IF dev.iteration # NoState THEN dev.iteration ELSE host

(* enqueue_iteration() or, with a vacuum, its prefix: the whole pass is      *)
(* submitted behind the descent already in the batch, then mapped once.      *)
EnqueuePass ==
  LET filled == Appended(batch, "pass")
  IN  /\ pc = "run" /\ attempts < MaxIter /\ ~MaintenanceDue(ctl)
      /\ attempts' = attempts + 1
      /\ vac' \in IF FreeBoundary
                  THEN AdvancedVacuum(vac, ctl.iter2, ctl.iter1, small)
                  ELSE {vac}
      /\ scratch' = Dispatched
      /\ batch' = Mapped(filled)
      /\ pc' = IF Refused(filled) THEN "failed" ELSE "mapped"
      /\ softened' = FALSE
      /\ UNCHANGED <<problem, stage, ctl, small, decision, hook, states,
                     evaluated, verdict, fields, newton, overtaken>>

(* IterationDispatch::complete(): the control record of an ambiguous geometry*)
(* asks for the full fields, through the same batch.                         *)
GeometryFallback ==
  LET filled == Appended(Completed(batch), "geometry")
  IN  /\ pc = "mapped" /\ GeometryControl /\ ~FreeBoundary
      /\ batch' = Mapped(filled)
      /\ pc' = IF Refused(filled) THEN "failed" ELSE "remapped"
      /\ UNCHANGED <<problem, control, vacuum, states, results, newton,
                     history>>

PassArrives_KeepsFields ==   \* mutant: compact results keep the old fields
  /\ pc \in {"mapped", "remapped"}
  /\ batch' = Completed(batch)
  /\ CommitAny
  /\ evaluated' = scratch
  /\ verdict' \in IF scratch \in Oriented
                  THEN {"nonfinite", "converged", "normal"} ELSE {"invalid"}
  /\ pc' = "accept"
  /\ UNCHANGED <<problem, control, vacuum, scratch, fields, newton, history>>

(* receive(): the descent first, then the pass that followed it.             *)
PassArrives ==
  /\ pc \in {"mapped", "remapped"}
  /\ batch' = Completed(batch)
  /\ CommitAny
  /\ evaluated' = scratch /\ fields' = NoState
  /\ verdict' \in IF scratch \in Oriented
                  THEN {"nonfinite", "converged", "normal"} ELSE {"invalid"}
  /\ pc' = "accept"
  /\ UNCHANGED <<problem, control, vacuum, scratch, newton, history>>

-----------------------------------------------------------------------------
(* consume_iteration()                                                       *)

RejectGeometry ==
  /\ pc = "accept" /\ verdict = "invalid" /\ ctl.iter2 > 1
  /\ ctl' = Rejected(ctl)
  /\ Restore
  /\ pc' = "run"
  /\ UNCHANGED <<problem, stage, attempts, small, decision, vacuum, checkpoint,
                 deferred, batch, results, newton, softened, overtaken>>

InvalidStart ==
  /\ pc = "accept" /\ verdict = "invalid" /\ ctl.iter2 = 1
  /\ ctl' = Rejected(ctl)
  /\ pc' = "failed"
  /\ UNCHANGED <<problem, stage, attempts, small, decision, vacuum, states,
                 batch, results, newton, history>>

AcceptGeometry ==
  /\ pc = "accept" /\ verdict # "invalid"
  /\ pc' = IF ~FreeBoundary THEN "tail"
           ELSE IF vac.run THEN "update" ELSE "force"
  /\ UNCHANGED <<problem, control, vacuum, states, batch, results, newton,
                 history>>

(* update_vacuum_force()                                                     *)
UpdateVacuum ==
  /\ pc = "update"
  /\ vac' = IF hook.resident THEN ResidentUpdate(vac) ELSE UpdatedVacuum(vac)
  /\ hook' = [hook EXCEPT !.pending = hook.resident]
  /\ pc' = "force"
  /\ UNCHANGED <<problem, control, states, batch, results, newton, history>>

VacuumThrows ==
  /\ pc = "update" /\ (hook.resident \/ InconsistentUpdateThrows(vac))
  /\ pc' = "failed"
  /\ UNCHANGED <<problem, control, vacuum, states, batch, results, newton,
                 history>>

(* accept_force() and resume_iteration(): the summary of a pending update and*)
(* the edge force join the batch, then the suffix of the pass.               *)
ApplyForce ==
  LET joins == hook.resident /\ (vac.edge \/ hook.pending)
      filled == Appended(IF joins THEN Appended(batch, "vacuum") ELSE batch,
                         "pass")
  IN  /\ pc = "force"
      /\ hook' = [hook EXCEPT !.finish = joins]
      /\ batch' = Mapped(filled)
      /\ pc' = IF Refused(filled) THEN "failed" ELSE "suffix"
      /\ UNCHANGED <<problem, control, vac, states, results, newton, history>>

SuffixArrives_Unchecked ==   \* mutant: the summary is never looked at
  /\ pc = "suffix"
  /\ batch' = Completed(batch)
  /\ hook' = [hook EXCEPT !.finish = FALSE]
  /\ pc' = "tail"
  /\ UNCHANGED <<problem, control, vac, states, results, newton, history>>

(* The callback of resume_iteration(): finish_vacuum_force_() first.         *)
SuffixArrives ==
  /\ pc = "suffix"
  /\ batch' = Completed(batch)
  /\ vac' = IF hook.pending THEN FinishedUpdate(vac) ELSE vac
  /\ hook' = [hook EXCEPT !.finish = FALSE, !.pending = FALSE]
  /\ pc' = "tail"
  /\ UNCHANGED <<problem, control, states, results, newton, history>>

(* Its error paths: a failed readback, or a summary that does not hold.      *)
SuffixFails ==
  /\ pc = "suffix"
  /\ vac' = IF hook.pending THEN CancelledUpdate(vac) ELSE vac
  /\ hook' = [hook EXCEPT !.finish = FALSE, !.pending = FALSE]
  /\ pc' = "failed"
  /\ UNCHANGED <<problem, control, states, batch, results, newton, history>>

(* consume_iteration_tail() and finish_preconditioned() up to the soft       *)
(* restart: the residual of this pass, with the caches it asked to rebuild.  *)
ConsumeTail ==
  /\ pc = "tail"
  /\ small' \in IF FreeBoundary /\ verdict # "nonfinite" THEN BOOLEAN ELSE {FALSE}
  /\ pc' = IF vac.soft THEN "soft" ELSE "classify"
  /\ UNCHANGED <<problem, stage, attempts, ctl, decision, vacuum, states,
                 batch, results, newton, history>>

SoftRestart ==
  /\ pc = "soft"
  /\ Restore
  /\ ctl' = VacuumSoftRestart(ctl)
  /\ softened' = TRUE
  /\ pc' = "classify"
  /\ UNCHANGED <<problem, stage, attempts, small, decision, vacuum, checkpoint,
                 deferred, batch, results, newton, overtaken>>

-----------------------------------------------------------------------------
(* begin_newton_correction()                                                 *)

NewtonDue_Again ==   \* mutant: without last_newton_iteration_
  /\ Newton /\ verdict = "normal"
  /\ ctl.iter2 >= NewtonStart /\ ctl.iter2 % NewtonPeriod = 0
  /\ Age(ctl) > NewtonMinEpochAge
  /\ ~RefreshPreconditioner(ctl) /\ ~ResetConstraintReference(ctl)

(* The gauge test also reads the previous Z residual: it may still say no.   *)
NewtonDue ==
  /\ Newton /\ verdict = "normal"
  /\ newton.last # ctl.iter2
  /\ ctl.iter2 >= NewtonStart /\ ctl.iter2 % NewtonPeriod = 0
  /\ Age(ctl) > NewtonMinEpochAge
  /\ ~RefreshPreconditioner(ctl) /\ ~ResetConstraintReference(ctl)

BeginNewton ==
  /\ pc = "classify" /\ NewtonDue
  /\ newton' = [last |-> ctl.iter2, trial |-> 0]
  /\ pc' = "gmres"
  /\ UNCHANGED <<problem, control, vacuum, states, batch, results, history>>

(* evaluate_newton_trial(): trials 0 to 3 halve the step, trial 4 evaluates  *)
(* the base state again.  Trials have a batch of their own.                  *)
DispatchTrial(trial) ==
  /\ newton' = [newton EXCEPT !.trial = trial]
  /\ scratch' \in IF trial = Rollback THEN {host} ELSE State
  /\ pc' = "trial"

(* A GMRES breakdown goes straight to the rollback.                          *)
SolveNewton ==
  /\ pc = "gmres"
  /\ DispatchTrial(0) \/ DispatchTrial(Rollback)
  /\ UNCHANGED <<problem, control, vacuum, states, batch, evaluated, verdict,
                 fields, history>>

RejectTrial ==
  /\ pc = "trial" /\ newton.trial < Rollback
  /\ DispatchTrial(newton.trial + 1)
  /\ UNCHANGED <<problem, control, vacuum, states, batch, evaluated, verdict,
                 fields, history>>

(* The trial's results are consumed like those of a pass; its fields came    *)
(* in full.                                                                  *)
ConsumeTrial ==
  /\ host' = scratch /\ evaluated' = scratch /\ fields' = scratch
  /\ pc' = "accept"

AcceptTrial ==
  /\ pc = "trial" /\ newton.trial < Rollback /\ scratch \in Oriented
  /\ ConsumeTrial
  /\ velocity' = "zero"
  /\ dev' = [iteration |-> scratch, descent |-> scratch, velocity |-> FALSE]
  /\ ctl' = ResetCorrectionMomentum(ctl)
  /\ verdict' \in {"converged", "normal"}
  /\ UNCHANGED <<problem, stage, attempts, small, decision, vacuum, checkpoint,
                 deferred, batch, scratch, newton, history>>

(* The base residual came back, bit for bit.                                 *)
RollBackTrial ==
  /\ pc = "trial" /\ newton.trial = Rollback
  /\ ConsumeTrial
  /\ dev' = [dev EXCEPT !.iteration = scratch, !.descent = scratch]
  /\ UNCHANGED <<problem, control, vacuum, velocity, checkpoint, deferred,
                 batch, scratch, verdict, newton, history>>

-----------------------------------------------------------------------------
(* The rest of finish_preconditioned(), and the descent                      *)

RecoverNonfinite ==
  /\ pc = "classify" /\ verdict = "nonfinite"
  /\ ctl' = Rejected(ctl)
  /\ Restore
  /\ pc' = "run"
  /\ UNCHANGED <<problem, stage, attempts, small, decision, vacuum, checkpoint,
                 deferred, batch, results, newton, softened, overtaken>>

(* A converged residual counts only with the vacuum pressure applied.        *)
Converge ==
  /\ pc = "classify" /\ verdict = "converged"
  /\ FreeBoundary => vac.edge
  /\ vac' = IF FreeBoundary THEN IterationEnd(vac) ELSE vac
  /\ pc' = "complete"
  /\ UNCHANGED <<problem, control, hook, states, batch, results, newton,
                 history>>

Continue ==
  /\ pc = "classify"
  /\ \/ verdict = "normal"
     \/ verdict = "converged" /\ FreeBoundary /\ ~vac.edge
  /\ pc' = "descend"
  /\ UNCHANGED <<problem, control, vacuum, states, batch, results, newton,
                 history>>

DescentBase == IF dev.descent # NoState THEN dev.descent ELSE host

Decided == Baselined(ctl, IF FreeBoundary /\ vac.edge THEN "coupled"
                          ELSE "interior")

(* run_descent() and the callback that fires as soon as it is enqueued: the  *)
(* result stays on the device, and the controller moves on without it.       *)
Enqueued(result) ==
  /\ pc = "descend" /\ pc' = "run"
  /\ deferred' = result
  /\ batch' = Appended(batch, "descent")
  /\ vac' = IF FreeBoundary THEN IterationEnd(vac) ELSE vac
  /\ UNCHANGED <<problem, stage, attempts, small, hook, checkpoint, results,
                 newton, softened, overtaken>>

Descend ==
  \E growth \in PossibleGrowth(ctl), result \in State :
    /\ ~BadJacobian(ctl, growth)
    /\ \E rzLarge \in BOOLEAN : ~BadProgress(ctl, growth, rzLarge)
    /\ Enqueued(result)
    /\ decision' = [refresh |-> WantsRefresh(ctl, growth), keep |-> TRUE]
    /\ ctl' \in AfterGoodDescent(Decided, FALSE)
    /\ dev' = [iteration |-> result, descent |-> result, velocity |-> TRUE]
    /\ UNCHANGED <<host, velocity>>

(* A discarded descent still travels to the host, which will restore again.  *)
DiscardDescent ==
  \E growth \in PossibleGrowth(ctl), result \in State :
    /\ \/ BadJacobian(ctl, growth) /\ ctl' = AfterBadJacobian(Decided)
       \/ BadProgress(ctl, growth, TRUE) /\ ctl' = AfterBadProgress(Decided)
    /\ Enqueued(result)
    /\ decision' = [refresh |-> FALSE, keep |-> FALSE]
    /\ Restore

-----------------------------------------------------------------------------
(* complete_stage()                                                          *)

(* The resident fields of the last grid are read once, from the buffers.     *)
ReadFields ==
  /\ pc = "complete" /\ stage = Stages /\ fields = NoState
  /\ pc' = "fields"
  /\ UNCHANGED <<problem, control, vacuum, states, batch, results, newton,
                 history>>

FieldsArrive ==
  /\ pc = "fields" /\ pc' = "complete"
  /\ fields' = scratch
  /\ UNCHANGED <<problem, control, vacuum, states, batch, scratch, evaluated,
                 verdict, newton, history>>

(* publish_output() may fail on the derived fields or a writer.              *)
Publish ==
  /\ pc = "complete" /\ stage = Stages /\ fields # NoState
  /\ pc' \in Stopped
  /\ UNCHANGED <<problem, control, vacuum, states, batch, results, newton,
                 history>>

Prolong ==
  /\ pc = "complete" /\ stage < Stages
  /\ pc' = "prolong"
  /\ UNCHANGED <<problem, control, vacuum, states, batch, results, newton,
                 history>>

(* The finer grid begins from the interpolation of the accepted state.       *)
Refine ==
  /\ pc = "prolong" /\ pc' = "run"
  /\ stage' = stage + 1
  /\ vac' = IF FreeBoundary THEN StageTransition(vac) ELSE vac
  /\ \E s \in State : StageBegins(s)
  /\ UNCHANGED <<problem, decision, hook, deferred, batch, results, softened,
                 overtaken>>

(* finish(false): a mapping or submission reports an error, or one of the    *)
(* finiteness and range checks on what was read back does not hold.          *)
Fail ==
  /\ pc \in (Waiting \ {"suffix"}) \cup {"accept", "force", "tail"}
  /\ pc' = "failed"
  /\ UNCHANGED <<problem, control, vacuum, states, batch, results, newton,
                 history>>

(* finish() leaves the process.                                              *)
Finished == pc \in Stopped /\ UNCHANGED vars

Next ==
  \/ FlushDeferred \/ FlushArrives \/ Exhaust \/ Maintenance
  \/ EnqueuePass \/ GeometryFallback \/ PassArrives
  \/ RejectGeometry \/ InvalidStart \/ AcceptGeometry
  \/ UpdateVacuum \/ VacuumThrows \/ ApplyForce \/ SuffixArrives
  \/ SuffixFails \/ ConsumeTail \/ SoftRestart
  \/ BeginNewton \/ SolveNewton \/ RejectTrial \/ AcceptTrial
  \/ RollBackTrial
  \/ RecoverNonfinite \/ Converge \/ Continue \/ Descend \/ DiscardDescent
  \/ ReadFields \/ FieldsArrive \/ Publish \/ Prolong \/ Refine
  \/ Fail \/ Finished

Spec == Init /\ [][Next]_vars

(* The browser delivers every callback, with a result or an error.           *)
FairSpec == Spec /\ WF_vars(Next)

-----------------------------------------------------------------------------
(* Deferred commits.                                                         *)

(* What the host consumes is the evaluation of the state it holds, although  *)
(* it held another when that evaluation was enqueued.  docs/webgpu-port.md   *)
(* has the collected results processed by "checkpoint rules, and controller  *)
(* in their original order", and a comment above the commit says that "a     *)
(* restart consumes the last accepted host checkpoint".                      *)
EvaluatedIsCommitted ==
  pc \in Consuming /\ ~softened => host = evaluated /\ deferred = NoState

(* The same with a vacuum, where one sequence is known to break it: the soft *)
(* restart makes a maintenance reset due while its own descent is in flight. *)
OnlyMaintenanceOvertakes ==
  pc \in Consuming /\ ~softened /\ host # evaluated => overtaken

(* The descent uses residual, state and velocity of one evaluation: the      *)
(* handles that survive a commit, a restore or a correction agree.           *)
DescentMatchesEvaluation ==
  pc = "descend" /\ ~softened /\ ~overtaken
    => DescentBase = evaluated /\ (dev.velocity \/ velocity = "zero")

(* A descent in flight is in the batch of the pass behind it, once, until    *)
(* the batch is decoded, and no append or mapping is ever refused: the batch *)
(* is free again before the callback that refills it runs.                   *)
DescentTravelsOnce ==
  /\ ~batch.error
  /\ pc = "failed" \/ (batch.mapping <=>
       pc \in {"flush", "mapped", "remapped", "suffix"})
  /\ pc \in {"run", "flush", "mapped"}
       => (deferred # NoState <=> batch.slices # << >>
                                  /\ batch.slices[1] = "descent")
  /\ Cardinality({n \in DOMAIN batch.slices :
                    batch.slices[n] = "descent"}) <= 1

(* Taking every descent when it is enqueued, the pipeline is a serial stage. *)
S == INSTANCE SerialStage
       WITH Good <- Oriented,
            state <- IF Kept THEN deferred ELSE host,
            still <- ~Kept /\ velocity = "zero" /\ ~dev.velocity,
            checkpoint <- IF deferred # NoState /\ decision.refresh
                          THEN deferred ELSE checkpoint,
            kept <- ctl.iter2 - 1

SerialSpec == S!Spec

(* What is published: fields and spectral state of one equilibrium, whether  *)
(* the last evaluation was a pass, a Newton trial or a rollback; with a      *)
(* vacuum, unless one of the two rollbacks above came between them.          *)
PublishedFieldsMatchState ==
  pc = "done" /\ ~softened /\ ~overtaken => fields = host /\ evaluated = host

-----------------------------------------------------------------------------
(* Free boundary.                                                            *)

(* docs/webgpu-port.md: "Pending vacuum results are validated before         *)
(* controller decisions, checkpoint updates or output", and a rebuilt set of *)
(* factors is known to be good by then.                                      *)
PendingVacuumResolved ==
  pc \in {"run", "mapped", "tail", "soft", "classify", "descend", "complete",
          "done"}
    => /\ ~hook.pending /\ ~hook.finish
       /\ pc \notin {"run", "mapped"} /\ vac.run /\ vac.full => vac.factors

(* Every sequence of callbacks ends the solve, with a result or an error.    *)
Terminates == <>(pc \in Stopped)
=============================================================================
