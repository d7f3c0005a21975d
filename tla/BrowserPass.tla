---------------------------- MODULE BrowserPass -----------------------------
(* One grid of the browser solver, with its memory: the buffers every        *)
(* operator shares, the copies and handles the host keeps of them, and the   *)
(* loop that submits one evaluation after the other.  A descent is left in   *)
(* the queue and its state is read back together with the evaluation that    *)
(* follows it.  A buffer holds the name of what it was computed from.        *)
(* BrowserSolve has the scheduling, the batches and the errors of the same   *)
(* loop, and its maintenance, which always overtakes a descent that is still *)
(* to be committed.                                                          *)
EXTENDS IterationDispatch

CONSTANTS
  States,           \* spectral states
  Terminal,         \* those whose residual is nonfinite or below tolerance
  Gauges,           \* zero_m1_z; "fixed" zeroes the m = 1 force
  RefreshInterval,  \* passes between two refreshes of the preconditioner
  MaxDecays,        \* bound: decays of a constraint reference
  Hybrid            \* newton_enabled_

ASSUME BrowserPassAssumption ==
  /\ Oriented \subseteq States /\ Terminal \subseteq Oriented
  /\ None \notin States /\ NoHandle \notin Labels
  /\ "fixed" \in Gauges /\ RefreshInterval \in Nat \ {0}

(* "Nothing written" is told from what a buffer can hold.                    *)
ASSUME NoneAssumption ==
  /\ None \notin [of : States \cup {None}, decays : Nat]
  /\ None \notin [pressure : [boundary : States, currents : States,
                              factors : States],
                 on : States]

VARIABLES
  gpu,          \* the buffers, by label
  read,         \* what the last map has read back
  host,         \* initialized_stage_, its velocity, the checkpoint, the caches
  handle,       \* the device_..._ members: labels
  deferred,     \* the descent whose state is still to be committed
  epoch,        \* the controller's schedule
  vac,          \* the gates of the vacuum block, and which backend pushes
  coupling,     \* the vacuum state machine, or "fixed"
  case,         \* the IterationCase in flight
  newton,       \* the correction in progress
  pc,
  answer,       \* what the host has accepted of its state
  entry         \* history: the caches before this pass changed the vacuum's,
                \* or none

vars == <<gpu, read, host, handle, deferred, epoch, vac, coupling, case,
          newton, pc, answer, entry>>

Free == coupling # "fixed"

NoDeferred == [of |-> None, keep |-> FALSE, refresh |-> FALSE]
NoHandles ==
  [iteration |-> NoHandle, descent |-> NoHandle, velocity |-> NoHandle,
   residual |-> NoHandle, elements |-> NoHandle, matrix |-> NoHandle,
   reference |-> NoHandle]
NoNewton == [tried |-> FALSE, trial |-> 0, before |-> None]
Unknown == [kind |-> "unknown"]

(* reset_stage_state().                                                      *)
Init ==
  /\ gpu = NoBuffers /\ read = Queue(NoBuffers).read
  /\ \E s \in States :
       host = [state |-> [of |-> s, axis |-> FALSE], velocity |-> "zero",
               checkpoint |-> s, tcon |-> None, reference |-> NoReference,
               factors |-> None, profiles |-> None,
               vacuum |-> [boundary |-> None, currents |-> None, factors |-> None]]
  /\ handle = NoHandles /\ deferred = NoDeferred
  /\ epoch = [first |-> TRUE, fresh |-> TRUE, age |-> 0]
  /\ coupling \in {"fixed", "off", "initialized"}
  /\ \E resident \in IF Free THEN BOOLEAN ELSE {FALSE} :
       vac = [run |-> FALSE, full |-> FALSE, decay |-> FALSE, edge |-> FALSE,
              resident |-> resident]
  /\ case = None /\ newton = NoNewton
  /\ pc = "run" /\ answer = Unknown /\ entry = <<>>

-----------------------------------------------------------------------------
(* restore_checkpoint(): the host's copy of the state, no momentum, and no   *)
(* handle by which the device could still prefer its own.                    *)
Restored(h) ==
  [h EXCEPT !.state = [of |-> h.checkpoint, axis |-> FALSE], !.velocity = "zero"]

Forgotten_KeepsVelocity(h) ==   \* mutant: the momentum survives
  [h EXCEPT !.iteration = NoHandle, !.descent = NoHandle]

Forgotten_KeepsDescent(h) ==    \* mutant: the device's state survives
  [h EXCEPT !.iteration = NoHandle, !.velocity = NoHandle]

Forgotten(h) ==
  [h EXCEPT !.iteration = NoHandle, !.descent = NoHandle, !.velocity = NoHandle]

RestoreCheckpoint == host' = Restored(host) /\ handle' = Forgotten(handle)

NewEpoch == epoch' = [epoch EXCEPT !.fresh = TRUE, !.age = 0]

(* extrapolate_stage_axis().                                                 *)
Extended(h) == [h EXCEPT !.state.axis = TRUE]

-----------------------------------------------------------------------------
(* make_iteration_case().                                                    *)
Refreshing == epoch.age = 0 \/ handle.elements = NoHandle

FadedReference(v) ==
  IF v.decay THEN DecayVacuumReference(host.reference) ELSE host.reference

MakeIterationCase(h, v, gauge) ==
  [state |-> h.state, device |-> handle.iteration,
   refresh |-> Refreshing, reset |-> epoch.fresh /\ ~(Free /\ v.edge),
   gauge |-> gauge, lcfs |-> Free /\ v.edge,
   readback |-> IF Free THEN "slices" ELSE "finite",
   rows |-> Free /\ ~v.resident,
   elements |-> handle.elements, matrix |-> handle.matrix,
   reference |-> FadedReference(v),
   deviceReference |-> IF Free THEN NoHandle ELSE handle.reference,
   tcon |-> host.tcon]

(* FreeBoundaryOperator::advance().                                          *)
Ramped == IF coupling = "off" THEN {"off", "initializing"} ELSE {coupling}

Advances ==
  IF ~Free THEN UNCHANGED <<vac, coupling>>
  ELSE /\ coupling' \in IF epoch.first /\ coupling = "off" THEN {"off"} ELSE Ramped
       /\ LET run == ~epoch.first \/ coupling = "initialized"
              due == epoch.fresh \/ coupling' # coupling
                       \/ host.vacuum.factors = None
          IN  \E full \in IF due THEN {TRUE} ELSE BOOLEAN :
                vac' = [vac EXCEPT !.run = run, !.full = run /\ full,
                                   !.decay = run /\ coupling' # "off"]

(* run_stage_inverse(), where no maintenance is due.  A fixed         *)
(* boundary is evaluated to the end; a free one waits for the vacuum.        *)
RunStageInverse ==
  /\ pc = "run"
  /\ Advances
  /\ vac'.decay => host.reference.decays < MaxDecays
  /\ host' = IF handle.iteration = NoHandle THEN Extended(host) ELSE host
  /\ \E gauge \in IF epoch.first THEN {"fixed"} ELSE Gauges :
       LET in == MakeIterationCase(host', vac', gauge)
           q == IF Free THEN Prefix(Queue(gpu), in)
                ELSE EnqueueIteration(Queue(gpu), in)
       IN  case' = in /\ gpu' = q.gpu /\ read' = q.read
  /\ newton' = NoNewton
  /\ pc' = "mapped"
  /\ UNCHANGED <<handle, deferred, epoch, answer, entry>>

-----------------------------------------------------------------------------
(* The map has come back.  commit_deferred_descent() makes the host's copy   *)
(* that of the state the device has just evaluated.                          *)
Committed(h, d) ==
  IF d.keep
  THEN [h EXCEPT !.state = [of |-> d.of, axis |-> FALSE], !.velocity = "unread",
                 !.checkpoint = IF d.refresh THEN d.of ELSE @]
  ELSE Restored(h)

Receive ==
  /\ pc = "mapped" /\ pc' = "geometry"
  /\ IF deferred = NoDeferred THEN UNCHANGED <<host, handle>>
     ELSE /\ host' = Extended(Committed(host, deferred))
          /\ handle' = IF deferred.keep THEN [handle EXCEPT !.iteration = NoHandle]
                       ELSE Forgotten(handle)
  /\ deferred' = NoDeferred
  /\ UNCHANGED <<gpu, read, epoch, vac, coupling, case, newton, answer, entry>>

(* IterationDispatch::complete(): where the device's gate cannot tell, the   *)
(* host reads the geometry from its buffer after all, with a map of its own. *)
FallBack ==
  /\ pc = "mapped" /\ ~Free
  /\ read' = [read EXCEPT !.validity = gpu.base, !.base = gpu.base]
  /\ UNCHANGED <<gpu, host, handle, deferred, epoch, vac, coupling, case, newton,
                 pc, answer, entry>>

(* accept_geometry().  Before the first descent there is nothing to restore. *)
RejectGeometry ==
  /\ pc = "geometry" /\ ~ValidJacobian(read)
  /\ answer' = [kind |-> "refused"]
  /\ pc' = IF epoch.first THEN "failed" ELSE "rejected"
  /\ UNCHANGED <<gpu, read, host, handle, deferred, epoch, vac, coupling, case,
                 newton, entry>>

RestoreRejected ==
  /\ pc = "rejected" /\ pc' = "run"
  /\ RestoreCheckpoint /\ NewEpoch /\ answer' = Unknown
  /\ UNCHANGED <<gpu, read, deferred, vac, coupling, case, newton, entry>>

-----------------------------------------------------------------------------
(* What later passes may reuse.                                              *)
CachesNow ==
  [precon |-> IF handle.elements = NoHandle THEN None
              ELSE From({gpu[handle.elements], gpu[handle.matrix]}),
   tcon |-> host.tcon, factors |-> host.factors,
   reference |-> Transferred(gpu, IF Free THEN NoHandle ELSE handle.reference,
                             host.reference),
   vacuum |-> host.vacuum.factors]

Promoted(c) == IF c = "initializing" THEN "initialized" ELSE c

(* update_vacuum(): the boundary is the host's, the axis and the currents    *)
(* are read back.                                                            *)
UpdatedPressure ==
  LET boundary == From({host.state.of, read.inverse})
  IN  [boundary |-> boundary, currents |-> read.field,
       factors |-> IF vac.full THEN boundary ELSE host.vacuum.factors]

(* accept_magnetic(): what was read of the flux goes into the profiles of the *)
(* stage, from where it is published.                                        *)
AcceptMagnetic_OnRefresh(h) ==   \* mutant: only what a refresh has read
  IF case.refresh THEN [h EXCEPT !.profiles = read.profiles] ELSE h

AcceptMagnetic(h) == [h EXCEPT !.profiles = read.profiles]

PrefixReadbacks == {"inverse", "validity", "base", "profiles", "field", "force"}

(* update_vacuum_force(), apply_vacuum_force() or its resident form, and     *)
(* resume_iteration(): the case is made anew, with the gates as they are now.*)
UpdateVacuum ==
  /\ pc = "geometry" /\ Free /\ ValidJacobian(read)
  /\ entry' = <<CachesNow>>
  /\ host' = IF vac.run
             THEN [AcceptMagnetic(host) EXCEPT !.vacuum = UpdatedPressure]
             ELSE AcceptMagnetic(host)
  /\ coupling' = IF vac.run THEN Promoted(coupling) ELSE coupling
  /\ vac' = IF vac.run THEN [vac EXCEPT !.edge = coupling' # "off"] ELSE vac
  /\ LET in == MakeIterationCase(host', vac', case.gauge)
         before == Queue(gpu)
         forced == IF ~vac'.edge THEN before
                   ELSE IF vac.resident
                        THEN EnqueueVacuumForce(before, host'.vacuum)
                        ELSE ApplyVacuumForce(before, read, host'.vacuum)
         q == Suffix(forced, in)
     IN  /\ case' = in /\ gpu' = q.gpu
         /\ read' = [name \in Readbacks |->
                       IF name \in PrefixReadbacks THEN read[name]
                       ELSE q.read[name]]
  /\ pc' = "accept"
  /\ UNCHANGED <<handle, deferred, epoch, newton, answer>>

-----------------------------------------------------------------------------
(* What has passed its gate is copied out of the scratch buffers.            *)
Kept == [gpu |-> gpu, handle |-> handle, host |-> host]

AcceptElements(k) ==
  LET copy == Captured(k.gpu, "elements", "acceptedElements")
  IN  [k EXCEPT !.gpu = copy.gpu, !.handle.elements = copy.handle]

AcceptMatrix(k) ==
  LET copy == Captured(k.gpu, "matrix", "acceptedMatrix")
  IN  [k EXCEPT !.gpu = copy.gpu, !.handle.matrix = copy.handle]

AcceptConstraint(k) ==
  [k EXCEPT !.gpu["acceptedReference"] = k.gpu.head.reference,
            !.handle.reference = "acceptedReference",
            !.host.reference = IF read.reference = None THEN NoReference
                               ELSE read.reference,
            !.host.tcon = read.tcon]

(* The normalization is the host's, of what it has read.                     *)
Normalization ==
  IF case.refresh \/ host.factors = None
  THEN From({host.state.of, read.base, read.field}) ELSE host.factors

Accepted == [read.invariant EXCEPT !.precon = read.applied.precon]

Accepting ==
  IF Free THEN pc = "accept" ELSE pc = "geometry" /\ ValidJacobian(read)

AcceptResidual ==
  /\ Accepting
  /\ LET rebuilt == IF case.refresh THEN AcceptMatrix(AcceptElements(Kept))
                    ELSE Kept
         kept == AcceptConstraint(rebuilt)
     IN  /\ gpu' = kept.gpu /\ handle' = kept.handle
         /\ host' = [AcceptMagnetic(kept.host) EXCEPT !.factors = Normalization]
  /\ answer' = [kind |-> "residual", residual |-> Accepted,
                factors |-> host'.factors]
  /\ entry' = <<>> /\ pc' = "classify"
  /\ UNCHANGED <<read, deferred, epoch, vac, coupling, case, newton>>

(* accept_inverse(), accept_magnetic(), accept_force(): fields that are not  *)
(* finite end the run,                                                       *)
FailFields ==
  /\ pc = "geometry" /\ read.validity \in Terminal
  /\ pc' = "failed"
  /\ UNCHANGED <<gpu, read, host, handle, deferred, epoch, vac, coupling, case,
                 newton, answer, entry>>

(* and so do residuals and preconditioners, once the vacuum has had its say. *)
FailAcceptance ==
  /\ Accepting /\ read.invariant.mhd \in Terminal
  /\ pc' = "failed"
  /\ UNCHANGED <<gpu, read, host, handle, deferred, epoch, vac, coupling, case,
                 newton, answer, entry>>

-----------------------------------------------------------------------------
(* finish_preconditioned().                                                  *)
Measured == read.invariant.mhd

SoftRestart ==
  /\ pc = "classify" /\ coupling = "initialized"
  /\ RestoreCheckpoint /\ NewEpoch
  /\ answer' = [kind |-> "soft", residual |-> answer.residual]
  /\ pc' = "decide"
  /\ UNCHANGED <<gpu, read, deferred, vac, coupling, case, newton, entry>>

Deciding == pc = "decide" \/ (pc = "classify" /\ coupling # "initialized")

RecoverNonfinite ==
  /\ Deciding /\ Measured \in Terminal
  /\ RestoreCheckpoint /\ NewEpoch /\ answer' = Unknown /\ pc' = "run"
  /\ UNCHANGED <<gpu, read, deferred, vac, coupling, case, newton, entry>>

Converge ==
  /\ Deciding /\ Measured \in Terminal /\ (Free => vac.edge)
  /\ pc' = "stopped"
  /\ UNCHANGED <<gpu, read, host, handle, deferred, epoch, vac, coupling, case,
                 newton, answer, entry>>

(* run_descent() and enqueue_descent_result().  Nothing waits for the state: *)
(* the next evaluation reads it from the device, unless the controller takes *)
(* the step back or refreshes its checkpoint, one or the other.              *)
Descend ==
  /\ Deciding /\ (Measured \in Terminal => Free /\ ~vac.edge)
  /\ LET from == DescentInput(gpu, handle.descent, handle.velocity, host)
     IN  /\ \E moved \in States, keep, refresh \in BOOLEAN :
              /\ refresh => keep
              /\ LET q == EnqueueDescent(Queue(gpu), moved)
                 IN  /\ gpu' = q.gpu
                     /\ deferred' = [of |-> q.read.moved, keep |-> keep,
                                     refresh |-> refresh]
              /\ IF keep
                 THEN /\ handle' = [handle EXCEPT !.iteration = "descentState",
                                                  !.descent = "descentState",
                                                  !.velocity = "descentVelocity",
                                                  !.residual = "applied"]
                      /\ epoch' = [first |-> FALSE, fresh |-> FALSE,
                                   age |-> (epoch.age + 1) % RefreshInterval]
                      /\ UNCHANGED host
                 ELSE /\ host' = Restored(host)
                      /\ handle' = [Forgotten(handle) EXCEPT !.residual = "applied"]
                      /\ NewEpoch
         /\ answer' = [kind |-> "descended", along |-> gpu["applied"],
                       from |-> from.state]
  /\ coupling' = IF coupling = "initialized" THEN "active" ELSE coupling
  /\ pc' = "run"
  /\ UNCHANGED <<read, vac, case, newton, entry>>

-----------------------------------------------------------------------------
(* begin_newton_correction().  Every cache is frozen; the base goes to the   *)
(* device from the host's committed copy.                                    *)
BeginNewton ==
  /\ Hybrid /\ ~Free
  /\ Deciding /\ ~newton.tried
  /\ ~case.refresh /\ ~case.reset /\ case.gauge = "fixed"
  /\ Measured \notin Terminal
  /\ LET base == [gpu EXCEPT !["newtonInput"] = host.state]
     IN  gpu' = PrepareNewton(Queue(base), "newtonInput", "applied").gpu
  /\ case' = [Probed(MakeIterationCase(host, vac, "fixed"))
                EXCEPT !.device = "newtonInput"]
  /\ newton' = [tried |-> TRUE, trial |-> 0, before |-> read.invariant]
  /\ pc' = "solve"
  /\ UNCHANGED <<read, host, handle, deferred, epoch, vac, coupling, answer, entry>>

(* solve_newton_correction(), which either finds a direction or breaks down. *)
SolveNewton ==
  /\ pc = "solve" /\ pc' = "trial"
  /\ \E s \in States, breakdown \in BOOLEAN :
       /\ gpu' = JacobianVector(Queue(gpu), case, s).gpu
       /\ newton' = [newton EXCEPT !.trial = IF breakdown THEN 4 ELSE 0]
  /\ UNCHANGED <<read, host, handle, deferred, epoch, vac, coupling, case,
                 answer, entry>>

(* evaluate_newton_trial(): four scales of the step, and then the base.      *)
RollsBack == newton.trial = 4

TrialHandle == IF RollsBack THEN "newtonBase" ELSE "newtonTrial"

EvaluateTrial ==
  /\ pc = "trial" /\ pc' = "tried"
  /\ \E s \in States :
       LET q == IF RollsBack THEN Queue(gpu) ELSE DisplacedTrial(Queue(gpu), s)
           in == [case EXCEPT !.readback = "full"]
           done == EvaluateAt(q, in, TrialHandle)
       IN  gpu' = done.gpu /\ read' = done.read
  /\ UNCHANGED <<host, handle, deferred, epoch, vac, coupling, case, newton,
                 answer, entry>>

(* An invalid trial, or one that gains too little.                           *)
RejectTrial ==
  /\ pc = "tried" /\ ~RollsBack
  /\ newton' = [newton EXCEPT !.trial = @ + 1]
  /\ pc' = "trial"
  /\ UNCHANGED <<gpu, read, host, handle, deferred, epoch, vac, coupling, case,
                 answer, entry>>

(* The state becomes that of the trial, on both sides, and the evaluation is *)
(* consumed like any other.                                                  *)
Adopt(label) ==
  /\ handle' = [handle EXCEPT !.iteration = label, !.descent = label,
                  !.velocity = IF RollsBack THEN @ ELSE NoHandle]
  /\ host' = [host EXCEPT !.state = [of |-> gpu[label].of, axis |-> FALSE],
                          !.velocity = IF RollsBack THEN @ ELSE "zero"]
  /\ answer' = Unknown /\ pc' = "geometry"

AcceptTrial ==
  /\ pc = "tried" /\ ~RollsBack /\ ValidJacobian(read)
  /\ Adopt(TrialHandle)
  /\ UNCHANGED <<gpu, read, deferred, epoch, vac, coupling, case, newton, entry>>

(* "Newton rollback did not recover the original valid residual triple."     *)
RollBackNewton ==
  /\ pc = "tried" /\ RollsBack
  /\ IF ValidJacobian(read) /\ read.invariant = newton.before
     THEN Adopt(TrialHandle)
     ELSE pc' = "raised" /\ UNCHANGED <<host, handle, answer>>
  /\ UNCHANGED <<gpu, read, deferred, epoch, vac, coupling, case, newton, entry>>

-----------------------------------------------------------------------------
Finished ==
  /\ \/ pc \in {"stopped", "failed", "raised"}
     \/ pc = "run" /\ host.reference.decays = MaxDecays
  /\ UNCHANGED vars

Next ==
  \/ RunStageInverse \/ FallBack \/ Receive \/ RejectGeometry
  \/ RestoreRejected \/ UpdateVacuum \/ FailFields \/ AcceptResidual
  \/ FailAcceptance \/ SoftRestart \/ RecoverNonfinite \/ Converge
  \/ Descend \/ BeginNewton \/ SolveNewton
  \/ EvaluateTrial \/ RejectTrial \/ AcceptTrial \/ RollBackNewton \/ Finished

Spec == Init /\ [][Next]_vars

-----------------------------------------------------------------------------
(* The browser promises the host what the native solver's kernels promise:   *)
(* an accepted residual is that of the host's state, with caches that were   *)
(* accepted or rebuilt from that very state; a folded geometry leaves no     *)
(* trace in them; descent moves the state it is believed to move, along that *)
(* state's residual; and a Newton step that is given up restores the         *)
(* residual it began with.                                                   *)
Promise ==
  INSTANCE Evaluation WITH
    state <- Transferred(gpu, handle.iteration, host.state).of,
    caches <- IF entry = <<>> THEN CachesNow ELSE entry[1],
    answer <- IF pc = "raised" THEN [kind |-> "raised"] ELSE answer

EvaluationSpec == Promise!Spec

(* The two copies of the state, the host's and the one on the device that    *)
(* descent would read, agree whenever no commit is outstanding.              *)
CopiesAgree ==
  handle.descent # NoHandle /\ deferred = NoDeferred
    => gpu[handle.descent].of = host.state.of

(* The momentum is none, or that of the step that led to the state it would  *)
(* push: no rollback leaves the velocity of a step that was taken back.      *)
MomentumFollowsState ==
  LET from == DescentInput(gpu, handle.descent, handle.velocity, host)
  IN  from.velocity \in {"zero", from.state}

(* The flux profiles that a solve with a prescribed current publishes are    *)
(* those of the state it converged to, whichever rollbacks, frozen caches or *)
(* Newton trials came in between.  A soft restart may stop with a state that *)
(* was never evaluated (ConvergedStateEvaluated of StageLoop).               *)
ProfilesOfTheResult ==
  pc = "stopped" /\ EvolveCurrent /\ answer.kind = "residual"
    => host.profiles = host.state.of
=============================================================================
