---------------------------- MODULE DevicePass -----------------------------
(* The kernels of EquilibriumOperator, in the order the stream runs them,    *)
(* under the loop that launches them: a captured graph or a direct enqueue,  *)
(* one fence, and what the host then does to the state.  A buffer holds the  *)
(* name of what it was computed from.  Nothing is recomputed on a host: a    *)
(* kernel that is skipped leaves what an earlier pass left there.            *)
EXTENDS GraphReplay, Transforms, RadialPreconditioner, ConstraintKernels,
        ForceKernels

CONSTANTS
  States,       \* spectral states
  Terminal,     \* those whose residual is nonfinite or below tolerance
  MaxDecays,    \* bound: decays of a constraint reference
  MaxProbes,    \* bound: Jacobian-vector products of one Newton step
  Hybrid        \* Newton corrections are enabled

ASSUME DeviceAssumption ==
  /\ Oriented \subseteq States /\ Terminal \subseteq Oriented
  /\ None \notin States /\ Unset \notin States
  /\ Factors = Oriented \cup {Unset}
  /\ "fixed" \in Shapes     \* the shapes differ in the m = 1 gauge

(* "No value" is not one of the values.                                      *)
ASSUME NoneAssumption ==
  /\ None \notin [geometry : States,
                  reference : [of : States \cup {None}, decays : Nat]]
  /\ None \notin [pressure : [boundary : States, currents : States,
                              factors : States],
                 on : States]

VARIABLES
  state,        \* the spectral slab
  transform,    \* scratch of the spectral transforms
  geometry,     \* the synthesized parity arrays, rCon and zCon, base metric
  field,        \* magnetic field, pressure and evolved current profiles
  forces,       \* the force arrays, with what has been added to them
  gcon,         \* gConEff, and gCon after the bandpass
  residual,     \* the residual slab
  control,      \* the device control record
  precon,       \* preconditioner elements
  tcon,         \* constraint multiplier
  reference,    \* rCon0, zCon0
  vacuum,       \* what the vacuum solver holds
  coupling,     \* the vacuum state machine, or "fixed"
  fresh,        \* iter2 = iter1: the pass opens an epoch
  schedule,     \* EvaluationSchedule, and the factors passed by value
  kernel,       \* what the stream runs next
  newton,       \* the correction in progress
  answer,       \* what the host has read
  entry         \* history: what the pass in flight found, or nothing

buffers == <<transform, geometry, field, forces, gcon, residual>>
deviceCaches == <<precon, tcon, reference, vacuum>>
graphs == <<refreshGraphs, normGraphs>>
device == <<state, buffers, control, deviceCaches, coupling, fresh, schedule,
            kernel, newton, answer, entry>>

Cleared ==
  [stats |-> None, valid |-> FALSE, partials |-> None, rz |-> None,
   norms |-> Unset, raw |-> None, used |-> Unset, verdict |-> "none",
   evaluated |-> FALSE]

deviceVars == <<vars, device>>

NoNewton == [phase |-> "none", base |-> None, before |-> None,
             probes |-> 0, breakdown |-> FALSE]

Direct ==       \* before the first pass
  [refresh |-> FALSE, reset |-> FALSE, gauge |-> "fixed", factors |-> Unset,
   decay |-> FALSE, vacuum |-> FALSE, full |-> FALSE, edge |-> FALSE]

DeviceInit ==
  /\ Init
  /\ state \in States
  /\ \E backend \in {"toroidal", "axisymmetric"} :
       transform = NewTransform(backend)
  /\ geometry = NoGeometry /\ field = NoField /\ forces = NoForces
  /\ gcon = NoConstraint /\ residual = ForwardRecover(NoForces, FALSE)
  /\ control = Cleared
  /\ precon = NoPrecon /\ tcon = None /\ reference = NoReference
  /\ vacuum = [boundary |-> None, currents |-> None, factors |-> None]
  /\ coupling \in {"fixed", "off", "initialized"}
  /\ fresh = TRUE /\ schedule = Direct
  /\ kernel = "idle" /\ newton = NoNewton
  /\ answer = [kind |-> "unknown"] /\ entry = << >>

(* What a later pass may reuse, the factors of the host included.            *)
CachesNow ==
  [precon |-> ElementsOf(precon), tcon |-> tcon, reference |-> reference,
   vacuum |-> vacuum.factors,
   factors |-> LET f == IF pc = "fence" /\ valid /\ refreshing THEN record
                        ELSE host
               IN  IF f = Unset THEN None ELSE f]

Found == [caches |-> CachesNow, refresh |-> refreshGraphs, norm |-> normGraphs]

-----------------------------------------------------------------------------
(* Scheduling.                                                               *)

(* FreeBoundaryOperator::advance(): the block may be skipped only before the *)
(* pressure is coupled, on the first pass.                                   *)
Ramped == IF coupling = "off" THEN {"off", "initializing"} ELSE {coupling}

FullUpdate_NotAnchored(first) ==   \* mutant: the cadence survives a restart
  IF vacuum.factors = None THEN {TRUE} ELSE BOOLEAN

FullUpdate(first) ==
  IF first \/ vacuum.factors = None THEN {TRUE} ELSE BOOLEAN

(* The graphs of a fixed-boundary stage; a free-boundary one enqueues.       *)
Launched(gauge) ==
  IF coupling # "fixed" THEN host
  ELSE IF age = 0 THEN host ELSE Captured(gauge)[gauge]

Launch(gauge) ==
  /\ pc = "top" /\ kernel = "idle"
  /\ coupling' \in Ramped
  /\ \E block \in IF coupling = "fixed" THEN {FALSE}
                  ELSE IF coupling' = "off" /\ fresh THEN BOOLEAN ELSE {TRUE},
        full \in FullUpdate(fresh \/ coupling' # coupling) :
       LET decay == coupling' \notin {"fixed", "off"}
       IN  /\ decay => reference.decays < MaxDecays
           /\ schedule' =
                [refresh |-> age = 0, gauge |-> gauge,
                 reset |-> fresh /\ coupling' \notin {"initialized", "active"},
                 factors |-> Launched(gauge), decay |-> decay,
                 vacuum |-> block, full |-> block /\ full, edge |-> FALSE]
  /\ IF coupling = "fixed"
     THEN IF age = 0
          THEN refreshGraphs' = refreshGraphs \cup {gauge} /\ UNCHANGED normGraphs
          ELSE normGraphs' = Captured(gauge) /\ UNCHANGED refreshGraphs
     ELSE UNCHANGED graphs
  /\ newton' = NoNewton
  /\ control' = Cleared /\ kernel' = "inverse" /\ entry' = <<Found>>
  /\ UNCHANGED <<host, pass, age, pc, state, buffers, deviceCaches, fresh, answer>>

-----------------------------------------------------------------------------
(* The prefix.  The kernels are grouped where nothing else can read what     *)
(* they write; each group is followed by the next one in the stream.         *)
Stream(this, next) ==
  /\ kernel = this /\ kernel' = next
  /\ UNCHANGED <<host, graphs, pass, age, pc, state, fresh, newton, answer, entry>>

(* Axis, inverse transform and base geometry, whatever the state is.         *)
EnqueuePrefix ==
  /\ Stream("inverse", "jacobian")
  /\ LET extended == ExtrapolateAxis(geometry, state)
         inverse == EnqueueInverse(transform, extended,
                                   From({state, extended.axis}))
     IN  /\ transform' = inverse.transform
         /\ geometry' = BaseGeometry(inverse.geometry)
  /\ UNCHANGED <<field, forces, gcon, residual, control, deviceCaches,
                 coupling, schedule>>

(* The statistics of the Jacobian decide what may follow.                    *)
JacobianStatus ==
  /\ Stream("jacobian", "field")
  /\ control' = JacobianFinalize(JacobianStats(control, geometry))
  /\ UNCHANGED <<buffers, deviceCaches, coupling, schedule>>

Field ==
  /\ Stream("field", IF schedule.vacuum THEN "vacuum" ELSE "caches")
  /\ field' = EnqueueMagneticField(control, field, geometry)
  /\ UNCHANGED <<transform, geometry, forces, gcon, residual, control,
                 deviceCaches, coupling, schedule>>

(* The block between prefix and suffix: the averages of the field, the       *)
(* boundary and the axis are read back, and the host's update settles        *)
(* whether the edge is pushed.                                               *)
VacuumBlock ==
  /\ Stream("vacuum", "caches")
  /\ vacuum' = HostUpdate(vacuum, LcfsRepack(state), AxisExtract(geometry),
                          SurfaceAverages(field), schedule.full)
  /\ coupling' = IF coupling = "initializing" THEN "initialized" ELSE coupling
  /\ schedule' = [schedule EXCEPT !.edge = coupling' # "off"]
  /\ UNCHANGED <<buffers, control, precon, tcon, reference>>

-----------------------------------------------------------------------------
(* The suffix.                                                               *)
RebuildCaches ==
  /\ Stream("caches", "force")
  /\ reference' = IF schedule.reset
                  THEN ResetReference(control, reference, geometry)
                  ELSE reference
  /\ precon' = IF schedule.refresh
               THEN EnqueueCompute(control, precon, geometry, field) ELSE precon
  /\ control' = IF schedule.refresh
                THEN ForceNorms(control, geometry, field, state) ELSE control
  /\ UNCHANGED <<buffers, tcon, vacuum, coupling, schedule>>

Forces ==
  /\ Stream("force", "edge")
  /\ forces' = MhdForce(control, forces, geometry, field)
  /\ UNCHANGED <<transform, geometry, field, gcon, residual, control,
                 deviceCaches, coupling, schedule>>

EdgeForceAndDecay ==
  /\ Stream("edge", "constraint")
  /\ forces' = IF schedule.edge
               THEN EdgeForce(forces, Rbsq(vacuum, geometry, field)) ELSE forces
  /\ reference' = IF schedule.decay THEN RconDecay(reference) ELSE reference
  /\ UNCHANGED <<transform, geometry, field, gcon, residual, control, precon,
                 tcon, vacuum, coupling, schedule>>

(* ConstraintOperator::enqueue().  The bandpass between head and tail runs   *)
(* whatever the status says.                                                 *)
Constrain ==
  /\ Stream("constraint", "forward")
  /\ tcon' = IF schedule.refresh
             THEN ComputeTcon(control, tcon, geometry, precon) ELSE tcon
  /\ LET head == EffectiveConstraint(control, gcon, geometry, reference)
         bandpass == EnqueueDealias(transform, head.eff, tcon')
     IN  /\ gcon' = [head EXCEPT !.con = bandpass.gCon]
         /\ transform' = bandpass.transform
         /\ forces' = AddConstraint(control, forces, geometry, reference,
                                    gcon'.con)
  /\ UNCHANGED <<geometry, field, residual, control, precon, reference,
                 vacuum, coupling, schedule>>

(* The forward transform overwrites the slab, valid pass or not.             *)
Forward ==
  /\ Stream("forward", "predicate")
  /\ LET forward == EnqueueForward(transform, forces, schedule.edge)
     IN  /\ transform' = forward.transform
         /\ residual' = M1Constraint(Scalxc(forward.residual), schedule.gauge)
  /\ UNCHANGED <<geometry, field, forces, gcon, control, deviceCaches,
                 coupling, schedule>>

Classified ==
  /\ Stream("predicate", "precondition")
  /\ LET raw == ComputeResiduals(control, residual)
     IN  \E verdict \in Verdicts(raw, schedule.refresh, Terminal) :
           control' = InvariantPredicate(raw, schedule.refresh,
                                         schedule.factors, verdict)
  /\ UNCHANGED <<buffers, deviceCaches, coupling, schedule>>

Precondition ==
  /\ Stream("precondition", "fence")
  /\ residual' = EnqueueApply(control, M1PreconScale(control, residual, precon),
                              precon)
  /\ control' = PreconditionedResiduals(control)
  /\ UNCHANGED <<transform, geometry, field, forces, gcon, deviceCaches,
                 coupling, schedule>>

-----------------------------------------------------------------------------
(* The fence.                                                                *)
Unknown == [kind |-> "unknown"]

(* The residual slab as the host and the descent kernel find it.             *)
Slab == [mhd |-> residual.mhd, edge |-> residual.edge,
         constraint |-> residual.constraint, odd |-> residual.odd,
         gauge |-> residual.gauge, precon |-> Preconditioned(residual)]

Answered ==
  IF control.valid
  THEN [kind |-> "residual", residual |-> Slab, factors |-> control.used]
  ELSE [kind |-> "refused"]

(* The stream has run dry and the host reads the control record.             *)
ReadControl ==
  /\ kernel = "fence" /\ newton.phase = "none"
  /\ pc' = "fence" /\ kernel' = "idle"
  /\ answer' = Answered /\ entry' = << >>
  /\ record' = control.norms /\ used' = control.used
  /\ refreshing' = schedule.refresh /\ valid' = control.valid
  /\ converged' = (control.verdict = "converged")
  /\ UNCHANGED <<host, graphs, age, state, buffers, control, deviceCaches,
                 coupling, fresh, schedule, newton>>

(* What the host may do about a pass: only with the stream idle, and not in  *)
(* the middle of a Newton step.                                              *)
Deciding == pc = "fence" /\ kernel = "idle" /\ newton.phase \in {"none", "done"}

SoftDue == coupling = "initialized" /\ answer.kind = "residual"

(* restore_state(), and the controller's anchor.  Which state comes back is  *)
(* StageLoop's subject; here it may be any.                                  *)
RollBack ==
  /\ state' \in States /\ fresh' = TRUE /\ answer' = Unknown
  /\ UNCHANGED <<buffers, control, deviceCaches, coupling, schedule, kernel,
                 newton, entry>>

Maintain ==
  /\ kernel = "idle" /\ MaintenanceReset /\ RollBack

RejectGeometry == Deciding /\ field # NoField /\ Reject /\ RollBack

(* Before the first descent there is nothing to go back to.                  *)
ThrowInvalidStart ==
  /\ Deciding /\ ~valid /\ field = NoField
  /\ kernel' = "stopped"
  /\ UNCHANGED <<vars, state, buffers, control, deviceCaches, coupling, fresh,
                 schedule, newton, answer, entry>>

RecoverNonfinite ==
  /\ Deciding /\ ~SoftDue /\ control.verdict = "nonfinite"
  /\ Accept /\ age' = 0 /\ RollBack

(* The pass in which the vacuum pressure is first felt rolls the state back  *)
(* and goes on with the record it has.                                       *)
SoftRestart ==
  /\ Deciding /\ valid /\ SoftDue
  /\ state' \in States /\ age' = 0 /\ fresh' = TRUE
  /\ answer' = [kind |-> "soft", residual |-> Slab]
  /\ UNCHANGED <<host, graphs, pass, pc, buffers, control, deviceCaches,
                 coupling, schedule, kernel, newton, entry>>

Converge ==
  /\ Deciding /\ valid /\ ~SoftDue /\ control.verdict = "converged"
  /\ kernel' = "stopped"
  /\ UNCHANGED <<vars, state, buffers, control, deviceCaches, coupling, fresh,
                 schedule, newton, answer, entry>>

DescentStep == [kind |-> "descended", from |-> state, along |-> Slab]

(* The descent kernel reads the residual slab.  The step may be discarded in *)
(* the same breath, which opens a new epoch.                                 *)
Descend ==
  /\ Deciding /\ ~SoftDue /\ control.verdict = "none"
  /\ Accept /\ state' \in States
  /\ fresh' \in BOOLEAN
  /\ age' = IF fresh' THEN 0 ELSE (age + 1) % RefreshInterval
  /\ answer' = DescentStep
  /\ coupling' = IF coupling = "initialized" THEN "active" ELSE coupling
  /\ UNCHANGED <<buffers, control, deviceCaches, schedule, kernel, newton, entry>>

-----------------------------------------------------------------------------
(* A Newton correction.  Its evaluations run the same kernels with every     *)
(* cache frozen, directly, with the host's factors.                          *)
Frozen(s) ==
  [s EXCEPT !.refresh = FALSE, !.reset = FALSE, !.decay = FALSE,
            !.factors = host]

Prepare ==
  /\ Hybrid /\ coupling = "fixed"
  /\ Deciding /\ newton.phase = "none" /\ valid
  /\ ~schedule.refresh /\ ~schedule.reset /\ schedule.gauge = "fixed"
  /\ control.verdict = "none" /\ control.evaluated
  /\ newton' = [NoNewton EXCEPT !.phase = "solve", !.base = state,
                                !.before = answer]
  /\ schedule' = Frozen(schedule)
  /\ UNCHANGED <<vars, state, buffers, control, deviceCaches, coupling, fresh,
                 kernel, answer, entry>>

Evaluates(s, phase) ==
  /\ state' = s /\ answer' = Unknown
  /\ control' = Cleared /\ kernel' = "inverse" /\ entry' = <<Found>>
  /\ newton' = [newton EXCEPT !.phase = phase,
                  !.probes = IF phase = "solve" THEN @ + 1 ELSE @]
  /\ UNCHANGED <<vars, buffers, deviceCaches, coupling, fresh, schedule>>

(* One Jacobian-vector product: the residual at a displaced state, checked   *)
(* on the device, and the base state copied back.  The derived fields stay   *)
(* those of the probe.  GMRES may also break down by itself.                 *)
Probe ==
  /\ newton.phase = "solve" /\ kernel = "idle" /\ newton.probes < MaxProbes
  /\ \E s \in States : Evaluates(s, "solve")

CheckProbe ==
  /\ newton.phase = "solve" /\ kernel = "fence"
  /\ \E b \in BOOLEAN : newton' = [newton EXCEPT !.breakdown = @ \/ b]
  /\ answer' = Answered /\ entry' = << >> /\ kernel' = "probed"
  /\ UNCHANGED <<vars, state, buffers, control, deviceCaches, coupling, fresh,
                 schedule>>

ReturnToBase ==
  /\ kernel = "probed"
  /\ state' = newton.base /\ answer' = Unknown /\ kernel' = "idle"
  /\ UNCHANGED <<vars, buffers, control, deviceCaches, coupling, fresh,
                 schedule, newton, entry>>

(* The line search, unless GMRES has broken down.                            *)
Trial ==
  /\ \/ newton.phase = "solve" /\ kernel = "idle" /\ newton.probes > 0
     \/ newton.phase = "trial" /\ kernel = "judged"
  /\ ~newton.breakdown
  /\ \E s \in States : Evaluates(s, "trial")

JudgeTrial ==
  /\ newton.phase = "trial" /\ kernel = "fence"
  /\ answer' = Answered /\ entry' = << >> /\ kernel' = "judged"
  /\ UNCHANGED <<vars, state, buffers, control, deviceCaches, coupling, fresh,
                 schedule, newton>>

(* The record that decides the pass is the last one read.                    *)
Adopt ==
  /\ used' = control.used /\ converged' = (control.verdict = "converged")
  /\ newton' = [NoNewton EXCEPT !.phase = "done"]
  /\ kernel' = "idle"
  /\ UNCHANGED <<host, graphs, record, refreshing, valid, age, pc, state,
                 buffers, control, deviceCaches, coupling, fresh, schedule>>

AcceptTrial ==
  /\ kernel = "judged"
  /\ control.valid /\ control.verdict # "nonfinite"
  /\ Adopt
  /\ UNCHANGED <<answer, entry>>

(* No trial will do: the base state is evaluated once more.                  *)
Restore ==
  /\ \/ newton.phase = "solve" /\ kernel = "idle" /\ newton.breakdown
     \/ kernel = "judged"
  /\ Evaluates(newton.base, "restore")

Scaled(a) ==
  IF a.kind = "residual"
  THEN <<[a.residual EXCEPT !.precon = None], a.factors>> ELSE << >>

(* "Newton rollback residual differs" is an exception.                       *)
JudgeRestore ==
  /\ newton.phase = "restore" /\ kernel = "fence"
  /\ answer' = Answered /\ entry' = << >>
  /\ IF Scaled(Answered) = Scaled(newton.before) THEN Adopt
     ELSE /\ kernel' = "raised"
          /\ UNCHANGED <<vars, state, buffers, control, deviceCaches, coupling,
                         fresh, schedule, newton>>

Finished == kernel \in {"stopped", "raised"} /\ UNCHANGED deviceVars

DeviceNext ==
  \/ \E gauge \in Shapes : Launch(gauge)
  \/ EnqueuePrefix \/ JacobianStatus \/ Field \/ VacuumBlock
  \/ RebuildCaches \/ Forces \/ EdgeForceAndDecay \/ Constrain
  \/ Forward \/ Classified \/ Precondition
  \/ ReadControl \/ Maintain \/ RejectGeometry \/ ThrowInvalidStart
  \/ RecoverNonfinite \/ SoftRestart \/ Converge \/ Descend
  \/ Prepare \/ Probe \/ CheckProbe \/ ReturnToBase \/ Trial \/ JudgeTrial
  \/ AcceptTrial \/ Restore \/ JudgeRestore \/ Finished

DeviceSpec == DeviceInit /\ [][DeviceNext]_deviceVars

-----------------------------------------------------------------------------
(* The device keeps what Evaluation promises the host: a pass evaluates the  *)
(* stored state with the caches it found, or rebuilt from that very state; a *)
(* folded geometry leaves no trace in them but a faded reference; descent    *)
(* moves a state along its own residual, whatever probes have run since; and *)
(* a Newton step that is given up restores the residual it started from.     *)
Promise ==
  INSTANCE Evaluation WITH
    Gauges <- Shapes,
    caches <- IF entry = << >> THEN CachesNow ELSE entry[1].caches,
    answer <- IF kernel = "raised" THEN [kind |-> "raised"] ELSE answer

EvaluationSpec == Promise!Spec

(* In a fixed-boundary stage the loop and its kernels do what GraphReplay,   *)
(* for which a pass is one step with any outcome, says they do.              *)
Replayed == coupling = "fixed"

Loop ==
  INSTANCE GraphReplay WITH
    host <- IF Replayed THEN host ELSE Unset,
    refreshGraphs <- IF ~Replayed THEN {}
                     ELSE IF entry = << >> THEN refreshGraphs ELSE entry[1].refresh,
    normGraphs <- IF ~Replayed THEN NoGraphs
                  ELSE IF entry = << >> THEN normGraphs ELSE entry[1].norm,
    record <- IF Replayed THEN record ELSE Unset,
    used <- IF Replayed THEN used ELSE Unset,
    refreshing <- Replayed /\ refreshing,
    valid <- Replayed /\ valid,
    converged <- Replayed /\ converged,
    age <- IF Replayed THEN age ELSE 0,
    pc <- IF Replayed THEN pc ELSE "top"

ReplaySpec == Loop!Spec
=============================================================================
