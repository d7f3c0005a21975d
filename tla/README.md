# Formal verification of cuMES

cuMES computes magnetohydrodynamic equilibria on a GPU. Its arithmetic lives on the
device. What decides whether a run is *right* is everything around the arithmetic: which
state is kept and which is rolled back, which cached quantity still belongs to the state in
storage, which buffer a kernel finds what in, when the vacuum field is coupled in, what a
file holds that another run starts from, and what a run says of itself when it stops. The
tests reach the branches of that code, but few of their sequences. This directory models it
in TLA+, checks it with TLC and proves the central facts with TLAPS.

Paths below are relative to the repository. `PROJECT.json` is the machine-readable index:
components, runs, mutants, the source lines of every definition, findings, hazards and
theorems.

## 1. Inventory

| component | state it keeps | operations | what makes it correct |
|---|---|---|---|
| fixed-point controller (`include/cumes/solver/iteration_controller.hpp`, `control_policy.hpp`) | effective iteration `iter2`, anchor `iter1`, bad-Jacobian counter, time step, running residual minimum | `next_schedule`, `classify_invariant`, `decide_restart`, `after_descent`, `vacuum_soft_restart`, `reset_correction_momentum` | every rejection re-anchors; no counter threshold is jumped over; growth is measured against a minimum of the same force law |
| stage loop (`src/kernels/solver_impl.cuh`, `solver_run`) | spectral state and velocities, two checkpoint slabs and `checkpoint_pending`, schedule, cached factors | one pass: schedule, device work, fence, gates, decision, descent | rollbacks reach accepted states only; the residual judged and applied is the residual of the state in storage; caches are rebuilt after a rollback; the stage ends |
| kernels of a pass (`src/kernels/*_impl.cuh`) | parity arrays, field, forces, residual slab, control record; preconditioner, constraint multiplier and reference | the kernels in stream order, each guarded by a status bit or not | whatever earlier passes, probes and rejected geometries left in the buffers, the host reads the residual of the state it asked about |
| graph cache (`solver_impl.cuh:1275`, `runtime/cuda_graph.hpp`) | captured graphs by schedule shape, with frozen kernel arguments | capture, launch, drop | replaying is indistinguishable from enqueueing afresh |
| free-boundary operator (`src/free_boundary_impl.cuh`, `src/webgpu/vacuum.cpp`) | `VacuumState`, update cadence, factor cache, edge and block gates, a pending GPU result | `advance`, `run_host_update`, `finish_webgpu_update`, `cancel_webgpu_update`, `on_iteration_end`, `on_stage_transition` | the ramp OFF, INITIALIZING, INITIALIZED, ACTIVE never falls back; the edge force acts exactly while coupled; factors belong to the boundary; a pending result is resolved once |
| Newton corrections (`kernels/newton_impl.cuh`) | saved base state, Krylov basis | prepare, probe, solve, trial, restore | a rejected correction leaves no trace |
| multigrid driver (`solver/multigrid_solver.hpp`, `stage_solver.hpp`) | stage, state carried over, outcome | run, refine, capture the output fields | only the finest converged stage is handed on |
| WebGPU solve (`src/webgpu/main.cpp`) | host state, velocity and checkpoint; device handles of both; the descent in flight; the pending vacuum result | a pass as a chain of callbacks, restarts, Newton trials, grid sequence, final fields | the deferred pipeline is a serial stage; the copies agree; what is published is one equilibrium |
| WebGPU operators (`src/webgpu/*.cpp`) | one buffer per label, kept for the page's life; snapshots and handles that must outlive a pass; one readback batch (`webgpu/readback_batch.hpp`) | dispatch, snapshot, adopt, append, map | a handle names a buffer, and the buffer still holds what the handle was taken for |
| input reading and validation (`cumes/config`) | none that outlives a call | map a document with defaults and errors, validate, write it back | what is solved is what the input says |
| program (`src/main.cu`, `equilibrium_solver.cu`) | seed, outcome, files written, exit status | check options, hash, read, restart, solve, write, exit | success means converged, published and valid; a restart starts from one published state |
| file formats (`cumes/io`) | checkpoint, binary, NetCDF and HDF5, with the versions of earlier releases | write, read | a reader gets what the writer was given, or refuses |
| publication of files (`io/writer_helpers.hpp`) | temporary file, path | fill, sync, rename, sync directory | a reader finds one complete version, whatever fails |
| stage arena (`runtime/device_arena.cuh`), capture coordination (`runtime/cuda_capture_coordination.hpp`), linearization, prolongation, profiles, Boozer output, plotting, benchmarks, browser interface | none worth checking, see section 5 | | |

**How they interact.** `main()` calls the facade, which runs `MultigridSolver::run()`. That
builds one vacuum operator and then, per grid, a `StageSolver` around `solver_run()`. The
loop owns the controller, asks it before and after each pass, calls the vacuum operator at
three points of the pass, and enqueues device work on a single stream, directly or as a
captured graph. It blocks at the fences, where it reads the control record the device
filled. Between stages the coarse state is prolongated and the vacuum operator, which
outlives them, is told. Files are written after the solve, one after the other, each
through the same publication protocol, and the checkpoint may seed a later run.

The browser has the same controller and the same vacuum operator, but no fence: a pass
is a chain of callbacks, each of which maps a batch of readbacks and decides. The descent
is enqueued and not waited for; the next pass reads it back in front of its own results and
commits it to the host then. Until that moment the device runs ahead of the host.

**What is hard.** Natively, nothing is concurrent apart from the device, which the fences
order. The difficulty is *protocol*: restarts of six kinds (maintenance, invalid Jacobian,
nonfinite residual, soft restart, bad Jacobian by growth, bad progress), checkpoint
rotation, cache cadences counted from a moving anchor, kernels that add to arrays another
kernel must have assigned, and a vacuum ramp which changes the force law under the
controller. In the browser the same decisions meet a state that is committed one pass late
and buffers shared by label. Concurrency and crashes enter with the files: several
processes may publish to one path, a process or the machine may die between any two
calls, and the files of one run are the input of another.

`PROJECT.json` lists the hazards at the lines where they bite.

## 2. Modules

            IterationController           VacuumCoupling
                              \            /        \
                              StageLoop  -refines-> Recovery
                                  |                   \
                              Multigrid              ResidentVacuum   ReadbackBatch
                                                          \            /
          IterationController -------------------------- BrowserSolve  -refines-> SerialStage

    Sources - Transforms, FieldKernels - RadialPreconditioner, ForceKernels; ConstraintKernels
                                  |
    GraphReplay ------------- DevicePass  -refines-> Evaluation, GraphReplay
         \-refines-> PassFactors

    Sources - GpuBuffers - GpuTransforms, GpuFields - GpuResiduals - IterationDispatch
                                  - BrowserPass  -refines-> Evaluation

    Containers - NamedContainers, ProblemInput - CommandLine

    AtomicPublish  -refines-> PublishedFile

Four groups of modules look at the program from four distances. What a *run decides*:
StageLoop, Multigrid, BrowserSolve. What the *device computes with*: DevicePass,
BrowserPass. What *goes in and comes out*: CommandLine. How *a file is replaced*:
AtomicPublish.

**IterationController**: the cadences of `control_policy.hpp` are constants, with the
assumption the theorems make of them. The controller is a class without concurrency, so it is a record,
and every method an operator on it. Counters are exact. `delt_` is kept as *initial* or
*reduced*, `res0_` as the force law it was measured under (or *unset*), the residual sum of
a pass as its class against `res0_` (*minimum*, *between*, *blowup*). `PossibleGrowth`
says which classes can occur: the first pass of an epoch sets the baseline it is compared
with.

**VacuumCoupling**: the operator in the same style. The vacuum solver is external: it
lengthens the update cadence by some amount, or finds its integrals inconsistent and throws.
**ResidentVacuum** adds the update whose result stays on the GPU until the end of the pass.

**StageLoop**: one action per region of a pass of `solver_run()`.

| `pc` | actions | code (`solver_impl.cuh`) |
|---|---|---|
| `top` | `Maintenance`, `BeginPass`, `Exhaust` | 1323-1394 |
| `vacuum` | `VacuumUpdate`, `VacuumThrows` | 1395-1414 |
| `device` | `Evaluate` | pass and fence |
| `newton` | `NewtonAccepts`, `NewtonRollsBack` | 1463-1551 |
| `gate` | `RejectGeometry`, `ThrowInvalidStart`, `AcceptGeometry` | 1563-1622 |
| `soft` | `SoftRestart` | 1624-1627 |
| `classify` | `RecoverNonfinite`, `Converge`, `Continue` | 1629-1682 |
| `decide` | `Descend`, `DiscardDescent` | 1684-1766 |

A spectral state is a member of `State`. Whether it passes the Jacobian gate is a function
of the state (the set `Oriented`): this is what makes "the checkpoint is bad" expressible.
Convergence and nonfiniteness also depend on data outside the model and are chosen freely.
`FixedSpec` is the same without the three vacuum actions; `FixedBoundaryStage` proves that
this is all there is without a vacuum operator. History variables (`passed`, `stale`, `events`, `maintained`, `softEpoch`) are read by
properties only.

**Recovery**: the policy of ADR-0020 without slabs. There is one trusted state and at most
one candidate.

**Multigrid**: extends `StageLoop` with the run: `SolveStage` is one step of the current
stage, `Refine` the transition to the next grid, `Return` the end of the last stage to run,
`Write` and `Exit` what `main()` does. A `CumesError` is `Abort`.

**GraphReplay**, **PassFactors**: the graph cache of a fixed-boundary stage. A capture
freezes the factors of the host, so a refresh must drop the graphs captured before it. The
abstract module says only that a pass is decided with the factors it was classified with.
The cadence is kept as the age since the anchor modulo `RefreshInterval`, so the model is
finite without a cap.

**Sources** and the kernel modules: a device buffer holds the *name of what it was computed
from*. A kernel that reads buffers of one source writes that source; one that reads buffers
of several writes `[mixed |-> ...]`, and a `+=` onto an array that was not reassigned gives
`[twice |-> ...]`. Neither name is one that any property accepts, so every missing
assignment, missing clear or wrong order that lets an earlier pass show through is visible,
without a number in the model. `Transforms` has the two backends (the toroidal one with
scratch shared by both directions), `FieldKernels` geometry, Jacobian, field, current
closure, `RadialPreconditioner` the elements and their application, `ConstraintKernels` the
spectral constraint, `ForceKernels` forces, vacuum edge, norms.

**DevicePass** runs these kernels in stream order under the loop that launches them: graph
or direct enqueue, fence, rollbacks to any state, descent, and Newton corrections with
their probes, trials and restore. `kernel` is what the stream runs next. It extends
`GraphReplay` for the host's side of the cache.

**Evaluation**: what the host may believe of a device. It asks for the residual of the
stored state and reads one answer that names everything it was computed from; the caches
outlive an evaluation, and a folded geometry leaves them alone. Both backends implement it:
`DevicePass` and `BrowserPass` each have a refinement mapping to this one module, which is
where "the browser solver computes what the native one does" is stated.

**BrowserSolve**: the solve in the browser, one action per callback.

| `pc` | actions | code (`src/webgpu/main.cpp`) |
|---|---|---|
| `run` | `FlushDeferred`, `Exhaust`, `Maintenance`, `EnqueuePass` | `run_stage_inverse` 3331-3431 |
| `flush`, `mapped`, `remapped` | `FlushArrives`, `PassArrives`, `GeometryFallback` | 3351-3359, 3432-3491 |
| `accept` | `RejectGeometry`, `InvalidStart`, `AcceptGeometry` | `accept_geometry` 3508-3757 |
| `update`, `force`, `suffix` | `UpdateVacuum`, `VacuumThrows`, `ApplyForce`, `SuffixArrives`, `SuffixFails` | 3952-4094, `vacuum.cpp` 229-304 |
| `tail`, `soft` | `ConsumeTail`, `SoftRestart` | 3541-3577, 4929-4932 |
| `classify` | `RecoverNonfinite`, `Converge`, `Continue`, `BeginNewton` | `finish_preconditioned` 4835-4960 |
| `gmres`, `trial` | `SolveNewton`, `RejectTrial`, `ConsumeTrial`, `AcceptTrial`, `RollBackTrial` | 4973-5206 |
| `descend` | `Descend`, `DiscardDescent` | `enqueue_descent_result` 6208-6250 |
| `complete` ... `prolong` | `ReadFields`, `FieldsArrive`, `Publish`, `Prolong`, `Refine` | 5559-5757 |
| any waiting | `Fail` | 6025-6032 |

**ReadbackBatch**: the batch as a record with its methods. **SerialStage**: what such a stage
promises with every descent committed at once.

**GpuBuffers** to **IterationDispatch**: the operators of a pass in the browser. `gpu` is what
the command queue has left in each labelled buffer; a handle is a label; a readback is a
snapshot taken at its place in the queue. **BrowserPass** is the host around them on one
grid: which readback mode a pass asks for (`IterationCase`), what it accepts from it, what
it restores.

| `pc` | actions | code (`src/webgpu/main.cpp`) |
|---|---|---|
| `run` | `RunStageInverse` | 3379-3442, 6131-6181 |
| `mapped` | `FallBack`, `Receive` | `iteration.cpp` 71-98; 3424-3440 |
| `geometry`, `rejected` | `RejectGeometry`, `RestoreRejected`, `UpdateVacuum`, `FailFields` | 3656-3757, 3806-3971 |
| `accept` | `AcceptResidual`, `FailAcceptance` | 3541-3577, 4835-4913 |
| `classify`, `decide` | `SoftRestart`, `RecoverNonfinite`, `Converge`, `Descend`, `BeginNewton` | 4929-5069, 5312-5443 |
| `solve`, `trial`, `tried` | `SolveNewton`, `EvaluateTrial`, `RejectTrial`, `AcceptTrial`, `RollBackNewton` | 4973-5206 |

**ProblemInput**, **Containers**, **NamedContainers**: a document is a record whose keys are
sections, mapped and validated as `json_reader.cpp` and `validated_problem.cpp` do it; a
checkpoint or binary file is a sequence of typed fields, so that a reader that takes one
field for another gets garbage; a NetCDF or HDF5 file is a set of named arrays with
extents. Every version that a reader accepts has a layout. **CommandLine** is `main()` around
them: `pc` goes from the options through hash, input and restart to solve, outputs and exit,
jobs follow one another, and the user may replace the input between its two readings, for
the hash and for the problem, or interrupt the copying of a checkpoint before it is read.

**AtomicPublish**, **PublishedFile**: the publication protocol over a POSIX file system. Each
system call is an action that may fail. A process may be killed, and the machine may crash
once: data not synchronized is then on disk in part, in whole or not at all, and a directory
entry not synchronized is the old or any newer one. `Library` writers (NetCDF, HDF5) reopen the
file to synchronize it. The abstract module is an atomic register.

### What the models leave out

* Arithmetic: residual values, the time step beyond *reduced*, damping, the iota/chi
  update, the edge-invariant flag. None selects a branch that is modelled, except through a
  verdict chosen freely. Where a choice is tied to another by the arithmetic, the model
  ties it: `PossibleGrowth`; the R/Z residual that the vacuum ramp reads cannot be small
  when it is NaN.
* `LambdaOnly`. `classify_invariant` also rejects a residual that is nonfinite in lambda
  alone, with a small finite R/Z residual. Whether the arithmetic produces one is a question
  of data. The constant admits it; it is FALSE in the runs.
* `DevicePass` takes de-aliasing as given (mpol > 2) and leaves out the precision modes, the
  odd-geometry mode, the cached reference radius, the edge-invariant switch and `rmsPhiP`.
  Whether the Krylov recurrence breaks down is chance. Two habits of the kernels are
  modelled as they are: the decay of the constraint reference does not ask for the status,
  and the vacuum is updated on a boundary whose geometry may turn out folded.
* `BrowserPass` has one grid and no cap, error or maintenance reset. In this loop a
  maintenance reset always overtakes a pending descent, which is a matter of `BrowserSolve`.
* `BrowserSolve` and `BrowserPass` follow the production path (resident fields, one
  readback batch); the serial path exists for diagnosis.
* The browser differs from the native loop in two places that no document rules out: it
  drops the reset of the constraint reference when the edge gate opens in that very pass,
  where the native loop decides at launch; and its accepted reference does not fade on a
  rejected geometry with a free boundary, where the native one does (`solver_impl.cuh:965`).
  `Evaluation` allows both.
* `CommandLine` has the solve as one step, keys that are treated alike as one, and payloads
  as tokens. The JSON grammar, the byte order and the caps on sizes are left out.
* Telemetry, dumps, verbose output, and benchmarks.
* A failing CUDA call: it throws, and the stage is over, as after `ThrowInvalidStart`.
* Caps: every grid has the same `MaxIter`; the input may name one per grid.

## 3. Runs

Every property has a mutant: a variant of a code definition with a plausible bug, kept
beside the original and marked `mutant`, under which TLC finds the property violated.

| run | distinct states | question |
|---|---|---|
| `stage_fixed` | 86 246 | fixed boundary with Newton and step recovery, nine passes |
| `run_free` | 1 598 858 | free boundary over two grids, seven passes each, two files; safety and liveness |
| `device_pass` | 713 932 | kernels, buffers and graphs of a pass, unbounded passes |
| `browser` | 567 723 | the deferred pipeline over two grids, six attempts each; safety and liveness |
| `browser_pass` | 387 473 | operators, buffers and handles of a browser pass, unbounded passes |
| `command_line` | 43 059 | two jobs, their inputs, options and files |
| `publish` | 3 826 | three writers, one of them a library, one after the crash |
| five refutations | | see findings |

**A stage** (`stage_fixed`). `RestartsFromOriented`, `RollbacksReachValidated` and
`RecoverySpec` say that whatever rejections and refreshes follow each other, what is
restored has been accepted. `PendingIsCurrent` says that the verdict which validates a
checkpoint is a verdict on it, and that the maintenance reset, which does not ask, never
finds one pending. `CachesRebuilt` and `ResidualMatchesState` tie a descent to caches and
residual of the state it moves. `MaintenanceNotSkipped`: the counter, tested for equality
with 25 and 50, meets both.

**A free-boundary run** (`run_free`). `BaselineMatchesCoupling`, `EdgeFollowsCoupling`,
`FactorsOfThisEpoch`, `StaleOnlyAfterSoftRestart` tie the vacuum ramp to the controller's
baseline, the gates, the factor cache and the force caches. `StagesStartAsModelled`: the
composition is sound, each grid starts in a state of `StageLoop`'s `Init`.
`CouplingSurvives`: no rollback or refinement uncouples. `SuccessIsValid`: exit status 0
implies convergence, every file in place, and a valid state in them. `RunTerminates`.

**The device** (`device_pass`). `EvaluationSpec`: what the host reads is the residual of the
state it asked about, with the caches it may count on. `ReplaySpec`: the loop that launches
the kernels is the one of `GraphReplay`. Both are theorems too, for any states and cadence.
`PassFactorsSpec` and `ConvergedIsMeasured`: no pass is decided with other factors than it
was classified with, and none converges on the zeros that the factors start from.

**The browser.** In `browser`: `SerialSpec` (taking every descent when it is enqueued, the
pipeline is a serial stage), `DescentTravelsOnce` (a descent is in the batch of the pass
behind it, once, and no append or mapping is ever refused), `DescentMatchesEvaluation` (the
handles agree on the state the descent starts from), `OnlyMaintenanceOvertakes` (the one
sequence that breaks the deferred commit is the one in the findings),
`PendingVacuumResolved` (a pending vacuum result is finished or cancelled before any
decision), `PublishedFieldsMatchState`, `Terminates`. In `browser_pass`: `EvaluationSpec`,
as for the native device; `CopiesAgree` (the host's state and the device's are the same
whenever no commit is outstanding); `MomentumFollowsState` (no rollback leaves the velocity
of a step that was taken back); `ProfilesOfTheResult` (the profiles that are published are
those of the converged state).

**The program** (`command_line`). `SolvedAsWritten`: what is solved is what the input says,
or its documented default, and never a part of it. `WrittenSpecReadsBack`: a problem
written as an input is the input of the same problem. `RestartSeedsPublished`: a restart
starts from one file that a run published whole, of its grid and symmetry. `ReadIsWritten`:
whatever a reader accepts from a checkpoint of any release, whole or cut short, from the
native result, or from the NetCDF, HDF5 or earlier binary form of an outcome is what the
writer was given. It also says which files must be accepted: every whole one, except a
version 7 checkpoint (no reader wants it), the report of a version 9 binary, and the report
of an asymmetric NetCDF or HDF5 result, which `results_read_back` shows to be refused in
some cases.

**Publication** (`publish`). `PathComplete` (nothing torn, also after a crash),
`SuccessIsDurable`, `NoLitter`, and the refinement `PublishedSpec`.

### Bounds

* *Control policy.* The cadences are scaled, in order-preserving proportion, so that every
  one is met within the passes of a run: refresh 25 to 3, maintenance 25/50 to 2/4,
  checkpoint age 10 to 1, bad progress 12/50 to 2/2, step recovery to 2. With
  `MaxIter = 9` a stage sees two maintenance resets, three refreshes and a rejection
  after each; with 7 on each of two grids a run sees the ramp, a soft restart and a
  refresh after it on the first grid and the coupled epoch on the second. The theorems
  hold for the values of the code.
* *States.* Two valid and one invalid, in `device_pass` and `browser_pass` two ordinary, one
  whose residual ends the iteration and one folded. Properties compare at most the current
  state, the checkpoint, a base and the evaluated one, and tell states apart by identity and
  validity. The ordinary ones are interchangeable, which the symmetry of `stage_fixed` and
  `browser_pass` uses. The runs with liveness have no symmetry.
* *Devices.* `RefreshInterval = 3` gives passes with, right after and before a refresh.
  `MaxDecays = 2` tells a fresh, a faded and a twice faded reference apart; a reference that
  has faded so often launches no further pass. One probe (`MaxProbes`) is
  followed by one trial and one restore: a second probe starts from what the first left, as
  the first did. Both gauges, both transform backends, with and without a captured graph.
* *Browser.* Six attempts on each of two grids: a refresh, a maintenance reset and an
  exhausted stage all occur.
* *Command line.* Documents differ from a plain one in a section or two, option sets by one
  request: sections and options that the code treats independently are not multiplied. The
  second job restarts from what the first left. The document that may take the place of the
  input while a job runs is asymmetric, as most of the inputs are not.
* *Vacuum cadence.* `MaxVacSkip = 2` distinguishes a full from a partial update.
* *Grids.* Two: a stage sees of its predecessors what one leaves behind.
* *Files.* Three writers: two that overlap, and one of a process started after the crash
  that may draw the temporary name of the first. One crash: a second one meets a file system
  in which everything is on disk, as at the start.

`CHECK_DEADLOCK FALSE` is used where the system really stops: the writers of `publish`, and
the jobs of `command_line`. A stage, a run and a browser pass that have stopped stutter
explicitly.

### Fairness

`FairRunSpec` is weak fairness of the whole next-state relation. The program is one thread.
It waits for device work it has itself enqueued and for file operations, which return. No
fairness of any single branch is assumed: a stage may reject for ever, as often as its
verdicts say so, and ends because the loop counts raw passes and not effective iterations.

`FairSpec` of `BrowserSolve` is the same for the page: the browser delivers every callback,
with a result or an error. That a Newton correction, which re-enters the consumption of the
pass it belongs to, is not due again there is what `Terminates` needs of the code.

### Findings

Each is a run that ends in a violation of a sentence of the repository.

| run | the code | the sentence |
|---|---|---|
| `soft_restart_converges` | after a soft restart has restored the checkpoint, the same pass may still converge, on the residual of the state it replaced | `docs/verification.md:147` |
| `browser_maintenance` | a maintenance reset that a soft restart makes due restores the checkpoint, and the commit of the older descent then overwrites it; fields of one state and coefficients of another may be published | `docs/webgpu-port.md:1235`, `webgpu/main.cpp:6226` |
| `restart_modes` | a restart compares the number of modes, which (mpol, ntor) = (6, 0) and (3, 1) share | `docs/cuda-overhaul-blueprint.md:718` |
| `results_read_back` | an asymmetric result without sine harmonics of Z is refused by the NetCDF writer and not read back from HDF5 | `docs/output-formats.md:114` and `:134` |
| `hash_of_input` | the input is read for its hash and opened again to be parsed; replaced in between, the result records the hash of a document that was not solved | "must be the hash of the bytes the solver actually consumed" (`src/main.cu:292`) |

## 4. Proofs

The theorems hold for all values of the constants that satisfy the assumptions of the
modules, and no bound of section 3 is among them. A theorem that needs more says so in its
statement (`~FreeBoundary`, `~LambdaOnly`, `DistinctNames`). Its module names the component;
`Methods_proofs` has what the methods of the controller and of the vacuum operator return,
proved once for all that call them. `Multigrid_proofs` has the theorems of the stage
(`StageLoop`) and of the run around it, `Containers_proofs` those of the file formats, on
which `CommandLine_proofs` builds.

| assumption | what it asks of the constants | why the code justifies it |
|---|---|---|
| `PolicyAssumption` | cadences are natural numbers, the refresh and Newton ones positive, the two maintenance thresholds more than one apart | the constants of `control_policy.hpp` |
| `StageAssumption`, `BrowserAssumption` | states, a cap; a free boundary excludes Newton and step recovery | `solver_run` refuses the one, `multigrid_solver.hpp:219` switches off the other; per problem in the browser |
| `VacSkipAssumption`, `RunAssumption`, `FactorsAssumption`, `PublishAssumption` | the types of the constants | |
| `BrowserPassAssumption` | what may be terminal is oriented, a gauge `"fixed"`, a positive interval; nothing is labelled as no handle | states, labels and handles are names |
| `DeviceAssumption` | what may be terminal is oriented; factors are those of oriented states, or the zeros the device starts from; a gauge `"fixed"` | a residual is classified, and norms are computed, only after the Jacobian gate; the schedules of `solver_impl.cuh:1353` |
| `NoneAssumption` (`DevicePass`, `BrowserPass`) | "nothing written" is no state with its decays and no pressure | the same; TLC evaluates it for the names used |
| `JobsAssumption` | documents and options are what the parsers can tell apart; the file first on the checkpoint path is one that some release wrote whole, of at least one surface and one mode, asymmetric only in a layout with a component count and always in one with the asymmetric vectors; or it does not begin with the magic string | `clap.h` and the JSON parser return no others; a file that begins as a checkpoint and was made by other means is not modelled |

**A stage.** None of the safety properties is inductive. That the fallback slab holds an
accepted state says nothing of a candidate between its capture and its verdict, nor that the
verdict reached is one on it. The strengthening is

    IInv == TypeOK /\ CapInv /\ AnchorInv /\ RecoveryInv

where `RecoveryInv` collects what a pass has learnt of the state it evaluated
(`VerdictInv`), that before the first kept descent only the initial state is anywhere
(`FirstInv`), that a pending candidate is the state under judgement (`CandidateInv`), that
zero velocities and a fresh anchor go together (`MomentumInv`), and where maintenance can be
due (`MaintenanceInv`). From it follow `TypeCorrect`, `FixedBoundaryStage`, `FallbackIsValidated`,
`RestartsAreOriented`, `CandidateIsCurrent`, the action property `RollbacksAreValidated`,
and the refinement `SlabsImplementRecovery`.

`CandidateInv` has the one subtle case. A Newton correction replaces the state while a
candidate is pending; the candidate is then accepted although the state judged is another
one. It is sound because a correction is tried only after the candidate itself has been
evaluated as valid and finite, which is the third and fourth conjunct.

**Beside the state.** With a fixed boundary, caches other than the
vacuum's are stale only when a restart has just re-anchored (`CachesInv`), and a pass that begins
anchored refreshes and resets (`RestartRebuilds`); so `CachesAreRebuilt`, and with it
`ResidualIsOfState`. With a vacuum a soft restart replaces the state of a pass that goes on to
descend: `RefreshInv` carries what it leaves behind to the next multiple of the refresh
interval, hence `StaleWithinInterval`. `CountedInv` says that a pass which has begun stands on
no maintenance threshold, unless the soft restart put it there and re-anchored it, after which
the same pass cannot count again: `MaintenanceOnSchedule`.

**The coupling.** `OneLawInv` has three parts. The edge force is on
exactly when the vacuum is coupled; this needs that the vacuum cannot be ACTIVE in the first
effective iteration, where the block gate is closed. Away from an anchor, the residual minimum
was taken under the law of the pass. Factors that have outlived their boundary do not meet a
coupled vacuum before a full update. From them `EdgeIsCoupled`, `MinimumOfThisLaw` and
`FactorsAreCurrent`. All three assume `~LambdaOnly`; without it the first is false: a hot start whose first residual is
nonfinite in lambda alone records a small R/Z residual, ramps to ACTIVE before the first
iteration has ended, and then finds the block gate closed.

**A run.** `StageInv == IInv /\ VacInv /\ GateInv` adds what the vacuum operator looks like
between its calls, and that past the gate the state is valid. `VacInv` is what makes the
composition go through: `TransitionStarts` shows that whatever satisfies it at the end of a
stage is, after `on_stage_end()` and `on_stage_transition()`, a `StageStartVacuum`.
`RunInv` adds what the outcome and the files say. From it follow `RunTypeCorrect`,
`EveryGridStartsAsModelled`, `CouplingIsKept`, `SuccessMeansValid`, `FilesAreFinest` and
`EveryGridFallsBackSafely`, for any number of grids.

**Graph replay.** The inductive invariant says that a graph captured for a pass without
refresh has frozen the factors the host holds now (`GraphsCurrent`), where the factors of
the pass at the fence come from (`Provenance`), and that away from the anchor the host has
factors (`HostHasFactors`). From it follow `ReplayTypeCorrect`, `ConvergenceIsMeasured` and
the refinement `ReplayImplementsDirect`. `DeviceReplays`, below, carries these facts over to
the loop with its kernels.

**The kernels of a pass** (`DevicePass_proofs`). The operator lemmas say what a kernel makes
of what it reads: `SynthesisIs`, `FieldIs`, `ComputeIs`, `ForwardIs`, `ApplyIs` each show that
its output is a function of the state, whatever its own arrays held before, and `GuardedIs`
and `UnlessIs` what the status bits let through. `DeviceInv` then follows the stream:
`BufferInv` says, for each point of it, which arrays already hold this state and which may
still hold another; `ControlInv`, what the control record says there; `EntryInv`, what the
pass in flight has done to the caches and graphs it found at its launch; `CachesInv`, that
caches, norms and reference are of one oriented state once the first pass has rebuilt them;
`VacuumInv`, that the factors of an initialized vacuum are of a state whose geometry was
accepted; `FenceInv` and `DecisionInv`, what the host reads and with which factors, with the
exception that a soft restart makes; `NewtonInv`, what a correction started from and that its
trials have been evaluated like any other state. There is one lemma per kernel and per action
of the host. From them follow `DeviceTypeCorrect`, `DeviceConvergesMeasured` and
`DevicePassesFactors` (the facts of the paragraph above, without assuming what the kernels write), the
refinements `DeviceReplays` and `DeviceKeepsThePromise`, and `NewtonNeverRaises`. The last
one rests on `RestoredIs`: the residual recomputed at the base state, after any number of
probes and a refused trial, is the one the correction started from, so the mismatch that the
code throws on does not occur in a model without rounding. The invariant was first checked by TLC
on the instance of `device_pass`.

**Publication.** Writers that run at the same time must draw different temporary names
(`DistinctNames`; the name holds the process number and a counter); a process started after
the crash may draw one from before it. `PublishInv` says that the temporary name of a
writer at work leads to its own file, that no such file is one the path leads to or could
lead to after a crash (`NameInv`), that what an entry leads to is complete and on disk
(`EntryInv`), that the version behind the path is that of the last to rename
(`DurableInv`), and that a file left over belongs to a writer at work or killed
(`LitterInv`). From it follow `PathStaysComplete`, `SuccessLasts`, `FailuresCleanUp` and,
by mapping the rename to the register's change, the refinement `PublicationIsAtomic`. The
hypothesis is needed: no call site opens its temporary file exclusively (`fopen "wb"`,
`NC_CLOBBER`, `H5F_ACC_TRUNC`), although `writer_helpers.hpp:50` says that a collision of
names "simply fails cleanly", so two writers of one name would publish a file that one of
them is still filling.

**The solve in the browser** (`BrowserSolve_proofs`). `Inv` is again a conjunction. `BatchInv` says, for
every callback, what the batch holds and whether it is being mapped, from which
`TravelsOnceAlways` can be read off. `HookInv` says that between the vacuum update and the end of the
suffix either a summary is pending or the factors exist: `PendingResolved`. The rest is about
the deferred commit. `Committed` is what the host will hold once the descent in flight has
arrived, and `CommitInv` that the pass in flight evaluates it and that the device handles
which survive lead to it, with the velocity that belongs to it. The invariant has to let go
when a maintenance reset overtakes a kept descent, which `OnlyMaintenanceOvertakes` allows;
`DueInv` shows that without a vacuum none does, since then only a bad Jacobian, whose descent
is discarded, can make one due: `FixedBoundaryCommits`, the property that the run
`browser_maintenance` refutes with a vacuum. `DescentMatches` and `PublishedMatch` follow from
`CommitInv` and `FieldsInv`. `DiscardInv` (a descent to be discarded has been rolled back
before it arrives) makes the refinement `PipelineIsSerial` go through; it needs no exception,
because the abstract state of an overtaken descent is that descent.

**A pass in the browser** (`BrowserPass_proofs`). `IInv` says of every point between two
callbacks where the state is. `CopiesInv` says which copy of it, the host's, the one the
transforms read or the one the update writes, is the one the next evaluation starts from,
and that the velocity belongs to it; `CachesInv`, that the handles of what was accepted lead
to buffers made from one oriented geometry; `CaseInv`, that the request in flight is made of
the caches the host still has; `EvaluatedInv`, what the readbacks of each mode hold then;
`AnswerInv`, `NewtonInv`, `VacuumInv` and `EntryInv`, what the host has accepted, what it has
to return to if a Newton trial fails, and what a vacuum update has changed since the pass
began. From it follow `CopiesAlwaysAgree`, `MomentumAlwaysFollows`,
`ProfilesAlwaysOfTheResult` and the refinement `PassKeepsThePromise`: whatever mode the host
asks for, and whatever an earlier pass, trial or grid has left in the shared buffers, the
answer it accepts is the one `Evaluation` promises. Its hardest step is the rejected trial. The
residual that is put back must be the one the buffers still hold, and the lemma
`RollbackRecovers` shows that the branch which reports an inconsistent rollback is never
taken.

**The containers** (`Containers_proofs`). The theorems are about any state, record, report
and layout, not about a reachable state of a run. `CheckpointIsRead` and `BinaryIsRead`
follow the reader field by field. The lemmas keep, for each point of a file, a table of what
has been read so far and say that every entry is what the file holds there (`Reads`,
`Known`); the work is to show that the reader and the writer agree on which field comes
next, for each version by itself, since types and free boundary come and go between
versions. A checkpoint may be any prefix of what was written: then the reader either gets to
its last field or gives up. The stages of a binary are read by a recursion over their number, and joined
by another. Both are functions, and a fact about every argument of one is proved by looking
at the least for which it fails (`WellFoundedInduction`). `NetcdfIsRead` and `Hdf5IsRead` are about
arrays found by name: which names a file has (`ArrayNames`), that no reader takes an array
with other dimensions, what it makes of one that is not there, and that offsets into the list of all restarts give
each stage its own again (`OffsetsReadBack`).

**Jobs** (`CommandLine_proofs`). `RunInv` holds the document a problem was read from and
the state on the checkpoint path together with what each has become. `InputInv` says that
the problem is the one `read_and_validate` made of the document consumed, whatever the path
holds by now; `FileInv`, that the checkpoint path holds the fields of a writer as far as
the copy of them got, or a file that does not begin as one; `OutcomeInv`, that the result
is one the containers can hold, and `NativeInv`, that the native binary is what the writer
made of such a result; `SeedInv`, that a restart holds the state of the file and has the
shape of the first grid. The work is in the lemmas. `ProblemsRead` shows that what is
accepted says what the document says, for arrays of any length; `ReadsBack`, that the
written form of a validated problem is read back as that problem, with no error;
`SolvedShaped`, that validation lets no problem through whose result a writer could not
describe (mpol from 2 to 16, ntor from 0 to 15, at least one grid); `ForeignReads`, that a
checkpoint reader accepts no file that begins differently. From these and the theorems
about the containers follow `SolvedIsWritten`, `WrittenSpecIsTheProblem`,
`RestartsFromOneFile`, `CheckpointReadsItsState` and `WhatIsReadIsWritten`, the theorem
about `ReadIsWritten` as a whole. `RunInv`, with sequences recognized by their domain, was
first checked by TLC on an instance that includes the one of the run `command_line`.

**Model-checked only.** Liveness (`RunTerminates`, `Terminates`): fairness and ENABLED are
out of the prover's reach. Every other property of a passing run is a theorem. The modules
declare no RECURSIVE operator: what the code does in a loop is a recursive function here.

## 5. Not modelled

* *Arithmetic of kernels and shaders.* Which buffers a kernel reads and writes, and under
  which guard, is modelled for every kernel of a pass; the numbers in them are not, nor is
  the Krylov recurrence. The same holds for the precision modes, prolongation, profiles and
  geometry coefficients: pure functions of fields.
* *Linearization* (`tangent_impl.cuh`, `linearization/`): the solver does not call it, and it keeps no
  state between calls.
* *Self-tests and reference functions of the WebGPU port* (a large part of
  `src/webgpu/*.cpp`): they recompute on the CPU what a shader returned. The operators
  beside them are modelled.
* *Stage arena.* Every carve of the arena happens in a constructor, before the first pass.
  The body that is run again after an overflow has by then only set values that it sets
  again to the same, so a model of the retry would be deterministic.
* *Capture coordination.* One process-wide mutex around captures and legacy-stream work: a
  model of it restates mutual exclusion.
* *JSON grammar* (`JsonParser.h`), *Boozer output* (an external library), *plotting,
  benchmarks and the browser interface*: no state of their own worth checking.

## 6. Plan

Done: controller, stage loop and recovery; vacuum coupling, native and resident; runs and
exit status; publication; graph replay; kernels of a pass; the browser's pipeline and its
operators; input, file formats and the command line; all their safety properties and
refinements proved. Next:

* What a correction, a pass and a stage prove of each other is joined by names only: a
  composition in which the decisions of `StageLoop` are taken on the answers of `Evaluation`
  would turn the two refinements of `Evaluation` into facts about a whole stage.
