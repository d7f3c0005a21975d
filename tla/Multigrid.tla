------------------------------ MODULE Multigrid ------------------------------
(* One run of the program: MultigridSolver::run() solves a stage per grid,   *)
(* coarse to fine, EquilibriumSolver::solve() hands the finest on, and       *)
(* main() turns the outcome into files and an exit status.  The stages are   *)
(* those of StageLoop; the vacuum operator is built once and outlives them.  *)
EXTENDS StageLoop, Sequences

CONSTANTS
  Stages,        \* the number of grids
  Outputs        \* the files asked for, in the order main() writes them

ASSUME RunAssumption ==
  /\ Stages \in Nat \ {0}
  /\ Outputs \in Seq({"state", "checkpoint", "boozer"})

VARIABLES
  phase,         \* "solving", "output" or "exited"
  stage,         \* the grid being solved, from 1
  failedStage,   \* MultigridOutcome::failed_stage, 0 for none
  snapshot,      \* the state whose fields the output snapshot holds
  todo,          \* files still to be written
  outputOk,      \* output_ok
  written,       \* files in place under their final names
  exit           \* the exit status

run == <<phase, stage, failedStage, snapshot, todo, outputOk, written, exit>>

RunTypeOK ==
  /\ TypeOK
  /\ phase \in {"solving", "output", "exited"}
  /\ stage \in 1 .. Stages
  /\ failedStage \in 0 .. Stages
  /\ snapshot \in State \cup {NoState}
  /\ outputOk \in BOOLEAN
  /\ written \subseteq {"state", "checkpoint", "boozer"}
  /\ exit \in {"none", "success", "failure"}

(* The vacuum operator as its constructor leaves it; a hot start begins with *)
(* the pressure on.                                                          *)
NewVacuum ==
  {[NoVacuum EXCEPT !.state = s, !.nvacskip = n] :
      s \in {"OFF", "INITIALIZED"}, n \in 1 .. MaxVacSkip}

RunInit ==
  /\ Init
  /\ FreeBoundary => vac \in NewVacuum
  /\ phase = "solving" /\ stage = 1 /\ failedStage = 0
  /\ snapshot = NoState
  /\ todo = Outputs /\ outputOk = TRUE /\ written = {}
  /\ exit = "none"

(* One step of the solver on the current grid.                               *)
SolveStage ==
  /\ phase = "solving" /\ pc \notin Stopped
  /\ Next
  /\ UNCHANGED run

(* A CumesError out of a stage, or out of the capture of the output fields:  *)
(* the run is over, nothing has been written.                                *)
Abort ==
  /\ phase = "solving"
  /\ pc = "failed" \/ (pc = "done" /\ stage = Stages)
  /\ phase' = "exited" /\ exit' = "failure"
  /\ UNCHANGED <<vars, stage, failedStage, snapshot, todo, outputOk, written>>

(* The next grid: on_stage_end(), prolongation to a state nobody has checked *)
(* yet, on_stage_transition(), and a new solver_run().                       *)
Refine ==
  /\ phase = "solving" /\ pc = "done"
  /\ result.converged /\ stage < Stages
  /\ stage' = stage + 1
  /\ vac' = IF FreeBoundary THEN StageTransition(IterationEnd(vac)) ELSE vac
  /\ spectral' \in State /\ checkpoint' = spectral' /\ previous' \in State
  /\ pc' = "top" /\ iter' = 0 /\ ctl' = NewController
  /\ atRest' = TRUE /\ pending' = FALSE
  /\ sched' = NoSchedule /\ verdict' = "none" /\ evaluated' = spectral'
  /\ small' = FALSE
  /\ result' = [converged |-> FALSE, iterations |-> 0, residuals |-> FALSE]
  /\ passed' = {} /\ stale' = Caches /\ events' = 0 /\ maintained' = 0
  /\ softEpoch' = FALSE
  /\ UNCHANGED <<phase, failedStage, snapshot, todo, outputOk, written, exit>>

CaptureFields_Evaluated ==     \* mutant: the fields of the last evaluated state
  snapshot' = IF stage = Stages THEN evaluated ELSE snapshot

(* StageSolver::run() evaluates the geometry of the final state once more    *)
(* for the snapshot, on the finest grid only.                                *)
CaptureFields ==
  snapshot' = IF stage = Stages THEN spectral ELSE snapshot

(* With several grids, a stage that misses its tolerance fails the run.      *)
Failing == ~result.converged /\ Stages > 1

(* The last stage that runs: the finest, or one that fails the run.          *)
Return ==
  /\ phase = "solving" /\ pc = "done"
  /\ Failing \/ stage = Stages
  /\ CaptureFields
  /\ failedStage' = IF Failing THEN stage ELSE 0
  /\ vac' = IF FreeBoundary THEN IterationEnd(vac) ELSE vac
  /\ phase' = "output"
  /\ UNCHANGED <<pc, iter, ctl, sched, small, result, slabs, device, history,
                 stage, todo, outputOk, written, exit>>

(* main() writes the files one after the other and goes on after a failure.  *)
(* A write that fails may still have put the file in place: the directory    *)
(* that holds it could not be synchronized.                                  *)
Write ==
  /\ phase = "output" /\ failedStage = 0
  /\ todo # << >>
  /\ todo' = Tail(todo)
  /\ \/ written' = written \cup {Head(todo)} /\ UNCHANGED outputOk
     \/ outputOk' = FALSE /\ written' \in {written, written \cup {Head(todo)}}
  /\ UNCHANGED <<vars, phase, stage, failedStage, snapshot, exit>>

(* A failed stage returns before any output; otherwise the files decide with *)
(* the convergence of the last stage.                                        *)
Exit ==
  /\ phase = "output"
  /\ failedStage > 0 \/ todo = << >>
  /\ exit' = IF failedStage = 0 /\ outputOk /\ result.converged
             THEN "success" ELSE "failure"
  /\ phase' = "exited"
  /\ UNCHANGED <<vars, stage, failedStage, snapshot, todo, outputOk, written>>

Exited == phase = "exited" /\ UNCHANGED <<vars, run>>

RunNext ==
  \/ SolveStage \/ Abort \/ Refine \/ Return \/ Write \/ Exit \/ Exited

RunSpec == RunInit /\ [][RunNext]_<<vars, run>>

(* One thread; what it waits for is device work it has enqueued, or a file.  *)
FairRunSpec == RunSpec /\ WF_<<vars, run>>(RunNext)

-----------------------------------------------------------------------------
(* Every grid starts from a state that StageLoop starts from, whatever the   *)
(* stage before left in the vacuum operator: what holds of every stage there *)
(* holds of every stage of a run.                                            *)
StagesStartAsModelled == pc = "top" /\ iter = 0 => Init

(* Once the plasma has felt the vacuum pressure it goes on feeling it: no    *)
(* rollback and no refinement takes it back to an uncoupled evaluation.      *)
CouplingSurvives == [][ Coupled(vac) => Coupled(vac') ]_<<vars, run>>

(* A run that reports success has converged, and has published, under every  *)
(* requested name, the fields of the state it converged to; and that state   *)
(* passed the Jacobian gate.                                                 *)
SuccessIsValid ==
  exit = "success" =>
    /\ result.converged
    /\ written = {Outputs[i] : i \in DOMAIN Outputs}
    /\ snapshot = spectral /\ snapshot \in Oriented

(* No file ever holds a coarse state, nor, with several grids, one that      *)
(* missed its tolerance.                                                     *)
OnlyFinestIsWritten ==
  written # {} => stage = Stages /\ (Stages > 1 => result.converged)

(* Every run ends with an exit status.                                       *)
RunTerminates == <>(exit # "none")
=============================================================================
