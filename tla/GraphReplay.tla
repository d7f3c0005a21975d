---------------------------- MODULE GraphReplay ----------------------------
(* The graphs solver_run() caches in a fixed-boundary stage.  A pass is      *)
(* captured the first time its schedule has a given shape and replayed       *)
(* afterwards.  The capture freezes the kernel arguments, the force-norm     *)
(* factors of the host among them; a refresh pass does not look at these: it *)
(* computes its own into the device record.  A free-boundary stage, a dump,  *)
(* the default stream and CUMES_DISABLE_CUDA_GRAPHS enqueue every pass       *)
(* afresh.                                                                   *)
EXTENDS Integers

CONSTANTS
  RefreshInterval,  \* PRECONDITIONER_REFRESH_INTERVAL
  Shapes,       \* schedules, but for the refresh bit
  Factors,      \* values of the force-norm factors
  Unset         \* the zeros they start with

ASSUME FactorsAssumption ==
  /\ RefreshInterval \in Nat \ {0}
  /\ Unset \in Factors
  /\ "empty" \notin Factors

VARIABLES
  host,           \* fNormRZ, fNormL
  refreshGraphs,  \* the shapes whose refresh pass has been captured
  normGraphs,     \* the factors frozen in the graph of each shape
  record,         \* the factors in the device record
  used,           \* the factors the device classified the last pass with
  refreshing,     \* the pass refreshes the preconditioner
  valid,          \* its Jacobian is
  converged,      \* the device calls it converged
  age,            \* iterations since the anchor, modulo the cadence
  pc

pass == <<record, used, refreshing, valid, converged>>
vars == <<host, refreshGraphs, normGraphs, pass, age, pc>>

Empty == "empty"
NoGraphs == [s \in Shapes |-> Empty]
Ages == 0 .. RefreshInterval - 1

TypeOK ==
  /\ host \in Factors /\ record \in Factors /\ used \in Factors
  /\ refreshGraphs \subseteq Shapes
  /\ normGraphs \in [Shapes -> Factors \cup {Empty}]
  /\ refreshing \in BOOLEAN /\ valid \in BOOLEAN /\ converged \in BOOLEAN
  /\ age \in Ages
  /\ pc \in {"top", "fence"}

Init ==
  /\ host = Unset /\ record = Unset /\ used = Unset
  /\ refreshGraphs = {} /\ normGraphs = NoGraphs
  /\ refreshing = FALSE /\ valid = FALSE /\ converged = FALSE
  /\ age = 0 /\ pc = "top"

(* A maintenance reset moves the anchor before the pass is scheduled.        *)
MaintenanceReset ==
  /\ pc = "top"
  /\ age' = 0
  /\ UNCHANGED <<host, refreshGraphs, normGraphs, pass, pc>>

(* The terminal predicate: without factors it classifies nothing.            *)
Classify(evaluated) == converged' \in BOOLEAN /\ (converged' => evaluated)

(* The record is zeroed at the start of a pass.  A refresh pass stores its   *)
(* factors there, if its geometry has any, before the predicate reads them.  *)
ReplayRefresh(s) ==
  /\ pc = "top" /\ age = 0
  /\ refreshGraphs' = refreshGraphs \cup {s}
  /\ valid' \in BOOLEAN
  /\ IF valid' THEN record' \in Factors \ {Unset} ELSE record' = Unset
  /\ used' = record'
  /\ Classify(valid')
  /\ refreshing' = TRUE /\ pc' = "fence"
  /\ UNCHANGED <<host, normGraphs, age>>

(* capture(), unless the shape has a graph.                                  *)
Captured(s) ==
  IF normGraphs[s] = Empty THEN [normGraphs EXCEPT ![s] = host] ELSE normGraphs

ReplayNorm(s) ==
  /\ pc = "top" /\ age # 0
  /\ normGraphs' = Captured(s)
  /\ used' = normGraphs'[s] /\ record' = Unset
  /\ valid' \in BOOLEAN
  /\ Classify(TRUE)
  /\ refreshing' = FALSE /\ pc' = "fence"
  /\ UNCHANGED <<host, refreshGraphs, age>>

(* Newton's trials, and the restore after them, are enqueued directly: an    *)
(* accepted trial may have converged, a restored pass had not.               *)
Correct ==
  /\ pc = "fence" /\ ~refreshing /\ valid /\ ~converged
  /\ used' = host
  /\ Classify(TRUE)
  /\ UNCHANGED <<host, refreshGraphs, normGraphs, record, refreshing, valid, age, pc>>

(* A pass with a bad Jacobian is dropped before its factors are looked at.   *)
Reject ==
  /\ pc = "fence" /\ ~valid /\ pc' = "top"
  /\ age' = 0
  /\ UNCHANGED <<host, refreshGraphs, normGraphs, pass>>

Accept_KeepsGraphs ==        \* mutant: the frozen factors outlive the refresh
  /\ pc = "fence" /\ valid /\ pc' = "top"
  /\ host' = IF refreshing THEN record ELSE host
  /\ age' \in {0, (age + 1) % RefreshInterval}
  /\ UNCHANGED <<refreshGraphs, normGraphs, pass>>

(* The host adopts the factors of a refresh pass and drops the graphs that   *)
(* froze older ones.  Then it decides: the pass descends, or the controller  *)
(* rejects it and moves the anchor.                                          *)
Accept ==
  /\ pc = "fence" /\ valid /\ pc' = "top"
  /\ host' = IF refreshing THEN record ELSE host
  /\ normGraphs' = IF refreshing THEN NoGraphs ELSE normGraphs
  /\ age' \in {0, (age + 1) % RefreshInterval}
  /\ UNCHANGED <<refreshGraphs, pass>>

Next ==
  \/ MaintenanceReset \/ Correct \/ Reject \/ Accept
  \/ \E s \in Shapes : ReplayRefresh(s) \/ ReplayNorm(s)

Spec == Init /\ [][Next]_vars

-----------------------------------------------------------------------------
(* The device never calls a pass converged with the zeros the factors start  *)
(* from, which make any residual small: however many of the first passes are *)
(* rejected, none runs without a refresh until a refresh has succeeded.      *)
ConvergedIsMeasured == pc = "fence" /\ converged => used # Unset

(* "The host decision and the device converged bit share bit-identical       *)
(* inputs" (solver_impl.cuh:1607): whatever is replayed, a pass is decided   *)
(* with the factors the device classified it with.                           *)
D == INSTANCE PassFactors

PassFactorsSpec == D!Spec
=============================================================================
