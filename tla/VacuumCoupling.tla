--------------------------- MODULE VacuumCoupling ---------------------------
(* The host state machine of cumes::FreeBoundaryOperator, which ramps the    *)
(* vacuum pressure up through OFF, INITIALIZING, INITIALIZED and ACTIVE.     *)
(* As with the controller, the object is a record and its methods are        *)
(* operators.  What the solver of the vacuum field computes is external;     *)
(* here it answers whether its integrals agree with the plasma current.      *)
(*   run       the block gate of this pass                                   *)
(*   full      this pass rebuilds the factors (ivacskip = 0)                 *)
(*   soft      a soft restart is requested                                   *)
(*   edge      edge_gate, kept from the last vacuum update                   *)
(*   factors   has_factors                                                   *)
(*   nvacskip  the update cadence, which only ever grows                     *)
EXTENDS Integers

CONSTANT MaxVacSkip       \* the larger of 1/0.1 = 10 and the cadence asked for

ASSUME VacSkipAssumption == MaxVacSkip \in Nat \ {0}

VacuumStates == {"OFF", "INITIALIZING", "INITIALIZED", "ACTIVE"}

Vacuum ==
  [state : VacuumStates, run : BOOLEAN, full : BOOLEAN, soft : BOOLEAN,
   edge : BOOLEAN, factors : BOOLEAN, nvacskip : 1 .. MaxVacSkip]

Coupled(v) == v.state \in {"INITIALIZED", "ACTIVE"}

(* The state a stage starts from.  A cold run is OFF, a hot start and a      *)
(* refined stage are INITIALIZED; factors and cadence survive a refinement,  *)
(* and so do the gates of the last pass, which are set before they are read. *)
StageStartVacuum ==
  {v \in Vacuum :
     /\ v.state \in {"OFF", "INITIALIZED"}
     /\ ~v.soft
     /\ v.edge <=> v.state = "INITIALIZED" /\ v.factors}

(* A fixed-boundary stage has no vacuum operator; none of this is ever read. *)
NoVacuum ==
  [state |-> "OFF", run |-> FALSE, full |-> FALSE, soft |-> FALSE,
   edge |-> FALSE, factors |-> FALSE, nvacskip |-> 1]

(* The enumerators in order; the ramp increments the underlying integer.     *)
Successor ==
  [OFF |-> "INITIALIZING", INITIALIZING |-> "INITIALIZED",
   INITIALIZED |-> "ACTIVE", ACTIVE |-> "no enumerator"]

RunsBlock(v, iter2) == iter2 > 1 \/ v.state = "INITIALIZED"

Ramps(v, small) == v.state # "ACTIVE" /\ small

FullUpdate_NotAnchored(v, iter2, iter1, small) ==  \* mutant: counts from 0
  Ramps(v, small) \/ iter2 % v.nvacskip = 0 \/ ~v.factors

(* ivacskip counts from the restart anchor, so a restart is followed by a    *)
(* full update.                                                              *)
FullUpdate(v, iter2, iter1, small) ==
  Ramps(v, small) \/ (iter2 - iter1) % v.nvacskip = 0 \/ ~v.factors

(* advance(): the gates of this pass.  A full update may lengthen the        *)
(* cadence, by an amount that depends on the residual.                       *)
AdvancedVacuum(v, iter2, iter1, small) ==
  IF ~RunsBlock(v, iter2)
  THEN {[v EXCEPT !.run = FALSE, !.full = FALSE, !.soft = FALSE]}
  ELSE LET full == FullUpdate(v, iter2, iter1, small)
       IN  {[v EXCEPT !.run = TRUE, !.soft = FALSE, !.full = full,
                      !.state = IF Ramps(v, small) THEN Successor[@] ELSE @,
                      !.nvacskip = n] :
              n \in IF full THEN v.nvacskip .. MaxVacSkip ELSE {v.nvacskip}}

(* finish_host_update(): promotion, then the requests of this pass.          *)
Promoted(s) == IF s = "INITIALIZING" THEN "INITIALIZED" ELSE s

UpdatedVacuum_EdgeFirst(v) ==  \* mutant: the edge gate before the promotion
  LET s == Promoted(v.state)
  IN  [v EXCEPT !.state = s,
                !.factors = @ \/ v.full,
                !.soft = s = "INITIALIZED",
                !.edge = Coupled(v)]

UpdatedVacuum(v) ==
  LET s == Promoted(v.state)
  IN  [v EXCEPT !.state = s,
                !.factors = @ \/ v.full,
                !.soft = s = "INITIALIZED",
                !.edge = s \in {"INITIALIZED", "ACTIVE"}]

(* The consistency checks abort only a coupled update.                       *)
InconsistentUpdateThrows(v) == Promoted(v.state) # "OFF"

(* on_iteration_end(), which on_stage_end() repeats.                         *)
IterationEnd(v) ==
  IF v.state = "INITIALIZED" THEN [v EXCEPT !.state = "ACTIVE", !.soft = FALSE]
  ELSE v

StageTransition_Any(v) ==       \* mutant: without the ACTIVE test
  [v EXCEPT !.state = "INITIALIZED"]

StageTransition_Cold(v) ==      \* mutant: the refined stage starts over
  [v EXCEPT !.state = "OFF", !.edge = FALSE]

(* on_stage_transition(): the refined grid keeps the coarse vacuum field and *)
(* runs the block on its first pass.  The stages are strictly finer (the     *)
(* input is validated so), so the surface-count tests hold.                  *)
StageTransition(v) ==
  IF v.state = "ACTIVE" THEN [v EXCEPT !.state = "INITIALIZED"] ELSE v
=============================================================================
