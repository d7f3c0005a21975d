--------------------------- MODULE ResidentVacuum ---------------------------
(* The vacuum operator when its solver is the WebGPU one and its result      *)
(* stays on the device: the host promotes the state and opens the gates at   *)
(* once, and looks at the integrals and validity flags only when the suffix  *)
(* of the pass has been read back.                                           *)
EXTENDS VacuumCoupling

(* run_host_update() with gpu_resident_result: gpu_pending is set by the     *)
(* caller's step; has_factors waits for the summary.                         *)
ResidentUpdate(v) ==
  LET s == Promoted(v.state)
  IN  [v EXCEPT !.state = s,
                !.soft = s = "INITIALIZED",
                !.edge = s \in {"INITIALIZED", "ACTIVE"}]

(* finish_webgpu_update(): the checks of the host path, on the summary.      *)
FinishedUpdate(v) == UpdatedVacuum(v)

(* Either way out of a pending update that failed or was given up: a full    *)
(* update has overwritten the factors, so they are not to be reused.         *)
CancelledUpdate(v) == IF v.full THEN [v EXCEPT !.factors = FALSE] ELSE v
=============================================================================
