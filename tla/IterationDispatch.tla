------------------------- MODULE IterationDispatch --------------------------
(* One evaluation as the browser submits it: every operator's commands go    *)
(* into the queue in one synchronous cascade of callbacks, each with the     *)
(* handles the one before has left, and a single map reads everything back.  *)
EXTENDS GpuResiduals

(* A case names what is read from the host and what from the device:         *)
(*   state, device             the spectral state, or a handle to it         *)
(*   reference, deviceReference, tcon, elements, matrix    what was accepted *)
(*   refresh, reset, gauge, lcfs, readback, rows           what is to be done *)
Compact(in) == IF in.refresh THEN "full" ELSE in.readback

Start(q, in) == EnqueueToroidalInverse(q, in.device, in.state, in.readback)

Geometry(q, in) == EnqueueBaseGeometry(q, Compact(in))

Magnetic(q, in) == EnqueueMagneticField(q, Compact(in))

(* enqueue_iteration_prefix() ends with the forces.                          *)
Prefix(q, in) == EnqueueForce(Magnetic(Geometry(Start(q, in), in), in), in.rows)

ForwardPhase(q, in, source) == EnqueueToroidalForward(q, source, in.lcfs)

(* Free-boundary norms retain the host's order of summation.                 *)
HostNorms(in) == in.readback = "slices"

Norm(q, in, source, phase) ==
  IF HostNorms(in) THEN q ELSE EnqueueResidualNorm(q, source, phase)

(* The unconstrained forces are measured in the fixed gauge.                 *)
ForcePhase(q, in) ==
  LET decomposed == EnqueueDecomposition(ForwardPhase(q, in, "force"),
                                         "projection", "fixed", HostNorms(in))
  IN  Norm(decomposed, in, "decomposed", "projection")

(* The cached elements are handles to what was accepted.                     *)
Elements(in) == IF in.refresh THEN "elements" ELSE in.elements
Matrix(in) == IF in.refresh THEN "matrix" ELSE in.matrix

Preconditioner(q, in) ==
  IF in.refresh THEN EnqueueMatrix(EnqueueElements(q), "elements") ELSE q

ConstraintPhase(q, in) ==
  LET constrained == EnqueueConstraint(q, in, Elements(in))
      decomposed == EnqueueDecomposition(
                      ForwardPhase(constrained, in, "constrained"),
                      "invariant", in.gauge, HostNorms(in))
  IN  Norm(decomposed, in, "decomposed", "invariant")

ApplyPhase(q, in) ==
  Norm(EnqueueApply(q, Elements(in), Matrix(in)), in, "applied", "applied")

(* resume() starts here, with the forces as the vacuum has left them.        *)
Suffix(q, in) ==
  ApplyPhase(ConstraintPhase(Preconditioner(ForcePhase(q, in), in), in), in)

EnqueueIteration(q, in) == Suffix(Prefix(q, in), in)

-----------------------------------------------------------------------------
(* The device's side of a Newton step.  A probe is a whole evaluation of a   *)
(* displaced state; it runs through the scratch buffers of the iteration and *)
(* leaves them as they are.  Only the base and the right-hand side are       *)
(* copies.                                                                   *)
Probed(in) == [in EXCEPT !.refresh = FALSE, !.reset = FALSE]

(* The base, and the residual that is to be reduced.                         *)
PrepareNewton(q, base, preconditioned) ==
  Wrote(Wrote(q, "newtonBase", q.gpu[base]), "newtonRhs", q.gpu[preconditioned])

(* Base plus a direction; one buffer for probes and trials.                  *)
DisplacedTrial(q, s) == Wrote(q, "newtonTrial", [of |-> s, axis |-> FALSE])

EvaluateAt(q, frozen, handle) ==
  EnqueueIteration(q, [frozen EXCEPT !.device = handle])

(* One product; the solver asks for many, without giving up the thread, and  *)
(* the last of them is what the scratch is left with.                        *)
JacobianVector(q, frozen, s) ==
  EvaluateAt(DisplacedTrial(q, s), frozen, "newtonTrial")
=============================================================================
