---------------------------- MODULE ForceKernels ----------------------------
(* From the field to the residual that the host reads, by the buffers the    *)
(* kernels read and write.                                                   *)
EXTENDS FieldKernels

NoForces == [mhd |-> None, edge |-> None, constraint |-> None, frcon |-> None]

(* A(), B() and C() of the momentum balance are assigned, which drops what   *)
(* was added to them in the pass before.                                     *)
MhdForce(control, forces, geometry, field) ==
  Guarded(control,
    [forces EXCEPT !.mhd = From({Shape(geometry), geometry.metric, Whole(field)}),
                   !.edge = None, !.constraint = None],
    forces)

-----------------------------------------------------------------------------
(* The vacuum.  No kernel of it looks at the status.                         *)
SurfaceAverages(field) == field.bsub

LcfsRepack(state) == state

AxisExtract(geometry) == Shape(geometry)

(* The pressure outside, of one boundary and one pair of currents.  A full   *)
(* update factors the matrix anew, any other keeps the factors it has.       *)
HostUpdate(vacuum, repacked, axis, averages, full) ==
  LET boundary == From({repacked, axis})
  IN  [boundary |-> boundary, currents |-> averages,
       factors |-> IF full THEN boundary ELSE vacuum.factors]

Rbsq(vacuum, geometry, field) ==
  [pressure |-> vacuum, on |-> From({Shape(geometry), field.bsub})]

(* `armn += ...` on the outermost surface.                                   *)
EdgeForce(forces, rbsq) == [forces EXCEPT !.edge = Added(@, rbsq)]

-----------------------------------------------------------------------------
(* The normalization of the residual, on a refresh pass.                     *)
NormPartials(geometry, field) == From({geometry.metric, Whole(field)})

ForceNormReduce(control, psum) ==
  Guarded(control, [control EXCEPT !.partials = psum], control)

RzNorm(control, state) == Guarded(control, [control EXCEPT !.rz = state], control)

ForceNormFinalize(control) ==
  IF control.partials = None THEN control
  ELSE [control EXCEPT !.norms = From({control.partials, control.rz})]

ForceNorms(control, geometry, field, state) ==
  ForceNormFinalize(
    RzNorm(ForceNormReduce(control, NormPartials(geometry, field)), state))

-----------------------------------------------------------------------------
(* The residual slab, after the forward transform.                           *)
Scalxc(residual) == [residual EXCEPT !.odd = Added(@, "scaled")]

M1Constraint(residual, gauge) == [residual EXCEPT !.gauge = Added(@, gauge)]

ComputeResiduals(control, residual) == [control EXCEPT !.raw = residual.mhd]

CanClassify_Always(control, refresh) == TRUE  \* mutant: can_classify dropped

(* A refresh pass without force norms cannot be called converged.            *)
CanClassify(control, refresh) == refresh => control.partials # None

(* The device may call a residual that was measured converged or nonfinite,  *)
(* each for reasons of its own; one of forces that were never written may    *)
(* look like anything.                                                       *)
Verdicts(control, refresh, terminal) ==
  IF control.raw \in terminal \cup {None}
  THEN {v \in {"nonfinite", "converged"} :
          v = "converged" => CanClassify(control, refresh)}
  ELSE {"none"}

InvariantPredicate(control, refresh, factors, verdict) ==
  [control EXCEPT !.verdict = verdict,
                  !.used = IF refresh THEN control.norms ELSE factors]

PreconditionedResiduals(control) ==
  Unless(control.verdict # "none", [control EXCEPT !.evaluated = TRUE], control)
=============================================================================
