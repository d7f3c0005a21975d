------------------------ MODULE RadialPreconditioner ------------------------
(* The preconditioner: how its elements are rebuilt from one geometry and    *)
(* field, and how they are applied, in place, to the residual.               *)
EXTENDS FieldKernels

NoPrecon == [half |-> None, offDiagonal |-> None, diagonal |-> None,
             matrix |-> None, scale |-> None, averages |-> None,
             lambda |-> None]

-----------------------------------------------------------------------------
(* enqueue_compute.  Every kernel of it asks whether the Jacobian is valid.  *)
PreconCompute(control, precon, geometry, field) ==
  Guarded(control,
    [precon EXCEPT !.half = From({geometry.r, geometry.z, geometry.metric,
                                  Whole(field)})],
    precon)

PreconAssemble(control, precon) ==
  Guarded(control, [precon EXCEPT !.offDiagonal = precon.half], precon)

PreconDiag(control, precon) ==
  Guarded(control, [precon EXCEPT !.diagonal = precon.half], precon)

TridiagAssembly(control, precon) ==
  Guarded(control,
    [precon EXCEPT !.matrix = From({precon.offDiagonal, precon.diagonal})], precon)

PreconScale(control, precon) ==
  Guarded(control, [precon EXCEPT !.scale = precon.matrix], precon)

LambdaPrecAssemble(control, precon, geometry) ==
  Guarded(control, [precon EXCEPT !.averages = geometry.metric], precon)

LambdaPrecFinalize_Unguarded(control, precon) ==  \* mutant: no status bit
  [precon EXCEPT !.lambda = None]

LambdaPrecFinalize(control, precon) ==
  Guarded(control, [precon EXCEPT !.lambda = precon.averages], precon)

EnqueueCompute(control, precon, geometry, field) ==
  LET half == PreconCompute(control, precon, geometry, field)
      diagonal == PreconDiag(control, PreconAssemble(control, half))
      matrix == PreconScale(control, TridiagAssembly(control, diagonal))
  IN  LambdaPrecFinalize(control, LambdaPrecAssemble(control, matrix, geometry))

-----------------------------------------------------------------------------
(* A terminal pass keeps the residual it was classified with.                *)
Terminated(control) == control.verdict # "none"

M1PreconScale(control, residual, precon) ==
  Unless(Terminated(control),
    [residual EXCEPT !.m1 = Added(@, precon.diagonal)], residual)

(* The radial solves of R and Z.                                             *)
PcrSolve(control, residual, precon) ==
  Unless(Terminated(control),
    [residual EXCEPT !.rz = Added(@, From({precon.matrix, precon.scale}))],
    residual)

(* Zeros below the first surface, and the lambda diagonal.                   *)
PreconBoundary_Ungated(control, residual, precon) ==  \* mutant: no gate
  [residual EXCEPT !.lambda = Added(@, precon.lambda)]

PreconBoundary(control, residual, precon) ==
  Unless(Terminated(control),
    [residual EXCEPT !.lambda = Added(@, precon.lambda)], residual)

EnqueueApply(control, residual, precon) ==
  PreconBoundary(control, PcrSolve(control, residual, precon), precon)

(* The one geometry these were made from, and the one residual that was met. *)
ElementsOf(precon) == From({precon[part] : part \in DOMAIN precon})

Preconditioned(residual) == From({residual.m1, residual.rz, residual.lambda})
=============================================================================
