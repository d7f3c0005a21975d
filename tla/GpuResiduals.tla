---------------------------- MODULE GpuResiduals ----------------------------
(* From the residual to the step, in the browser solver: decomposition and   *)
(* norms, preconditioner, constraint and descent.                            *)
EXTENDS GpuTransforms, GpuFields, Naturals

-----------------------------------------------------------------------------
(* Odd modes are scaled; the m = 1 gauge is settled.                         *)
DecompositionPass(q, gauge) ==
  Wrote(q, "decomposed",
    [q.gpu.residual EXCEPT !.odd = Added(@, "scaled"),
                           !.gauge = Added(@, gauge)])

(* The host sums what it reads, or reads the device's three sums.            *)
DecompositionReadback(q, phase, values) ==
  IF values THEN Appended(q, phase, q.gpu.decomposed) ELSE q

EnqueueDecomposition(q, phase, gauge, values) ==
  DecompositionReadback(DecompositionPass(q, gauge), phase, values)

EnqueueResidualNorm(q, source, phase) ==
  Appended(Wrote(q, "norm", q.gpu[source]), phase, q.gpu[source])

-----------------------------------------------------------------------------
EnqueueElements(q) ==
  Wrote(q, "elements",
        From({q.gpu.inverse, q.gpu.base, WholeField(q.gpu.field)}))

EnqueueMatrix(q, elements) ==
  Wrote(q, "matrix", From({q.gpu[elements], q.gpu.base}))

(* The residual is copied and then solved for, every family of it; the host  *)
(* reads it with a count of breakdowns.                                      *)
ApplyPass(q, elements, matrix) ==
  LET precon == From({q.gpu[elements], q.gpu[matrix]})
  IN  Wrote(q, "applied", [q.gpu.decomposed EXCEPT !.precon = Added(@, precon)])

EnqueueApply(q, elements, matrix) ==
  LET solved == ApplyPass(q, elements, matrix)
  IN  Appended(solved, "applied", solved.gpu.applied)

-----------------------------------------------------------------------------
(* The constraint.  The planes of the reference come from the device where   *)
(* there is a handle.                                                        *)
NoReference == [of |-> None, decays |-> 0]

ReferencePlanes(gpu, in) == Transferred(gpu, in.deviceReference, in.reference)

(* `decay_vacuum_reference`, on the host.                                    *)
DecayVacuumReference(reference) == [reference EXCEPT !.decays = @ + 1]

HeadPass(q, in, elements) ==
  LET reference == IF in.reset THEN [of |-> q.gpu.inverse, decays |-> 0]
                   ELSE ReferencePlanes(q.gpu, in)
      tcon == IF in.refresh THEN From({q.gpu.inverse, q.gpu[elements]})
              ELSE in.tcon
  IN  Wrote(q, "head",
        [eff |-> [geometry |-> q.gpu.inverse, reference |-> reference],
         reference |-> reference, tcon |-> tcon])

(* The profile is always read; the planes only where they are kept on the    *)
(* host, which is where a device handle does not exist.                      *)
HeadReadback(q, readback) ==
  LET profile == Appended(q, "tcon", q.gpu.head.tcon)
  IN  IF readback = "finite" THEN profile
      ELSE Appended(profile, "reference", q.gpu.head.reference)

ConstraintHead(q, in, elements) ==
  HeadReadback(HeadPass(q, in, elements), in.readback)

(* A buffer of its own: the forces and what the constraint adds to them.     *)
ConstraintTail(q) ==
  Wrote(q, "constrained",
    [q.gpu.force EXCEPT
       !.constraint = Added(@, [gCon |-> q.gpu.filtered,
                                geometry |-> q.gpu.inverse,
                                reference |-> q.gpu.head.reference])])

EnqueueConstraint(q, in, elements) ==
  ConstraintTail(EnqueueToroidalDealias(ConstraintHead(q, in, elements)))

-----------------------------------------------------------------------------
(* Descent moves the state, and the velocity with it; both are read from the *)
(* device where there is a handle.  The residual stays on the device.        *)
DescentInput(gpu, state, velocity, host) ==
  [state |-> Transferred(gpu, state, host.state).of,
   velocity |-> Transferred(gpu, velocity, host.velocity)]

DescentPass(q, moved) ==
  Wrote(Wrote(q, "descentState", [of |-> moved, axis |-> FALSE]),
        "descentVelocity", moved)

(* The state travels with the next map; of the velocity, only whether it is  *)
(* finite.                                                                   *)
DescentReadback(q) == Appended(q, "moved", q.gpu.descentState.of)

EnqueueDescent(q, moved) == DescentReadback(DescentPass(q, moved))
=============================================================================
