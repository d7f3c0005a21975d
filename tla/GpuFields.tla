----------------------------- MODULE GpuFields ------------------------------
(* Geometry, magnetic field and forces of the browser solver.  No shader of  *)
(* it asks whether the Jacobian is valid: everything is computed, and the    *)
(* host decides afterwards whether to believe it.                            *)
EXTENDS GpuBuffers

CONSTANTS
  Oriented,           \* states whose Jacobian is valid
  EvolveCurrent       \* prescribed_current

-----------------------------------------------------------------------------
(* Half-grid geometry, Jacobian and metric.                                  *)
BaseGeometryPass(q) == Wrote(q, "base", q.gpu.inverse)

(* The record of the device's gate, or the two planes the host's gate reads; *)
(* all planes only where the host has a use for them.                        *)
GeometryReadback(q, readback) ==
  LET gated == Appended(q, "validity", q.gpu.base)
  IN  IF readback = "full" THEN Appended(gated, "base", q.gpu.base) ELSE gated

EnqueueBaseGeometry(q, readback) ==
  GeometryReadback(BaseGeometryPass(q), readback)

ValidJacobian(read) == read.validity \in Oriented

-----------------------------------------------------------------------------
FieldPass(gpu) ==
  [bsup |-> [of |-> From({gpu.inverse, gpu.base}), chi |-> None], bsub |-> None]

(* The flux that the current asks for, or that of the given profile.         *)
FinalizeCurrent(gpu, field) == From({field.bsup.of, gpu.base})

(* Added to B^theta in place; then the covariant components.                 *)
FinalizeFields(gpu, field) ==
  LET chip == FinalizeCurrent(gpu, field)
  IN  [bsup |-> [field.bsup EXCEPT !.chi = Added(@, chip)],
       bsub |-> From({field.bsup.of, chip, gpu.base})]

(* What a shader, or the host, that is given the whole field finds.          *)
WholeField(field) ==
  IF EvolveCurrent THEN From({field.bsup.of, field.bsup.chi, field.bsub})
  ELSE field.bsup.of

(* The flux profiles are always read; of the field, a resident pass that     *)
(* refreshes nothing only reads whether it is finite.                        *)
MagneticReadback(q, readback) ==
  LET profiles == Appended(q, "profiles", q.gpu.field.bsup.chi)
  IN  IF readback = "finite" THEN profiles
      ELSE Appended(profiles, "field", WholeField(q.gpu.field))

EnqueueMagneticField(q, readback) ==
  LET first == FieldPass(q.gpu)
      field == IF EvolveCurrent THEN FinalizeFields(q.gpu, first) ELSE first
  IN  MagneticReadback(Wrote(q, "field", field), readback)

-----------------------------------------------------------------------------
(* The force arrays are assigned.                                            *)
ForcePass(q) ==
  Wrote(q, "force",
    [mhd |-> From({q.gpu.inverse, q.gpu.base, WholeField(q.gpu.field)}),
     edge |-> None, constraint |-> None])

(* The boundary rows, where the host is to push them.                        *)
ForceReadback(q, rows) == IF rows THEN Appended(q, "force", q.gpu.force) ELSE q

EnqueueForce(q, rows) == ForceReadback(ForcePass(q), rows)

Pushed(force, pressure, on) ==
  [force EXCEPT !.edge = Added(@, [pressure |-> pressure, on |-> on])]

(* The vacuum pressure, on the device: in place, on the boundary rows.       *)
EnqueueVacuumForce(q, pressure) ==
  Wrote(q, "force",
    Pushed(q.gpu.force, pressure,
           From({q.gpu.inverse, WholeField(q.gpu.field)})))

(* Or on the host, from what was read, and back into the device's rows.      *)
ApplyVacuumForce(q, read, pressure) ==
  LET rows == Pushed(read.force, pressure, From({read.inverse, read.field}))
  IN  Wrote(q, "force", [q.gpu.force EXCEPT !.edge = rows.edge])
=============================================================================
