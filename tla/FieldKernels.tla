---------------------------- MODULE FieldKernels ----------------------------
(* The kernels between the synthesized geometry and the magnetic field, by   *)
(* the buffers they read and write.                                          *)
EXTENDS Sources

CONSTANTS
  Oriented,           \* states whose Jacobian is valid
  EvolveCurrent       \* ncurr = 1: the current profile is given, not iota

NoGeometry == [axis |-> None, r |-> None, z |-> None, lambda |-> None,
               rCon |-> None, zCon |-> None, metric |-> None]

(* The axis row of the slab, copied from the first surface, because descent  *)
(* leaves it where it was.                                                   *)
ExtrapolateAxis(geometry, state) == [geometry EXCEPT !.axis = state]

(* What a kernel that reads the whole parity arrays finds.                   *)
Shape(geometry) == From({geometry.r, geometry.z})

NoField == [bsup |-> [of |-> None, chi |-> None], bsub |-> None,
            profiles |-> None, fullProfiles |-> None]

(* Half-grid interpolation, Jacobian and metric, valid or not.               *)
BaseGeometry(geometry) ==
  [geometry EXCEPT !.metric = Shape(geometry)]

(* Both stages of the reduction of sqrt(g).                                  *)
JacobianStats(control, geometry) == [control EXCEPT !.stats = geometry.metric]

JacobianFinalize(control) == [control EXCEPT !.valid = control.stats \in Oriented]

(* B from lambda and the metric.  With a given current the flux part of      *)
(* B^theta is still missing.                                                 *)
Covariant(bsup, geometry) ==
  From({bsup.of, geometry.metric}
         \cup (IF EvolveCurrent THEN {bsup.chi} ELSE {}))

MagneticField(control, field, geometry) ==
  LET bsup == [of |-> From({geometry.lambda, geometry.metric}), chi |-> None]
  IN  Guarded(control,
        [field EXCEPT !.bsup = bsup,
                      !.bsub = IF EvolveCurrent THEN @ ELSE Covariant(bsup, geometry)],
        field)

(* The surface average of that field gives the flux the current asks for,    *)
(* which is added to B^theta in place; the profiles are kept.                *)
NCurrFinalize(control, field, geometry) ==
  LET chip == From({field.bsup.of, geometry.metric})
      bsup == [field.bsup EXCEPT !.chi = Added(@, chip)]
  IN  Guarded(control,
        [field EXCEPT !.bsup = bsup, !.bsub = Covariant(bsup, geometry),
                      !.profiles = chip],
        field)

UpdateIotaChip(control, field) ==
  Guarded(control, [field EXCEPT !.fullProfiles = field.profiles], field)

(* update_iota_chi is always set when the current is given.                  *)
EnqueueMagneticField(control, field, geometry) ==
  LET b == MagneticField(control, field, geometry)
  IN  IF EvolveCurrent
      THEN UpdateIotaChip(control, NCurrFinalize(control, b, geometry))
      ELSE b

(* What a kernel that reads the whole field finds.                           *)
Whole(field) ==
  IF EvolveCurrent
  THEN From({field.bsup.of, field.bsup.chi, field.bsub})
  ELSE From({field.bsup.of, field.bsub})
=============================================================================
