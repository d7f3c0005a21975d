------------------------- MODULE ConstraintKernels --------------------------
(* The spectral condensation constraint, by the buffers its kernels read and *)
(* write.  `reference` is rCon0 and zCon0; they are reset to the boundary's  *)
(* profile, and in a free-boundary run they fade from pass to pass.          *)
EXTENDS Sources, Naturals

NoReference == [of |-> None, decays |-> 0]
NoConstraint == [eff |-> None, con |-> None]

Displaced(geometry) == From({geometry.rCon, geometry.zCon})

ResetReference(control, reference, geometry) ==
  Guarded(control, [of |-> Displaced(geometry), decays |-> 0], reference)

(* vacuum_->enqueue_rcon_decay() does not ask for the status.                *)
RconDecay(reference) == [reference EXCEPT !.decays = @ + 1]

(* The multiplier, with its last row; from the preconditioner's diagonal.    *)
ComputeTcon(control, tcon, geometry, precon) ==
  Guarded(control, From({geometry.r, geometry.z, precon.diagonal}), tcon)

EffectiveConstraint(control, gcon, geometry, reference) ==
  Guarded(control,
    [gcon EXCEPT !.eff = [geometry |-> From({Displaced(geometry), geometry.r,
                                             geometry.z}),
                          reference |-> reference]],
    gcon)

(* `brmn += (rCon - rCon0) gCon`, and frcon and fzcon, which are assigned.   *)
AddConstraint(control, forces, geometry, reference, gCon) ==
  LET added == [gCon |-> gCon, reference |-> reference,
                geometry |-> From({Displaced(geometry), geometry.r, geometry.z})]
  IN  Guarded(control,
        [forces EXCEPT !.constraint = Added(@, added), !.frcon = added], forces)
=============================================================================
