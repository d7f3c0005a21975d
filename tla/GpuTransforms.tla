--------------------------- MODULE GpuTransforms ----------------------------
(* The spectral transforms of the browser solver, by what they find in the   *)
(* buffers and leave there.                                                  *)
EXTENDS GpuBuffers

-----------------------------------------------------------------------------
(* Inverse.  A state on the device keeps the axis row that descent left       *)
(* alone, and the shader extrapolates it; one from the host must come with   *)
(* its axis extrapolated.                                                    *)
HostCoefficients(state) ==
  IF state.axis THEN state.of ELSE [unextended |-> state.of]

InverseInput(gpu, handle, state) ==
  IF handle # NoHandle THEN gpu[handle].of ELSE HostCoefficients(state)

ToroidalStage(q, coeff) == Wrote(q, "spectra", coeff)

(* Parity arrays, R and Z on the constraint planes included: one buffer.     *)
PoloidalStage(q) == Wrote(q, "inverse", q.gpu.spectra)

(* All of it, the boundary and the axis for the vacuum, or only whether it   *)
(* is finite.                                                                *)
InverseReadback(q, readback) ==
  IF readback = "finite" THEN q ELSE Appended(q, "inverse", q.gpu.inverse)

EnqueueToroidalInverse(q, handle, state, readback) ==
  InverseReadback(PoloidalStage(ToroidalStage(q, InverseInput(q.gpu, handle, state))),
                  readback)

-----------------------------------------------------------------------------
(* Forward, of the forces or of the forces with the constraint added.  The   *)
(* boundary rows are zeros unless the edge is to be pushed.                  *)
ForwardToroidal(q, source) == Wrote(q, "forwardSpectra", q.gpu[source])

ForwardPoloidal(q, includeLcfs) ==
  LET spectra == q.gpu.forwardSpectra
  IN  Wrote(q, "residual",
        [mhd |-> spectra.mhd,
         edge |-> IF includeLcfs THEN spectra.edge ELSE None,
         constraint |-> spectra.constraint,
         odd |-> None, gauge |-> None, precon |-> None])

EnqueueToroidalForward(q, source, includeLcfs) ==
  ForwardPoloidal(ForwardToroidal(q, source), includeLcfs)

-----------------------------------------------------------------------------
(* The bandpass between the two halves of the constraint.  Its profile is    *)
(* copied from the head's buffer where that is on the device.                *)
Multiplier(head) == head.tcon

EnqueueToroidalDealias(q) ==
  LET head == q.gpu.head
  IN  Wrote(q, "filtered", [eff |-> head.eff, tcon |-> Multiplier(head)])
=============================================================================
