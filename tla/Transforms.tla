----------------------------- MODULE Transforms -----------------------------
(* The spectral transforms, by the buffers their kernels read and write.     *)
(* The toroidal backend keeps one pair of scratch arrays for both            *)
(* directions: the bins of a mode and, behind the last mode, a tail the      *)
(* inverse FFT sums up as well.  The axisymmetric one keeps nothing.         *)
EXTENDS Sources

NoScratch == [spectra |-> [bins |-> None, tails |-> None], zeta |-> None]

NewTransform(backend) ==
  [backend |-> backend, main |-> NoScratch, compact |-> NoScratch]

(* cufftExecZ2D and cufftExecD2Z.                                            *)
Synthesized(scratch) ==
  [scratch EXCEPT !.zeta = IF scratch.spectra.tails = None
                           THEN scratch.spectra.bins
                           ELSE From({scratch.spectra.bins,
                                      scratch.spectra.tails})]

Analyzed(scratch) ==
  [scratch EXCEPT !.spectra = [bins |-> scratch.zeta, tails |-> scratch.zeta]]

Packed_LeavesTails(scratch, coeff) ==  \* mutant: the tails are cleared once
  [scratch EXCEPT !.spectra.bins = coeff]

(* The forward transform fills the tails, so the inverse clears them.        *)
Packed(scratch, coeff) ==
  [scratch EXCEPT !.spectra = [bins |-> coeff, tails |-> None]]

-----------------------------------------------------------------------------
(* Inverse: state -> parity arrays of R, Z and lambda, rCon and zCon.        *)
Constraint == [r |-> "rCon", z |-> "zCon"]

InverseAccumulate(geometry, slots, zeta) ==
  IF slots = "lambda" THEN [geometry EXCEPT !.lambda = zeta]
  ELSE [geometry EXCEPT ![slots] = zeta, ![Constraint[slots]] = zeta]

ToroidalInverse(transform, geometry, coeff) ==
  LET main == Synthesized(Packed(transform.main, coeff))
      r == InverseAccumulate(geometry, "r", main.zeta)
      z == InverseAccumulate(r, "z", main.zeta)
  IN  [transform |-> [transform EXCEPT !.main = main],
       geometry |-> InverseAccumulate(z, "lambda", main.zeta)]

(* Directly from the coefficients; rCon and zCon by a kernel of their own.   *)
AxisymmetricInverse(geometry, coeff) ==
  [geometry EXCEPT !.r = coeff, !.z = coeff, !.lambda = coeff]

AxisymmetricRzCon(geometry, coeff) ==
  [geometry EXCEPT !.rCon = coeff, !.zCon = coeff]

EnqueueInverse(transform, geometry, coeff) ==
  IF transform.backend = "toroidal"
  THEN ToroidalInverse(transform, geometry, coeff)
  ELSE [transform |-> transform,
        geometry |-> AxisymmetricRzCon(AxisymmetricInverse(geometry, coeff),
                                       coeff)]

-----------------------------------------------------------------------------
(* The de-aliasing bandpass, gConEff -> gCon, for mpol > 2.  The multiplier  *)
(* scales what was analyzed, in place; the compact scratch is its own.       *)
DealiasAnalyze(scratch, gConEff) == Analyzed([scratch EXCEPT !.zeta = gConEff])

Multiplied(gConEff, tcon) ==
  IF gConEff = None THEN None ELSE [eff |-> gConEff, tcon |-> tcon]

DealiasCoeffPack(scratch, tcon) ==
  Packed(scratch, Multiplied(scratch.spectra.bins, tcon))

ToroidalDealias(transform, gConEff, tcon) ==
  LET packed == DealiasCoeffPack(DealiasAnalyze(transform.compact, gConEff), tcon)
      compact == Synthesized(packed)
  IN  [transform |-> [transform EXCEPT !.compact = compact], gCon |-> compact.zeta]

EnqueueDealias(transform, gConEff, tcon) ==
  IF transform.backend = "toroidal"
  THEN ToroidalDealias(transform, gConEff, tcon)
  ELSE [transform |-> transform, gCon |-> Multiplied(gConEff, tcon)]

-----------------------------------------------------------------------------
(* Forward: force arrays -> residual.  Every family is written, the rows of  *)
(* R and Z on the boundary with zeros unless the edge is to be pushed.       *)
ForwardReduce(scratch, forces) == Analyzed([scratch EXCEPT !.zeta = forces])

ForwardRecover(spectra, includeLcfs) ==
  [mhd |-> spectra.mhd,
   constraint |-> From({spectra.constraint, spectra.frcon}),
   edge |-> IF includeLcfs THEN spectra.edge ELSE None,
   odd |-> None, gauge |-> None, m1 |-> None, rz |-> None, lambda |-> None]

ToroidalForward(transform, forces, includeLcfs) ==
  LET main == ForwardReduce(transform.main, forces)
  IN  [transform |-> [transform EXCEPT !.main = main],
       residual |-> ForwardRecover(main.spectra.bins, includeLcfs)]

EnqueueForward(transform, forces, includeLcfs) ==
  IF transform.backend = "toroidal"
  THEN ToroidalForward(transform, forces, includeLcfs)
  ELSE [transform |-> transform, residual |-> ForwardRecover(forces, includeLcfs)]
=============================================================================
