----------------------------- MODULE GpuBuffers -----------------------------
(* An operator of the browser solver finds its buffers by label: one         *)
(* allocation per label and shape, kept for the page's life, whose contents  *)
(* the next dispatch overwrites.  A field handle is such an allocation and   *)
(* keeps no contents.  What a command queue has done so far is what it left  *)
(* in the buffers and what it has read back; a readback is a snapshot, taken *)
(* at its place in the queue.                                                *)
EXTENDS Sources

CONSTANT NoHandle       \* an empty DeviceFields

Inverse == {"spectra", "inverse"}
Fields == {"base", "field", "force"}
Projections == {"forwardSpectra", "residual", "decomposed", "norm"}
Constraints == {"head", "filtered", "constrained"}
Preconditioners == {"elements", "matrix", "applied"}
Descents == {"descentState", "descentVelocity"}
Snapshots == {"acceptedElements", "acceptedMatrix", "acceptedReference"}
Corrections == {"newtonInput", "newtonBase", "newtonRhs", "newtonTrial"}

Labels ==
  UNION {Inverse, Fields, Projections, Constraints, Preconditioners, Descents,
         Snapshots, Corrections}

Readbacks == {"inverse", "validity", "base", "profiles", "field", "force",
              "projection", "invariant", "tcon", "reference", "applied",
              "moved"}

NoBuffers == [label \in Labels |-> None]

Queue(gpu) == [gpu |-> gpu, read |-> [name \in Readbacks |-> None]]

Wrote(q, label, content) == [q EXCEPT !.gpu[label] = content]

(* ReadbackBatch::append(), after everything submitted so far.               *)
Appended(q, name, content) == [q EXCEPT !.read[name] = content]

(* transfer_fields(): from the device where there is a handle, and then with *)
(* what its allocation holds by now; from the host where there is none.      *)
Transferred(gpu, handle, host) == IF handle = NoHandle THEN host ELSE gpu[handle]

Captured_Aliases(gpu, source, label) ==   \* mutant: the handle is kept
  [gpu |-> gpu, handle |-> source]

(* FieldSnapshot::capture().                                                 *)
Captured(gpu, source, label) ==
  IF source = NoHandle THEN [gpu |-> gpu, handle |-> NoHandle]
  ELSE [gpu |-> [gpu EXCEPT ![label] = gpu[source]], handle |-> label]
=============================================================================
