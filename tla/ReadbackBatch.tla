--------------------------- MODULE ReadbackBatch ---------------------------
(* cumes::webgpu::ReadbackBatch: one buffer through which every readback of  *)
(* a pass reaches the host behind a single mapping.  The object is a record  *)
(* and its methods are operators, as for the controller.                     *)
(*   slices    what has been copied and waits to be decoded, in order        *)
(*   mapping   MapAsync is in flight                                         *)
(*   error     an append was refused; the next completion reports it         *)
EXTENDS Naturals, Sequences

EmptyBatch == [slices |-> << >>, mapping |-> FALSE, error |-> FALSE]

(* append(): refused while a mapping is in flight.  The capacity is computed *)
(* from the stage for everything a pass reads back, so a slice fits.         *)
Appended(b, slice) ==
  IF b.mapping THEN [b EXCEPT !.error = TRUE]
  ELSE [b EXCEPT !.slices = Append(@, slice)]

(* map(): refused at once while a mapping is in flight, after a refused      *)
(* append, and when there is nothing to decode.                              *)
Refused(b) == b.mapping \/ b.error \/ b.slices = << >>

Mapped(b) == IF Refused(b) THEN b ELSE [b EXCEPT !.mapping = TRUE]

Completed_ClearsLast(b) ==    \* mutant: complete() runs before mapping_ = false
  [EmptyBatch EXCEPT !.mapping = TRUE]

(* The MapAsync callback: every slice is decoded, and the batch is reusable  *)
(* before complete() runs, which may start the next pass.                    *)
Completed(b) == EmptyBatch
=============================================================================
