------------------------------ MODULE Sources -------------------------------
(* What a device buffer holds is named by what it was computed from: a       *)
(* spectral state, or a record of several things.  A kernel that reads       *)
(* buffers of one source writes that source; one that reads buffers of       *)
(* several has mixed them up.                                                *)

CONSTANT None       \* nothing has been written yet, or a zero

From(S) == IF \E x \in S : S = {x} THEN CHOOSE x \in S : TRUE ELSE [mixed |-> S]

(* `+=`: what is added a second time to an array that was not rewritten.     *)
Added(old, new) == IF old = None THEN new ELSE [twice |-> new]

(* `if (status->jacobian_valid == 0) return;`                                *)
Guarded(control, new, old) == IF control.valid THEN new ELSE old

(* `if (rec->status.invariant_nonfinite || ...invariant_converged) return;`  *)
Unless(terminal, new, old) == IF terminal THEN old ELSE new
=============================================================================
