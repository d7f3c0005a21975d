---------------------------- MODULE Evaluation ----------------------------
(* What the host may believe of the device.  It asks for the force residual  *)
(* of the stored state and reads one answer; the kernels, the order they run *)
(* in, their scratch buffers and the guards inside them are nobody's         *)
(* business.  A result names everything it was computed from.  The caches    *)
(* outlive an evaluation, and a geometry that folds over leaves them alone.  *)
EXTENDS Naturals

CONSTANTS
  States,       \* plasma states
  Oriented,     \* those with a valid Jacobian
  Terminal,     \* those whose residual ends or aborts the iteration
  Gauges,       \* whether the m = 1 force is zeroed
  None          \* no value

VARIABLES
  state,        \* the spectral state
  caches,       \* what later evaluations reuse
  answer        \* what the host knows of `state`

evars == <<state, caches, answer>>

Cached == Oriented \cup {None}

Init ==
  /\ state \in States
  /\ caches = [precon |-> None, tcon |-> None, factors |-> None,
               reference |-> [of |-> None, decays |-> 0], vacuum |-> None]
  /\ answer = [kind |-> "unknown"]

(* A refresh rebuilds the preconditioner, the constraint multiplier that is  *)
(* made from it and the residual's normalization, together and from one      *)
(* state.  The reference of the constraint is either set or faded.           *)
Rebuilt(refresh, reset) ==
  [caches EXCEPT
     !.precon = IF refresh THEN state ELSE @,
     !.tcon = IF refresh THEN state ELSE @,
     !.factors = IF refresh THEN state ELSE @,
     !.reference = IF reset THEN [of |-> state, decays |-> 0] ELSE @]

Faded(c, fade) ==
  IF fade THEN [c EXCEPT !.reference.decays = @ + 1] ELSE c

(* The pressure of the vacuum is that of this boundary and these currents.   *)
(* Only the factors of its solver may be older, and they are those of a      *)
(* boundary that was accepted.  A residual that ends the iteration need not  *)
(* be preconditioned.                                                        *)
Result(c, gauge, pushed, applied) ==
  [mhd |-> state,
   edge |-> IF pushed
            THEN [pressure |-> [boundary |-> state, currents |-> state,
                                factors |-> c.vacuum],
                  on |-> state]
            ELSE None,
   constraint |-> [gCon |-> [eff |-> [geometry |-> state,
                                      reference |-> c.reference],
                             tcon |-> c.tcon],
                   geometry |-> state, reference |-> c.reference],
   odd |-> "scaled",
   gauge |-> gauge,
   precon |-> IF applied THEN c.precon ELSE None]

Evaluate ==
  /\ state \in Oriented
  /\ \E refresh, reset, fade, full \in BOOLEAN :
       LET c == [Faded(Rebuilt(refresh, reset), fade)
                   EXCEPT !.vacuum = IF full THEN state ELSE @]
       IN  /\ caches' = c
           /\ {c.precon, c.tcon, c.factors} \subseteq Oriented
           /\ \E pushed, applied \in BOOLEAN, gauge \in Gauges :
                /\ pushed => c.vacuum \in Oriented
                /\ applied \/ state \in Terminal
                /\ answer' = [kind |-> "residual",
                              residual |-> Result(c, gauge, pushed, applied),
                              factors |-> c.factors]
  /\ UNCHANGED state

(* Of a folded geometry nothing is kept, with two exceptions: the reference  *)
(* fades, and the vacuum solver may be left with its factors.                *)
Refuse ==
  /\ state \notin Oriented
  /\ answer' = [kind |-> "refused"]
  /\ \E fade, full \in BOOLEAN :
       caches' = [Faded(caches, fade)
                    EXCEPT !.vacuum = IF full THEN state ELSE @]
  /\ UNCHANGED state

(* The state is replaced: a rollback, a probe of the Newton solver, a trial. *)
(* What replaces it is the controller's business.                            *)
Replace ==
  /\ state' \in States
  /\ answer' = [kind |-> "unknown"]
  /\ UNCHANGED caches

(* Descent consumes the preconditioned residual of the state it moves.       *)
Descend ==
  /\ answer.kind = "residual"
  /\ answer.residual.mhd = state /\ answer.residual.precon # None
  /\ state' \in States
  /\ answer' = [kind |-> "descended", from |-> state,
               along |-> answer.residual]
  /\ UNCHANGED caches

(* A soft restart of the vacuum rolls back first, and then descends along    *)
(* the residual of the state it has left.                                    *)
SoftRestart ==
  /\ answer.kind = "residual" /\ answer.residual.edge # None
  /\ state' \in States
  /\ answer' = [kind |-> "soft", residual |-> answer.residual]
  /\ UNCHANGED caches

DescendSoftly ==
  /\ answer.kind = "soft" /\ answer.residual.precon # None
  /\ state' \in States
  /\ answer' = [kind |-> "descended", from |-> state,
               along |-> answer.residual]
  /\ UNCHANGED caches

Next == Evaluate \/ Refuse \/ Replace \/ Descend \/ SoftRestart \/ DescendSoftly

Spec == Init /\ [][Next]_evars
=============================================================================
