------------------------------ MODULE Recovery ------------------------------
(* What the two recovery slabs of solver_run() promise, without slabs: one   *)
(* trusted state to fall back on, and at most one candidate to succeed it.   *)
(* ADR-0020 (src/docs/adr/0020-validate-recovery-checkpoints.md) states the  *)
(* policy: a refreshed checkpoint stays a candidate until the next pass has  *)
(* accepted it; a rejection drops the candidate and returns to the state     *)
(* trusted before it.                                                        *)
CONSTANTS
  State,         \* the states of the solver
  Good,          \* those a correction may land on
  NoState        \* no state: there is no candidate

VARIABLES
  current,       \* the state the solver works on
  still,         \* it carries no momentum
  trusted,       \* the state to fall back on
  candidate      \* the state nominated to be trusted next, or NoState

rvars == <<current, still, trusted, candidate>>

Init ==
  /\ current \in State
  /\ still = TRUE
  /\ trusted = current
  /\ candidate = NoState

(* Descend.                                                                  *)
Move ==
  /\ current' \in State /\ still' = FALSE
  /\ UNCHANGED <<trusted, candidate>>

(* Descend, and nominate the state reached.                                  *)
Nominate ==
  /\ candidate = NoState
  /\ current' \in State /\ still' = FALSE
  /\ candidate' = current'
  /\ UNCHANGED trusted

(* Replace a moving state by one already known to be good.                   *)
Correct ==
  /\ ~still
  /\ current' \in Good /\ still' = TRUE
  /\ UNCHANGED <<trusted, candidate>>

(* The nominated state passed its gates.                                     *)
Confirm ==
  /\ candidate # NoState
  /\ trusted' = candidate
  /\ candidate' = NoState
  /\ UNCHANGED <<current, still>>

(* Fall back; whatever was nominated since is dropped.                       *)
FallBack ==
  /\ current' = trusted /\ still' = TRUE
  /\ candidate' = NoState
  /\ UNCHANGED trusted

(* Stop on the candidate itself.                                             *)
Settle ==
  /\ current = candidate
  /\ still' = TRUE
  /\ UNCHANGED <<current, trusted, candidate>>

Next == Move \/ Nominate \/ Correct \/ Confirm \/ FallBack \/ Settle

Spec == Init /\ [][Next]_rvars
=============================================================================
