------------------------- MODULE BrowserSolve_proofs ------------------------
(* Proofs about a solve in the browser, for every set of states, every cap,  *)
(* number of grids and kind of problem: the one batch carries every descent  *)
(* once, no pending vacuum result is forgotten, and what is judged, descended*)
(* from and published belongs together, although commits are deferred.       *)
EXTENDS BrowserSolve, Methods_proofs, FiniteSetTheorems

-----------------------------------------------------------------------------
(* Type correctness.                                                         *)
Maybe == State \cup {NoState}

TypeOK ==
  /\ problem \in Problems
  /\ pc \in {"run", "descend", "complete"} \cup Waiting \cup Consuming
              \cup Stopped
  /\ ctl \in Controller
  /\ vac \in Vacuum
  /\ hook \in [resident : BOOLEAN, pending : BOOLEAN, finish : BOOLEAN]
  /\ host \in State /\ checkpoint \in State /\ deferred \in Maybe
  /\ velocity \in {"zero", "none"}
  /\ dev \in [iteration : Maybe, descent : Maybe, velocity : BOOLEAN]
  /\ decision \in [refresh : BOOLEAN, keep : BOOLEAN]
  /\ scratch \in State /\ evaluated \in State /\ fields \in Maybe
  /\ softened \in BOOLEAN /\ overtaken \in BOOLEAN

(* The methods of the resident vacuum operator return well-formed values.   *)
LEMMA ResidentTypes ==
  ASSUME NEW v \in Vacuum
  PROVE  /\ ResidentUpdate(v) \in Vacuum
         /\ FinishedUpdate(v) \in Vacuum
         /\ CancelledUpdate(v) \in Vacuum
         /\ StageTransition(v) \in Vacuum
<1> DEFINE s == Promoted(v.state)
<1>1. s \in VacuumStates
  BY DEF Promoted, Vacuum, VacuumStates
<1>2. /\ (s = "INITIALIZED") \in BOOLEAN
      /\ (s \in {"INITIALIZED", "ACTIVE"}) \in BOOLEAN
  OBVIOUS
<1>3. ResidentUpdate(v) \in Vacuum
  <2> HIDE DEF s
  <2> QED
    BY <1>1, <1>2 DEF ResidentUpdate, Vacuum, s
<1>4. CancelledUpdate(v) \in Vacuum /\ StageTransition(v) \in Vacuum
  BY DEF CancelledUpdate, StageTransition, Vacuum, VacuumStates
<1> QED
  BY <1>3, <1>4, UpdateTypes DEF FinishedUpdate

LEMMA TypeInit == Init => TypeOK
<1> SUFFICES ASSUME Init PROVE TypeOK
  OBVIOUS
<1>1. ctl \in Controller
  BY DEF Init, NewController, Controller, Steps, Baselines
<1>2. vac \in Vacuum
  <2>1. PICK n \in 1 .. MaxVacSkip : vac = [NoVacuum EXCEPT !.nvacskip = n]
    <3>1. 1 \in 1 .. MaxVacSkip /\ NoVacuum = [NoVacuum EXCEPT !.nvacskip = 1]
      BY VacSkipAssumption DEF NoVacuum
    <3> QED
      BY <3>1 DEF Init
  <2> QED
    BY <2>1, VacSkipAssumption DEF NoVacuum, Vacuum, VacuumStates
<1>3. hook \in [resident : BOOLEAN, pending : BOOLEAN, finish : BOOLEAN]
  <2>1. FreeBoundary \in BOOLEAN
    BY BrowserAssumption DEF Init, FreeBoundary
  <2>2. {FreeBoundary, FALSE} \subseteq BOOLEAN
    BY <2>1
  <2>3. hook \in [resident : {FreeBoundary, FALSE}, pending : {FALSE},
                  finish : {FALSE}]
    BY DEF Init
  <2> QED
    BY <2>2, <2>3
<1> QED
  BY <1>1, <1>2, <1>3 DEF Init, TypeOK, Cleared, NoDecision, Maybe

(* The host's side of a commit and of a restore.                             *)
StatesOK ==
  /\ host \in State /\ checkpoint \in State /\ deferred \in Maybe
  /\ velocity \in {"zero", "none"}
  /\ dev \in [iteration : Maybe, descent : Maybe, velocity : BOOLEAN]

LEMMA ClearedType ==
  Cleared \in [iteration : Maybe, descent : Maybe, velocity : BOOLEAN]
BY DEF Cleared, Maybe

LEMMA CommitTypes == StatesOK /\ CommitAny => StatesOK'
BY ClearedType DEF StatesOK, CommitAny, Commit, states, Maybe

LEMMA RestoreTypes ==
  StatesOK /\ Restore /\ checkpoint' = checkpoint /\ deferred' \in Maybe
    => StatesOK'
BY ClearedType DEF StatesOK, Restore

ResultsOK ==
  /\ scratch \in State /\ evaluated \in State /\ fields \in Maybe

LEMMA TypeParts ==
  TypeOK <=> /\ problem \in Problems
             /\ pc \in {"run", "descend", "complete"} \cup Waiting
                        \cup Consuming \cup Stopped
             /\ ctl \in Controller
             /\ vac \in Vacuum
             /\ hook \in [resident : BOOLEAN, pending : BOOLEAN,
                          finish : BOOLEAN]
             /\ StatesOK
             /\ decision \in [refresh : BOOLEAN, keep : BOOLEAN]
             /\ ResultsOK
             /\ softened \in BOOLEAN /\ overtaken \in BOOLEAN
BY DEF TypeOK, StatesOK, ResultsOK

(* A flush is asked for only while a descent is in flight.                   *)
FlushInv == pc = "flush" => deferred # NoState

(* One case per group of actions that disturb the same conjuncts.            *)
LEMMA TypeStep ==
  ASSUME TypeOK, FlushInv, [Next]_vars
  PROVE  TypeOK'
<1> DEFINE
      Places == {"run", "descend", "complete"} \cup Waiting \cup Consuming
                  \cup Stopped
      Hook == [resident : BOOLEAN, pending : BOOLEAN, finish : BOOLEAN]
      Decision == [refresh : BOOLEAN, keep : BOOLEAN]
<1>0. /\ problem \in Problems /\ pc \in Places /\ ctl \in Controller
      /\ vac \in Vacuum /\ hook \in Hook /\ StatesOK
      /\ decision \in Decision /\ ResultsOK
      /\ softened \in BOOLEAN /\ overtaken \in BOOLEAN
  BY TypeParts
<1>a. ASSUME problem' = problem, pc' \in Places, ctl' \in Controller,
             vac' \in Vacuum, hook' \in Hook, StatesOK', decision' \in Decision,
             ResultsOK', softened' \in BOOLEAN, overtaken' \in BOOLEAN
      PROVE  TypeOK'
  BY <1>0, <1>a DEF TypeOK, StatesOK, ResultsOK
<1>b. \A s : s \in {"run", "descend", "complete", "done", "failed"}
                      \cup Waiting \cup Consuming => s \in Places
  BY DEF Stopped
<1>c. UNCHANGED states => StatesOK'
  BY <1>0 DEF states, StatesOK
<1>d. UNCHANGED results => ResultsOK'
  BY <1>0 DEF results, ResultsOK
<1> HIDE DEF Places, Hook, Decision
<1>1. CASE FlushDeferred \/ Exhaust \/ GeometryFallback \/ AcceptGeometry
             \/ BeginNewton \/ Continue \/ ReadFields \/ Publish \/ Prolong
             \/ Fail \/ VacuumThrows \/ ConsumeTail
  <2>1. /\ UNCHANGED <<problem, ctl, decision, vacuum, states, results,
                       softened, overtaken>>
        /\ pc' \in {"run", "descend", "complete", "done", "failed"}
                     \cup Waiting \cup Consuming
    BY <1>1 DEF FlushDeferred, Exhaust, GeometryFallback, AcceptGeometry,
                BeginNewton, Continue, ReadFields, Publish, Prolong, Fail,
                VacuumThrows, ConsumeTail, control, history, Waiting, Consuming,
                Stopped
  <2> QED
    BY <1>0, <1>a, <1>b, <1>c, <1>d, <2>1 DEF vacuum
<1>2. CASE FlushArrives \/ PassArrives
  <2>1. /\ UNCHANGED <<problem, control, vacuum, history>>
        /\ pc' \in {"run", "accept"}
        /\ CommitAny
        /\ ResultsOK'
    BY <1>0, <1>2 DEF FlushArrives, PassArrives, CommitAny, FlushInv, ResultsOK,
                      results, Maybe
  <2> QED
    BY <1>0, <1>a, <1>b, <2>1, CommitTypes DEF vacuum, control, history,
                                               Consuming
<1>3. CASE Maintenance \/ RejectGeometry \/ RecoverNonfinite \/ SoftRestart
  <2>1. /\ UNCHANGED <<problem, decision, vacuum, checkpoint, deferred, results>>
        /\ Restore
        /\ pc' \in {pc, "run", "classify"}
        /\ ctl' \in {MaintenanceReset(ctl), Rejected(ctl), VacuumSoftRestart(ctl)}
        /\ softened' \in BOOLEAN
    BY <1>0, <1>3 DEF Maintenance, RejectGeometry, RecoverNonfinite, SoftRestart
  <2>2. overtaken' \in BOOLEAN
    BY <1>0, <1>3 DEF Maintenance, RejectGeometry, RecoverNonfinite,
                      SoftRestart, Kept, StatesOK
  <2>3. StatesOK'
    BY <1>0, <2>1, RestoreTypes DEF StatesOK
  <2>4. ctl' \in Controller
    BY <1>0, <2>1, ControllerMethods
  <2> QED
    BY <1>0, <1>a, <1>b, <1>d, <2>1, <2>2, <2>3, <2>4 DEF vacuum, Consuming
<1>4. CASE EnqueuePass
  <2>1. /\ UNCHANGED <<problem, ctl, decision, hook, states, overtaken>>
        /\ pc' \in {"failed", "mapped"} /\ softened' = FALSE
        /\ vac' \in IF FreeBoundary
                    THEN AdvancedVacuum(vac, ctl.iter2, ctl.iter1, small)
                    ELSE {vac}
    BY <1>4 DEF EnqueuePass
  <2>2. vac' \in Vacuum
    BY <1>0, <2>1, AdvanceTypes DEF Controller
  <2>3. ResultsOK'
    BY <1>0, <1>4 DEF EnqueuePass, Dispatched, ResultsOK, StatesOK, Maybe
  <2> QED
    BY <1>0, <1>a, <1>b, <1>c, <2>1, <2>2, <2>3 DEF Waiting
<1>5. CASE InvalidStart
  BY <1>0, <1>5, <1>a, <1>b, <1>c, <1>d, ControllerMethods
     DEF InvalidStart, vacuum, history
<1>6. CASE UpdateVacuum \/ ApplyForce \/ SuffixArrives \/ SuffixFails
  <2>1. /\ UNCHANGED <<problem, control, states, results, history>>
        /\ pc' \in {"force", "suffix", "tail", "failed"}
        /\ vac' \in {vac, ResidentUpdate(vac), UpdatedVacuum(vac),
                     FinishedUpdate(vac), CancelledUpdate(vac)}
    BY <1>6 DEF UpdateVacuum, ApplyForce, SuffixArrives, SuffixFails
  <2>2. vac' \in Vacuum
    BY <1>0, <2>1, ResidentTypes, UpdateTypes
  <2>3. hook' \in Hook
    BY <1>0, <1>6 DEF UpdateVacuum, ApplyForce, SuffixArrives, SuffixFails, Hook,
                      Vacuum
  <2> QED
    BY <1>0, <1>a, <1>b, <1>c, <1>d, <2>1, <2>2, <2>3
       DEF control, history, Waiting, Consuming
<1>7. CASE SolveNewton \/ RejectTrial
  <2>1. /\ UNCHANGED <<problem, control, vacuum, states, evaluated, fields,
                       history>>
        /\ pc' = "trial" /\ scratch' \in State
    BY <1>0, <1>7 DEF SolveNewton, RejectTrial, DispatchTrial, StatesOK
  <2> QED
    BY <1>0, <1>a, <1>b, <1>c, <2>1 DEF control, vacuum, history, Waiting,
                                        ResultsOK
<1>8. CASE AcceptTrial \/ RollBackTrial
  <2>1. /\ UNCHANGED <<problem, decision, vacuum, checkpoint, deferred, scratch,
                       history>>
        /\ ConsumeTrial
        /\ ctl' \in {ctl, ResetCorrectionMomentum(ctl)}
        /\ velocity' \in {velocity, "zero"}
    BY <1>8 DEF AcceptTrial, RollBackTrial, control
  <2>2. dev' \in [iteration : Maybe, descent : Maybe, velocity : BOOLEAN]
    <3>1. CASE AcceptTrial
      BY <1>0, <3>1 DEF AcceptTrial, ResultsOK, Maybe
    <3>2. CASE RollBackTrial
      BY <1>0, <3>2 DEF RollBackTrial, StatesOK, ResultsOK, Maybe
    <3> QED
      BY <1>8, <3>1, <3>2
  <2>3. StatesOK' /\ ResultsOK'
    BY <1>0, <2>1, <2>2 DEF StatesOK, ResultsOK, ConsumeTrial, Maybe
  <2>4. ctl' \in Controller
    BY <1>0, <2>1, ControllerMethods
  <2> QED
    BY <1>0, <1>a, <1>b, <2>1, <2>3, <2>4
       DEF vacuum, history, ConsumeTrial, Consuming
<1>9. CASE Converge
  <2>1. vac' \in Vacuum
    BY <1>0, <1>9, UpdateTypes DEF Converge
  <2> QED
    BY <1>0, <1>9, <1>a, <1>b, <1>c, <1>d, <2>1
       DEF Converge, control, history
<1>10. CASE Descend \/ DiscardDescent
  <2>1. /\ UNCHANGED <<problem, checkpoint, results, hook, softened, overtaken>>
        /\ pc' = "run" /\ deferred' \in State
        /\ vac' \in {vac, IterationEnd(vac)}
    BY <1>10 DEF Descend, DiscardDescent, Enqueued
  <2>2. vac' \in Vacuum
    BY <1>0, <2>1, UpdateTypes
  <2>3. decision' \in Decision
    <3>1. \A growth : WantsRefresh(ctl, growth) \in BOOLEAN
      BY DEF WantsRefresh
    <3>2. CASE Descend
      <4>1. PICK growth \in PossibleGrowth(ctl) :
              decision' = [refresh |-> WantsRefresh(ctl, growth), keep |-> TRUE]
        BY <3>2 DEF Descend
      <4>2. WantsRefresh(ctl, growth) \in BOOLEAN
        BY <3>1
      <4> QED
        BY <4>1, <4>2 DEF Decision
    <3>3. CASE DiscardDescent
      BY <3>3 DEF DiscardDescent, Decision
    <3> QED
      BY <1>10, <3>2, <3>3
  <2>4. Decided \in Controller
    BY <1>0, DecidedController DEF Decided
  <2>5. ctl' \in Controller
    BY <1>10, <2>4, ControllerMethods, GoodDescentController
       DEF Descend, DiscardDescent
  <2>6. StatesOK'
    <3>1. CASE Descend
      BY <1>0, <2>1, <3>1 DEF Descend, StatesOK, Maybe
    <3>2. CASE DiscardDescent
      BY <1>0, <2>1, <3>2, RestoreTypes DEF DiscardDescent, Maybe
    <3> QED
      BY <1>10, <3>1, <3>2
  <2> QED
    BY <1>0, <1>a, <1>b, <1>d, <2>1, <2>2, <2>3, <2>5, <2>6
<1>11. CASE FieldsArrive
  <2>1. ResultsOK'
    BY <1>0, <1>11 DEF FieldsArrive, ResultsOK, Maybe
  <2> QED
    BY <1>0, <1>11, <1>a, <1>b, <1>c, <2>1
       DEF FieldsArrive, control, vacuum, history
<1>12. CASE Refine
  <2>1. /\ UNCHANGED <<problem, decision, hook, deferred, results, softened,
                       overtaken>>
        /\ pc' = "run" /\ vac' \in {vac, StageTransition(vac)}
        /\ \E s \in State : StageBegins(s)
    BY <1>12 DEF Refine
  <2>2. ctl' \in Controller
    BY <2>1 DEF StageBegins, NewController, Controller, Steps, Baselines
  <2>3. StatesOK'
    BY <1>0, <2>1, ClearedType DEF StageBegins, StatesOK
  <2>4. vac' \in Vacuum
    BY <1>0, <2>1, ResidentTypes
  <2> QED
    BY <1>0, <1>a, <1>b, <1>d, <2>1, <2>2, <2>3, <2>4
<1>13. CASE Finished \/ UNCHANGED vars
  BY <1>0, <1>13, <1>a, <1>c, <1>d
     DEF Finished, vars, control, vacuum, history
<1> QED
  BY <1>1, <1>2, <1>3, <1>4, <1>5, <1>6, <1>7, <1>8, <1>9, <1>10, <1>11, <1>12,
     <1>13 DEF Next
-----------------------------------------------------------------------------
(* The batch.  Where the host waits for a mapping, and what the batch holds  *)
(* there; anywhere else it is empty, and no descent is in flight.            *)
InFlight == {"flush", "mapped", "remapped", "suffix"}

Carried == IF deferred # NoState THEN <<"descent">> ELSE << >>

Idle(slices) == [slices |-> slices, mapping |-> FALSE, error |-> FALSE]
Busy(slices) == [slices |-> slices, mapping |-> TRUE, error |-> FALSE]

Loads == {<< >>, <<"descent">>, <<"descent", "pass">>, <<"pass">>,
          <<"geometry">>, <<"vacuum", "pass">>}

BatchInv ==
  /\ pc = "run" => batch = Idle(Carried)
  /\ pc = "flush" => deferred # NoState /\ batch = Busy(<<"descent">>)
  /\ pc = "mapped" => \/ deferred # NoState /\ batch = Busy(<<"descent", "pass">>)
                      \/ deferred = NoState /\ batch = Busy(<<"pass">>)
  /\ pc = "remapped" => batch = Busy(<<"geometry">>)
  /\ pc = "suffix" =>
       /\ deferred = NoState
       /\ batch = Busy(<<"pass">>) \/ batch = Busy(<<"vacuum", "pass">>)
  /\ pc = "failed" => \E s \in Loads : batch \in {Idle(s), Busy(s)}
  /\ pc \notin {"run", "failed"} \cup InFlight
       => deferred = NoState /\ batch = Idle(<< >>)

-----------------------------------------------------------------------------
(* The vacuum.  Between the update and the end of the suffix either a        *)
(* summary is pending or the factors a full update asked for exist.          *)
FactorsKnown == vac.run /\ vac.full => vac.factors

HookInv ==
  /\ ~FreeBoundary => vac = NoVacuum /\ pc \notin {"update", "force", "suffix"}
  /\ pc \notin {"force", "suffix", "failed"} => ~hook.pending /\ ~hook.finish
  /\ pc = "force" => ~hook.finish
  /\ pc \in {"force", "suffix"} => hook.pending \/ FactorsKnown
  /\ pc \in {"tail", "soft", "classify", "descend", "complete", "fields",
             "prolong", "gmres", "trial", "done"} => FactorsKnown

-----------------------------------------------------------------------------
(* The commits.  What the host will hold once the descent in flight, if any, *)
(* has arrived; the device state that survives is always that state.         *)
Committed ==
  IF deferred = NoState THEN host
  ELSE IF decision.keep THEN deferred ELSE checkpoint

(* Where the results of an evaluation are on the host.                       *)
Judged == Consuming \cup {"suffix", "descend", "complete", "gmres", "trial",
                         "fields", "prolong", "done"}

(* A descent to be discarded has been rolled back already.                   *)
DiscardInv ==
  deferred # NoState /\ ~decision.keep
    => /\ ~decision.refresh /\ host = checkpoint /\ velocity = "zero"
       /\ dev = Cleared

TrialInv ==
  /\ newton \in [last : Nat, trial : Nat]
  /\ pc = "trial" /\ newton.trial = Rollback => scratch = host

CommitInv ==
  ~overtaken =>
    /\ pc \in {"run", "flush"} => Dispatched = Committed
    /\ pc \in {"mapped", "remapped"} => scratch = Committed
    /\ pc \in Judged /\ ~softened => host = evaluated
    /\ dev.descent # NoState => dev.descent = Committed
    /\ Kept \/ velocity = "none" => dev.velocity

FieldsInv ==
  pc \in Judged => /\ fields \in {NoState, evaluated}
                   /\ pc # "trial" => scratch = evaluated
                   /\ pc = "done" => fields # NoState

(* Without a vacuum a maintenance reset is due only when the descent in      *)
(* flight is a discarded one.                                                *)
DueInv ==
  ~FreeBoundary =>
    /\ ~overtaken
    /\ pc # "soft"
    /\ MaintenanceDue(ctl) => pc \in {"run", "flush", "failed"}
                              /\ (pc = "run" => ~Kept)

-----------------------------------------------------------------------------
(* The one fact about sequences that the contents of the batch rest on.      *)
LEMMA AppendTwo ==
  ASSUME NEW Slices, NEW x \in Slices, NEW y \in Slices
  PROVE  Append(<<x>>, y) = <<x, y>>
<1> DEFINE one == Append(<<x>>, y)
           two == <<x, y>>
<1>1. <<x>> \in Seq(Slices) /\ Len(<<x>>) = 1
  OBVIOUS
<1>2. one \in Seq(Slices) /\ Len(one) = 2 /\ one[1] = x /\ one[2] = y
  BY <1>1
<1>3. two \in Seq(Slices) /\ Len(two) = 2 /\ two[1] = x /\ two[2] = y
  OBVIOUS
<1>4. one = [i \in 1 .. 2 |-> one[i]] /\ two = [i \in 1 .. 2 |-> two[i]]
  BY <1>2, <1>3
<1> HIDE DEF one, two
<1>5. \A i \in 1 .. 2 : one[i] = two[i]
  BY <1>2, <1>3
<1> QED
  BY <1>4, <1>5 DEF one, two

(* The batch goes through its contents in order, and is never refused.       *)
LEMMA Joins ==
  /\ Appended(Idle(<< >>), "pass") = Idle(<<"pass">>)
  /\ Appended(Idle(<< >>), "vacuum") = Idle(<<"vacuum">>)
  /\ Appended(Idle(<< >>), "geometry") = Idle(<<"geometry">>)
  /\ Appended(Idle(<< >>), "descent") = Idle(<<"descent">>)
  /\ Appended(Idle(<<"descent">>), "pass") = Idle(<<"descent", "pass">>)
  /\ Appended(Idle(<<"vacuum">>), "pass") = Idle(<<"vacuum", "pass">>)
<1>1. \A s, x : Appended(Idle(s), x) = Idle(Append(s, x))
  BY DEF Appended, Idle
<1>2. \A x : Append(<< >>, x) = <<x>>
  OBVIOUS
<1>3. /\ Append(<<"descent">>, "pass") = <<"descent", "pass">>
      /\ Append(<<"vacuum">>, "pass") = <<"vacuum", "pass">>
  <2> DEFINE Slices == {"descent", "vacuum", "pass"}
  <2>1. "descent" \in Slices /\ "vacuum" \in Slices /\ "pass" \in Slices
    OBVIOUS
  <2> HIDE DEF Slices
  <2> QED
    BY <2>1, AppendTwo
<1> QED
  BY <1>1, <1>2, <1>3

LEMMA Mappings ==
  ASSUME NEW s \in Loads \ {<< >>}
  PROVE  ~Refused(Idle(s)) /\ Mapped(Idle(s)) = Busy(s)
<1>1. s # << >>
  OBVIOUS
<1> QED
  BY <1>1 DEF Refused, Mapped, Idle, Busy

LEMMA Nonempty ==
  /\ <<"descent">> \in Loads \ {<< >>} /\ <<"pass">> \in Loads \ {<< >>}
  /\ <<"geometry">> \in Loads \ {<< >>}
  /\ <<"descent", "pass">> \in Loads \ {<< >>}
  /\ <<"vacuum", "pass">> \in Loads \ {<< >>}
BY DEF Loads

LEMMA CompletedHolds == Completed(batch) = Idle(<< >>)
BY DEF Completed, EmptyBatch, Idle

(* Every callback finds the batch as the one before it left it.              *)
LEMMA BatchStep ==
  ASSUME TypeOK, BatchInv, [Next]_vars
  PROVE  BatchInv'
<1> DEFINE Elsewhere == {"descend", "complete", "gmres", "trial", "fields",
                         "prolong", "done"} \cup Consuming
<1>a. ASSUME pc' \in Elsewhere, deferred' = NoState, batch' = Idle(<< >>)
      PROVE  BatchInv'
  BY <1>a DEF BatchInv, InFlight, Consuming
<1>b. ASSUME pc \in Elsewhere
      PROVE  deferred = NoState /\ batch = Idle(<< >>)
  BY <1>b DEF BatchInv, InFlight, Consuming
<1>c. ASSUME pc' = "run", deferred' = NoState, batch' = Idle(<< >>)
      PROVE  BatchInv'
  BY <1>c DEF BatchInv, InFlight, Carried
<1>d. ASSUME pc' = "failed", \E s \in Loads : batch' \in {Idle(s), Busy(s)}
      PROVE  BatchInv'
  BY <1>d DEF BatchInv, InFlight
<1>1. CASE FlushDeferred
  <2>1. batch = Idle(<<"descent">>)
    BY <1>1 DEF FlushDeferred, BatchInv, Carried
  <2>2. batch' = Busy(<<"descent">>) /\ pc' = "flush"
    BY <1>1, <2>1, Joins, Mappings, Nonempty DEF FlushDeferred
  <2> QED
    BY <1>1, <2>2 DEF FlushDeferred, states, BatchInv, InFlight
<1>2. CASE FlushArrives
  BY <1>2, <1>c, CompletedHolds DEF FlushArrives, Commit
<1>3. CASE Maintenance
  BY <1>3 DEF Maintenance, BatchInv, InFlight, Carried
<1>4. CASE EnqueuePass
  <2>1. CASE deferred = NoState
    <3>1. batch = Idle(<< >>)
      BY <1>4, <2>1 DEF EnqueuePass, BatchInv, Carried
    <3>2. batch' = Busy(<<"pass">>) /\ pc' = "mapped"
      BY <1>4, <3>1, Joins, Mappings, Nonempty DEF EnqueuePass
    <3> QED
      BY <1>4, <2>1, <3>2 DEF EnqueuePass, states, BatchInv, InFlight
  <2>2. CASE deferred # NoState
    <3>1. batch = Idle(<<"descent">>)
      BY <1>4, <2>2 DEF EnqueuePass, BatchInv, Carried
    <3>2. batch' = Busy(<<"descent", "pass">>) /\ pc' = "mapped"
      BY <1>4, <3>1, Joins, Mappings, Nonempty DEF EnqueuePass
    <3> QED
      BY <1>4, <2>2, <3>2 DEF EnqueuePass, states, BatchInv, InFlight
  <2> QED
    BY <2>1, <2>2
<1>5. CASE GeometryFallback
  <2>1. batch' = Busy(<<"geometry">>) /\ pc' = "remapped"
    BY <1>5, CompletedHolds, Joins, Mappings, Nonempty DEF GeometryFallback
  <2> QED
    BY <2>1 DEF BatchInv, InFlight
<1>6. CASE PassArrives
  <2>1. deferred' = NoState
    BY <1>6 DEF PassArrives, CommitAny, Commit, states
  <2> QED
    BY <1>6, <1>a, <2>1, CompletedHolds DEF PassArrives, Consuming
<1>7. CASE RejectGeometry \/ RecoverNonfinite
  <2>1. pc \in Elsewhere /\ pc' = "run" /\ UNCHANGED <<deferred, batch>>
    BY <1>7 DEF RejectGeometry, RecoverNonfinite, Consuming
  <2> QED
    BY <1>b, <1>c, <2>1
<1>8. CASE AcceptGeometry \/ ConsumeTail \/ SoftRestart \/ BeginNewton
             \/ SolveNewton \/ RejectTrial \/ AcceptTrial \/ RollBackTrial
             \/ Converge \/ Continue \/ ReadFields \/ FieldsArrive \/ Prolong
             \/ UpdateVacuum
  <2>1. pc \in Elsewhere /\ pc' \in Elsewhere /\ UNCHANGED <<deferred, batch>>
    BY <1>8 DEF AcceptGeometry, ConsumeTail, SoftRestart, BeginNewton,
                SolveNewton, RejectTrial, AcceptTrial, RollBackTrial, Converge,
                Continue, ReadFields, FieldsArrive, Prolong, UpdateVacuum,
                Consuming, states, DispatchTrial, ConsumeTrial
  <2> QED
    BY <1>a, <1>b, <2>1
<1>9. CASE InvalidStart \/ VacuumThrows \/ Fail \/ Publish \/ SuffixFails
             \/ Exhaust
  <2>1. UNCHANGED <<deferred, batch>> /\ pc' \in {"done", "failed"}
          /\ pc # "failed"
    BY <1>9 DEF InvalidStart, VacuumThrows, Fail, Publish, SuffixFails, Exhaust,
                states, Stopped, Waiting
  <2>2. \E s \in Loads : batch \in {Idle(s), Busy(s)}
    BY <2>1, TypeParts DEF BatchInv, Loads, InFlight, Carried
  <2>3. CASE pc' = "failed"
    BY <1>d, <2>1, <2>2, <2>3
  <2>4. CASE pc' = "done"
    <3>1. pc \in Elsewhere
      BY <1>9, <2>4 DEF InvalidStart, VacuumThrows, Fail, Publish, SuffixFails,
                        Exhaust
    <3> QED
      BY <1>a, <1>b, <2>1, <2>4, <3>1
  <2> QED
    BY <2>1, <2>3, <2>4
<1>10. CASE ApplyForce
  <2>1. deferred = NoState /\ batch = Idle(<< >>)
    BY <1>10, <1>b DEF ApplyForce, Consuming
  <2>2. batch' \in {Busy(<<"pass">>), Busy(<<"vacuum", "pass">>)}
          /\ pc' = "suffix"
    <3> DEFINE joins == hook.resident /\ (vac.edge \/ hook.pending)
    <3>1. CASE joins
      <4>1. Appended(Appended(batch, "vacuum"), "pass")
              = Idle(<<"vacuum", "pass">>)
        BY <2>1, Joins, Mappings, Nonempty
      <4> QED
        BY <1>10, <3>1, <4>1, Joins, Mappings, Nonempty DEF ApplyForce
    <3>2. CASE ~joins
      <4>1. Appended(batch, "pass") = Idle(<<"pass">>)
        BY <2>1, Joins, Mappings, Nonempty
      <4> QED
        BY <1>10, <3>2, <4>1, Joins, Mappings, Nonempty DEF ApplyForce
    <3> QED
      BY <3>1, <3>2
  <2>3. deferred' = NoState
    BY <1>10, <2>1 DEF ApplyForce, states
  <2> QED
    BY <2>2, <2>3 DEF BatchInv, InFlight
<1>11. CASE SuffixArrives
  BY <1>11, <1>a, CompletedHolds
     DEF SuffixArrives, states, BatchInv, Consuming
<1>12. CASE Descend \/ DiscardDescent
  <2>1. pc \in Elsewhere /\ pc' = "run" /\ deferred' \in State
          /\ batch' = Appended(batch, "descent")
    BY <1>12 DEF Descend, DiscardDescent, Enqueued
  <2>2. batch' = Idle(<<"descent">>) /\ deferred' # NoState
    BY <1>b, <2>1, Joins, Mappings, Nonempty, BrowserAssumption
  <2> QED
    BY <2>1, <2>2 DEF BatchInv, InFlight, Carried
<1>13. CASE Refine
  BY <1>13, <1>b, <1>c DEF Refine
<1>14. CASE Finished \/ UNCHANGED vars
  BY <1>14 DEF Finished, vars, states, BatchInv, InFlight, Carried
<1> QED
  BY <1>1, <1>2, <1>3, <1>4, <1>5, <1>6, <1>7, <1>8, <1>9, <1>10, <1>11, <1>12,
     <1>13, <1>14 DEF Next
LEMMA BatchInit == Init => BatchInv
BY DEF Init, BatchInv, InFlight, Carried, Idle, EmptyBatch

LEMMA TravelsOnce ==
  ASSUME TypeOK, BatchInv
  PROVE  DescentTravelsOnce
<1>1. \E s \in Loads : batch \in {Idle(s), Busy(s)}
  BY TypeParts DEF BatchInv, Loads, InFlight, Carried
<1>2. PICK s \in Loads : batch \in {Idle(s), Busy(s)}
  BY <1>1
<1>3. ~batch.error /\ batch.slices = s
  BY <1>2 DEF Idle, Busy
<1>4. pc = "failed" \/ (batch.mapping <=> pc \in InFlight)
  BY DEF BatchInv, InFlight, Idle, Busy
<1>5. pc \in {"run", "flush", "mapped"}
        => (deferred # NoState <=> /\ batch.slices # << >>
                                   /\ batch.slices[1] = "descent")
  BY DEF BatchInv, Carried, Idle, Busy
<1>6. Cardinality({n \in DOMAIN batch.slices : batch.slices[n] = "descent"}) <= 1
  <2> DEFINE D == {n \in DOMAIN s : s[n] = "descent"}
  <2>1. \A n \in DOMAIN s : s[n] = "descent" => n = 1
    BY DEF Loads
  <2>2. D = {} \/ D = {1}
    BY <2>1
  <2>3. Cardinality({}) = 0 /\ Cardinality({1}) = 1
    BY FS_EmptySet, FS_Singleton
  <2>4. Cardinality(D) <= 1
    BY <2>2, <2>3
  <2> QED
    BY <1>3, <2>4
<1> QED
  BY <1>3, <1>4, <1>5, <1>6 DEF DescentTravelsOnce, InFlight

(* The descent in flight is in the batch of the pass behind it, once, and    *)
(* the batch accepts every append and every mapping it is asked for.         *)
THEOREM TravelsOnceAlways == Spec => []DescentTravelsOnce
<1>1. Init => TypeOK /\ BatchInv
  BY TypeInit, BatchInit
<1>2. TypeOK /\ BatchInv /\ [Next]_vars => (TypeOK /\ BatchInv)'
  <2>1. BatchInv => FlushInv
    BY DEF BatchInv, FlushInv
  <2> QED
    BY <2>1, TypeStep, BatchStep
<1>3. TypeOK /\ BatchInv => DescentTravelsOnce
  BY TravelsOnce
<1> QED
  BY <1>1, <1>2, <1>3, PTL DEF Spec

-----------------------------------------------------------------------------
(* The vacuum: a pending summary is looked at before anything is decided.    *)
LEMMA UpdateKnows ==
  ASSUME NEW v \in Vacuum
  PROVE  LET w == UpdatedVacuum(v) IN w.run /\ w.full => w.factors
BY DEF UpdatedVacuum, Vacuum

(* Without a vacuum the three callbacks that touch it are never reached.     *)
LEMMA HookStep ==
  ASSUME TypeOK, HookInv, [Next]_vars
  PROVE  HookInv'
<1> DEFINE Known == {"tail", "soft", "classify", "descend", "complete",
                     "fields", "prolong", "gmres", "trial", "done"}
<1>0. FreeBoundary \in BOOLEAN /\ FreeBoundary' = FreeBoundary
  <2>1. problem' = problem
    BY DEF Next, vars, FlushDeferred, FlushArrives, Exhaust, Maintenance,
           EnqueuePass, GeometryFallback, PassArrives, RejectGeometry,
           InvalidStart, AcceptGeometry, UpdateVacuum, VacuumThrows, ApplyForce,
           SuffixArrives, SuffixFails, ConsumeTail, SoftRestart, BeginNewton,
           SolveNewton, RejectTrial, AcceptTrial, RollBackTrial,
           RecoverNonfinite, Converge, Continue, Descend, DiscardDescent,
           Enqueued, ReadFields, FieldsArrive, Publish, Prolong, Refine, Fail,
           Finished
  <2> QED
    BY <2>1, BrowserAssumption DEF FreeBoundary, TypeOK
<1>1. ASSUME UNCHANGED vacuum, pc' \notin {"update", "force", "suffix"},
             \/ pc \notin {"force", "suffix", "failed"}
             \/ pc' = "failed" \/ pc' = pc,
             pc' \in Known => pc \in Known \/ ~FreeBoundary
      PROVE  HookInv'
  <2>1. ~FreeBoundary => FactorsKnown
    BY DEF HookInv, FactorsKnown, NoVacuum
  <2> QED
    BY <1>0, <1>1, <2>1 DEF HookInv, FactorsKnown, vacuum
<1>2. CASE FlushDeferred \/ FlushArrives \/ Exhaust \/ Maintenance
             \/ GeometryFallback \/ PassArrives \/ RejectGeometry
             \/ InvalidStart \/ VacuumThrows \/ Fail \/ Prolong
             \/ RecoverNonfinite
  <2>1. UNCHANGED vacuum /\ pc' \notin {"update", "force", "suffix"}
    BY <1>2 DEF FlushDeferred, FlushArrives, Exhaust, Maintenance,
                GeometryFallback, PassArrives, RejectGeometry, InvalidStart,
                VacuumThrows, Fail, Prolong, RecoverNonfinite
  <2>2. \/ pc \notin {"force", "suffix", "failed"}
        \/ pc' = "failed" \/ pc' = pc
    BY <1>2 DEF FlushDeferred, FlushArrives, Exhaust, Maintenance,
                GeometryFallback, PassArrives, RejectGeometry, InvalidStart,
                VacuumThrows, Fail, Prolong, RecoverNonfinite
  <2>3. pc' \in Known => pc \in Known \/ ~FreeBoundary
    BY <1>2 DEF FlushDeferred, FlushArrives, Exhaust, Maintenance,
                GeometryFallback, PassArrives, RejectGeometry, InvalidStart,
                VacuumThrows, Fail, Prolong, RecoverNonfinite
  <2> QED
    BY <1>1, <2>1, <2>2, <2>3
<1>3. CASE ConsumeTail \/ SoftRestart \/ BeginNewton \/ SolveNewton
             \/ RejectTrial \/ AcceptTrial \/ RollBackTrial \/ Continue
             \/ ReadFields \/ FieldsArrive \/ Publish
  <2>1. UNCHANGED vacuum /\ pc' \notin {"update", "force", "suffix"} /\ pc \in Known
    BY <1>3 DEF ConsumeTail, SoftRestart, BeginNewton, SolveNewton, RejectTrial,
                AcceptTrial, RollBackTrial, Continue, ReadFields, FieldsArrive,
                Publish, DispatchTrial, ConsumeTrial, Stopped
  <2> QED
    BY <1>1, <2>1
<1>4. CASE EnqueuePass
  <2>1. vac' = vac \/ FreeBoundary
    BY <1>4 DEF EnqueuePass
  <2> QED
    BY <1>0, <1>4, <2>1 DEF EnqueuePass, HookInv
<1>5. CASE AcceptGeometry
  <2>1. CASE ~FreeBoundary
    BY <1>1, <1>5, <2>1 DEF AcceptGeometry
  <2>2. CASE FreeBoundary
    <3>1. ~hook.pending /\ ~hook.finish /\ UNCHANGED vacuum
      BY <1>5 DEF AcceptGeometry, HookInv
    <3>2. pc' = "update" \/ (pc' = "force" /\ ~vac.run)
      BY <1>5, <2>2 DEF AcceptGeometry
    <3> QED
      BY <1>0, <2>2, <3>1, <3>2 DEF HookInv, FactorsKnown, vacuum
  <2> QED
    BY <1>0, <2>1, <2>2
<1>6. CASE UpdateVacuum
  <2> QED
    BY <1>0, <1>6, UpdateKnows
       DEF UpdateVacuum, HookInv, FactorsKnown, TypeOK
<1>7. CASE ApplyForce
  BY <1>0, <1>7 DEF ApplyForce, HookInv, FactorsKnown
<1>8. CASE SuffixArrives
  BY <1>0, <1>8, UpdateKnows
     DEF SuffixArrives, HookInv, FactorsKnown, FinishedUpdate, TypeOK
<1>9. CASE SuffixFails
  BY <1>0, <1>9 DEF SuffixFails, HookInv
<1>10. CASE Converge
  BY <1>0, <1>10 DEF Converge, HookInv, FactorsKnown, IterationEnd, TypeOK, Vacuum
<1>11. CASE Descend \/ DiscardDescent
  BY <1>0, <1>11 DEF Descend, DiscardDescent, Enqueued, HookInv
<1>12. CASE Refine
  BY <1>0, <1>12 DEF Refine, HookInv
<1>13. CASE Finished \/ UNCHANGED vars
  BY <1>0, <1>13 DEF Finished, vars, vacuum, HookInv, FactorsKnown
<1> QED
  BY <1>2, <1>3, <1>4, <1>5, <1>6, <1>7, <1>8, <1>9, <1>10, <1>11, <1>12,
     <1>13 DEF Next
LEMMA HookInit == Init => HookInv
BY DEF Init, HookInv

(* docs/webgpu-port.md: "Pending vacuum results are validated before         *)
(* controller decisions, checkpoint updates or output".                      *)
THEOREM PendingResolved == Spec => []PendingVacuumResolved
<1>1. Init => TypeOK /\ BatchInv /\ HookInv
  BY TypeInit, BatchInit, HookInit
<1>2. TypeOK /\ BatchInv /\ HookInv /\ [Next]_vars
        => (TypeOK /\ BatchInv /\ HookInv)'
  <2>1. BatchInv => FlushInv
    BY DEF BatchInv, FlushInv
  <2> QED
    BY <2>1, TypeStep, BatchStep, HookStep
<1>3. HookInv => PendingVacuumResolved
  BY DEF HookInv, FactorsKnown, PendingVacuumResolved
<1> QED
  BY <1>1, <1>2, <1>3, PTL DEF Spec

-----------------------------------------------------------------------------
(* The commits.                                                              *)
(* Anywhere but before, in and behind a mapping no descent is in flight.     *)
LEMMA Settled ==
  ASSUME BatchInv, pc \notin {"run", "failed"} \cup InFlight
  PROVE  deferred = NoState
BY DEF BatchInv

(* From the discard to its commit only a maintenance reset touches the host, *)
(* and it restores the same checkpoint.                                      *)
LEMMA DiscardStep ==
  ASSUME TypeOK, BatchInv, DiscardInv, [Next]_vars
  PROVE  DiscardInv'
<1>1. CASE FlushArrives \/ PassArrives
  BY <1>1 DEF FlushArrives, PassArrives, CommitAny, Commit, states, DiscardInv
<1>2. CASE FlushDeferred \/ Exhaust \/ EnqueuePass \/ GeometryFallback
             \/ InvalidStart \/ AcceptGeometry \/ UpdateVacuum \/ VacuumThrows
             \/ ApplyForce \/ SuffixArrives \/ SuffixFails \/ ConsumeTail
             \/ BeginNewton \/ SolveNewton \/ RejectTrial \/ Converge
             \/ Continue \/ ReadFields \/ FieldsArrive \/ Publish \/ Prolong
             \/ Fail \/ Finished \/ UNCHANGED vars
  <2>1. UNCHANGED <<states, decision>>
    BY <1>2 DEF FlushDeferred, Exhaust, EnqueuePass, GeometryFallback,
                InvalidStart, AcceptGeometry, UpdateVacuum, VacuumThrows,
                ApplyForce, SuffixArrives, SuffixFails, ConsumeTail,
                BeginNewton, SolveNewton, RejectTrial, Converge, Continue,
                ReadFields, FieldsArrive, Publish, Prolong, Fail, Finished,
                vars, control
  <2> QED
    BY <2>1 DEF states, DiscardInv, Cleared
<1>3. CASE Maintenance
  BY <1>3 DEF Maintenance, Restore, DiscardInv, Cleared
<1>4. CASE RejectGeometry \/ SoftRestart \/ RecoverNonfinite \/ AcceptTrial
             \/ RollBackTrial \/ Refine
  <2>1. pc \notin {"run", "failed"} \cup InFlight /\ deferred' = deferred
    BY <1>4 DEF RejectGeometry, SoftRestart, RecoverNonfinite, AcceptTrial,
                RollBackTrial, Refine, InFlight
  <2> QED
    BY <2>1, Settled DEF DiscardInv
<1>5. CASE Descend \/ DiscardDescent
  <2>1. CASE Descend
    <3>1. decision'.keep
      BY <2>1 DEF Descend
    <3> QED
      BY <3>1 DEF DiscardInv
  <2>2. CASE DiscardDescent
    <3>1. /\ decision' = [refresh |-> FALSE, keep |-> FALSE]
          /\ Restore /\ checkpoint' = checkpoint
      BY <2>2 DEF DiscardDescent, Enqueued
    <3> QED
      BY <3>1 DEF Restore, DiscardInv, Cleared
  <2> QED
    BY <1>5, <2>1, <2>2
<1> QED
  BY <1>1, <1>2, <1>3, <1>4, <1>5 DEF Next

(* The rollback trial evaluates the base state, which no trial has replaced. *)
LEMMA TrialStep ==
  ASSUME TypeOK, TrialInv, [Next]_vars
  PROVE  TrialInv'
<1>0. ctl.iter2 \in Nat
  BY DEF TypeOK, Controller
<1>1. CASE BeginNewton
  BY <1>0, <1>1 DEF BeginNewton, TrialInv
<1>2. CASE SolveNewton
  BY <1>2 DEF SolveNewton, DispatchTrial, TrialInv, Rollback, states
<1>3. CASE RejectTrial
  <2>1. newton.trial + 1 \in Nat
    BY DEF TrialInv
  <2>2. newton' \in [last : Nat, trial : Nat] /\ newton'.trial = newton.trial + 1
    BY <1>3, <2>1 DEF RejectTrial, DispatchTrial, TrialInv
  <2>3. host' = host /\ (newton.trial + 1 = Rollback => scratch' = host)
    BY <1>3 DEF RejectTrial, DispatchTrial, states
  <2> QED
    BY <2>2, <2>3 DEF TrialInv
<1>4. CASE Refine
  BY <1>4 DEF Refine, StageBegins, TrialInv
<1>5. CASE FlushDeferred \/ FlushArrives \/ Exhaust \/ Maintenance
             \/ EnqueuePass \/ GeometryFallback \/ PassArrives
             \/ RejectGeometry \/ InvalidStart \/ AcceptGeometry
             \/ UpdateVacuum \/ VacuumThrows \/ ApplyForce \/ SuffixArrives
             \/ SuffixFails \/ ConsumeTail \/ SoftRestart \/ AcceptTrial
             \/ RollBackTrial \/ RecoverNonfinite \/ Converge \/ Continue
             \/ Descend \/ DiscardDescent \/ ReadFields \/ FieldsArrive
             \/ Publish \/ Prolong \/ Fail
  <2>1. newton' = newton /\ pc' # "trial"
    BY <1>5 DEF FlushDeferred, FlushArrives, Exhaust, Maintenance, EnqueuePass,
                GeometryFallback, PassArrives, RejectGeometry, InvalidStart,
                AcceptGeometry, UpdateVacuum, VacuumThrows, ApplyForce,
                SuffixArrives, SuffixFails, ConsumeTail, SoftRestart,
                AcceptTrial, RollBackTrial, ConsumeTrial, RecoverNonfinite,
                Converge, Continue, Descend, DiscardDescent, Enqueued,
                ReadFields, FieldsArrive, Publish, Prolong, Fail, Stopped
  <2> QED
    BY <2>1 DEF TrialInv
<1>6. CASE Finished \/ UNCHANGED vars
  BY <1>6 DEF Finished, vars, states, results, TrialInv
<1> QED
  BY <1>1, <1>2, <1>3, <1>4, <1>5, <1>6 DEF Next

(* A commit brings the host to what was Committed, and leaves the device     *)
(* handles that survive at that state.                                       *)
LEMMA Commits ==
  ASSUME TypeOK, DiscardInv, CommitInv, ~overtaken, CommitAny
  PROVE  /\ deferred' = NoState /\ host' = Committed
         /\ dev'.descent # NoState => dev'.descent = host'
         /\ velocity' = "none" => dev'.velocity
         /\ deferred # NoState => dev'.iteration = NoState
<1>1. CASE deferred = NoState
  BY <1>1 DEF CommitAny, Committed, states, CommitInv
<1>2. CASE deferred # NoState /\ decision.keep
  BY <1>2 DEF CommitAny, Commit, Committed, CommitInv, Kept, TypeOK
<1>3. CASE deferred # NoState /\ ~decision.keep
  BY <1>3 DEF CommitAny, Commit, Committed, DiscardInv, Cleared
<1> QED
  BY <1>1, <1>2, <1>3
(* What is dispatched is what will be committed, and is judged after it is.  *)
LEMMA CommitStep ==
  ASSUME TypeOK, BatchInv, DiscardInv, TrialInv, CommitInv, [Next]_vars
  PROVE  CommitInv'
<1> SUFFICES ASSUME ~overtaken'
             PROVE  CommitInv'
  BY DEF CommitInv
<1>0. ~overtaken
  BY DEF Next, vars, history, FlushDeferred, FlushArrives, Exhaust,
         Maintenance, EnqueuePass, GeometryFallback, PassArrives,
         RejectGeometry, InvalidStart, AcceptGeometry, UpdateVacuum,
         VacuumThrows, ApplyForce, SuffixArrives, SuffixFails, ConsumeTail,
         SoftRestart, BeginNewton, SolveNewton, RejectTrial, AcceptTrial,
         RollBackTrial, RecoverNonfinite, Converge, Continue, Descend,
         DiscardDescent, Enqueued, ReadFields, FieldsArrive, Publish, Prolong,
         Refine, Fail, Finished
<1>a. ASSUME UNCHANGED <<states, decision, evaluated, softened>>,
             pc' \notin {"run", "flush", "mapped", "remapped"},
             pc' \in Judged => pc \in Judged
      PROVE  CommitInv'
  BY <1>0, <1>a DEF CommitInv, states, Committed, Kept
<1>b. pc \notin {"run", "failed"} \cup InFlight => deferred = NoState
  BY Settled
<1>c. NoState \notin State
  BY BrowserAssumption
<1>1. CASE FlushDeferred \/ GeometryFallback
  <2>1. UNCHANGED <<states, decision, scratch>>
    BY <1>1 DEF FlushDeferred, GeometryFallback, control, results
  <2>2. \/ pc = "run" /\ pc' \in {"flush", "failed"}
        \/ pc = "mapped" /\ pc' \in {"remapped", "failed"}
    BY <1>1 DEF FlushDeferred, GeometryFallback
  <2> QED
    BY <1>0, <2>1, <2>2
       DEF CommitInv, states, Committed, Kept, Dispatched, Judged, Consuming
<1>2. CASE FlushArrives
  <2>1. CommitAny /\ deferred # NoState /\ pc' = "run"
    BY <1>2 DEF FlushArrives, CommitAny, BatchInv
  <2> QED
    BY <1>0, <2>1, Commits
       DEF CommitInv, Dispatched, Committed, Kept, Judged, Consuming
<1>3. CASE Maintenance
  <2>1. /\ ~Kept /\ pc' = "run" /\ Restore
        /\ UNCHANGED <<checkpoint, deferred, decision>>
    BY <1>3 DEF Maintenance
  <2> QED
    BY <2>1 DEF CommitInv, Restore, Cleared, Dispatched, Committed, Kept,
                Judged, Consuming
<1>4. CASE EnqueuePass
  BY <1>0, <1>4 DEF EnqueuePass, CommitInv, states, Committed, Kept, Judged,
                    Consuming
<1>5. CASE PassArrives
  <2>1. /\ CommitAny /\ pc \in {"mapped", "remapped"} /\ pc' = "accept"
        /\ evaluated' = scratch
    BY <1>5 DEF PassArrives
  <2>2. scratch = Committed
    BY <1>0, <2>1 DEF CommitInv
  <2> QED
    BY <1>0, <2>1, <2>2, Commits DEF CommitInv, Committed, Kept
<1>6. CASE RejectGeometry \/ RecoverNonfinite
  <2>1. /\ deferred = NoState /\ deferred' = deferred /\ pc' = "run"
        /\ Restore /\ checkpoint' = checkpoint
    BY <1>6, <1>b DEF RejectGeometry, RecoverNonfinite, InFlight
  <2> QED
    BY <2>1 DEF CommitInv, Restore, Cleared, Dispatched, Committed, Kept, Judged,
                Consuming
<1>7. CASE SoftRestart
  <2>1. /\ deferred = NoState /\ deferred' = deferred /\ pc' = "classify"
        /\ Restore /\ softened'
    BY <1>7, <1>b DEF SoftRestart, InFlight
  <2> QED
    BY <2>1 DEF CommitInv, Restore, Cleared, Committed, Kept
<1>8. CASE Exhaust \/ InvalidStart \/ AcceptGeometry \/ UpdateVacuum
             \/ VacuumThrows \/ ApplyForce \/ SuffixArrives \/ SuffixFails
             \/ ConsumeTail \/ BeginNewton \/ SolveNewton \/ RejectTrial
             \/ Converge \/ Continue \/ ReadFields \/ FieldsArrive \/ Publish
             \/ Prolong \/ Fail
  <2>1. /\ UNCHANGED <<states, decision, evaluated, softened>>
        /\ pc' \notin {"run", "flush", "mapped", "remapped"}
    BY <1>8 DEF Exhaust, InvalidStart, AcceptGeometry, UpdateVacuum,
                VacuumThrows, ApplyForce, SuffixArrives, SuffixFails,
                ConsumeTail, BeginNewton, SolveNewton, RejectTrial,
                DispatchTrial, Converge, Continue, ReadFields, FieldsArrive,
                Publish, Prolong, Fail, control, results, history, Stopped
  <2>2. pc' = "failed" \/ pc \in Judged
    BY <1>8 DEF Exhaust, InvalidStart, AcceptGeometry, UpdateVacuum,
                VacuumThrows, ApplyForce, SuffixArrives, SuffixFails,
                ConsumeTail, BeginNewton, SolveNewton, RejectTrial,
                DispatchTrial, Converge, Continue, ReadFields, FieldsArrive,
                Publish, Prolong, Fail, Judged, Consuming
  <2>3. "failed" \notin Judged
    BY DEF Judged, Consuming
  <2> QED
    BY <1>a, <2>1, <2>2, <2>3
<1>9. CASE AcceptTrial
  <2>1. /\ deferred = NoState /\ deferred' = deferred /\ pc' = "accept"
        /\ host' = scratch /\ evaluated' = scratch /\ velocity' = "zero"
        /\ dev' = [iteration |-> scratch, descent |-> scratch, velocity |-> FALSE]
    BY <1>9, <1>b DEF AcceptTrial, ConsumeTrial, InFlight
  <2> QED
    BY <2>1 DEF CommitInv, Committed, Kept
<1>10. CASE RollBackTrial
  <2>1. /\ deferred = NoState /\ deferred' = deferred /\ pc' = "accept"
        /\ host' = scratch /\ evaluated' = scratch /\ velocity' = velocity
        /\ dev'.descent = scratch /\ dev'.velocity = dev.velocity
    BY <1>10, <1>b DEF RollBackTrial, ConsumeTrial, InFlight, TypeOK
  <2> QED
    BY <1>0, <2>1 DEF CommitInv, Committed, Kept
<1>11. CASE Descend
  <2>1. PICK growth \in PossibleGrowth(ctl), result \in State :
          /\ Enqueued(result)
          /\ decision' = [refresh |-> WantsRefresh(ctl, growth), keep |-> TRUE]
          /\ dev' = [iteration |-> result, descent |-> result, velocity |-> TRUE]
    BY <1>11 DEF Descend
  <2>2. deferred' = result /\ pc' = "run" /\ decision'.keep
    BY <2>1 DEF Enqueued
  <2> QED
    BY <1>c, <2>1, <2>2 DEF CommitInv, Dispatched, Committed, Judged, Consuming
<1>12. CASE DiscardDescent
  <2>1. /\ deferred' \in State /\ pc' = "run"
        /\ decision' = [refresh |-> FALSE, keep |-> FALSE]
        /\ Restore /\ checkpoint' = checkpoint
    BY <1>12 DEF DiscardDescent, Enqueued
  <2> QED
    BY <1>c, <2>1 DEF CommitInv, Restore, Cleared, Dispatched, Committed, Kept,
                      Judged, Consuming
<1>13. CASE Refine
  <2>1. deferred = NoState
    BY <1>13, <1>b DEF Refine, InFlight
  <2> QED
    BY <1>13, <2>1 DEF Refine, StageBegins, CommitInv, Cleared, Dispatched,
                       Committed, Kept, Judged, Consuming
<1>14. CASE Finished \/ UNCHANGED vars
  BY <1>0, <1>14 DEF Finished, vars, control, states, results, history,
                     CommitInv, Dispatched, Committed, Kept
<1> QED
  BY <1>1, <1>2, <1>3, <1>4, <1>5, <1>6, <1>7, <1>8, <1>9, <1>10, <1>11, <1>12,
     <1>13, <1>14 DEF Next
(* Results, buffers and full fields on the host are of one evaluation.       *)
LEMMA FieldsStep ==
  ASSUME TypeOK, FieldsInv, [Next]_vars
  PROVE  FieldsInv'
<1>a. ASSUME UNCHANGED <<evaluated, scratch, fields>>,
             pc' \in Judged => pc \in Judged /\ pc # "trial",
             pc' = "done" => fields # NoState
      PROVE  FieldsInv'
  BY <1>a DEF FieldsInv
<1>1. CASE FlushDeferred \/ FlushArrives \/ Exhaust \/ Maintenance
             \/ GeometryFallback \/ RejectGeometry \/ RecoverNonfinite
             \/ VacuumThrows \/ InvalidStart \/ SuffixFails \/ Descend
             \/ DiscardDescent \/ Refine \/ Fail \/ EnqueuePass
  <2>1. pc' \in {"flush", "run", "remapped", "failed", "mapped"}
    BY <1>1 DEF FlushDeferred, FlushArrives, Exhaust, Maintenance,
                GeometryFallback, RejectGeometry, RecoverNonfinite,
                VacuumThrows, InvalidStart, SuffixFails, Descend,
                DiscardDescent, Enqueued, Refine, Fail, EnqueuePass
  <2> QED
    BY <2>1 DEF FieldsInv, Judged, Consuming
<1>2. CASE AcceptGeometry \/ UpdateVacuum \/ ApplyForce \/ SuffixArrives
             \/ ConsumeTail \/ SoftRestart \/ BeginNewton \/ Converge
             \/ Continue \/ ReadFields \/ Prolong \/ Publish
  <2>1. /\ UNCHANGED results /\ pc \in Judged /\ pc # "trial"
        /\ pc' = "done" => fields # NoState
    BY <1>2 DEF AcceptGeometry, UpdateVacuum, ApplyForce, SuffixArrives,
                ConsumeTail, SoftRestart, BeginNewton, Converge, Continue,
                ReadFields, Prolong, Publish, Judged, Consuming
  <2> QED
    BY <1>a, <2>1 DEF results
<1>3. CASE PassArrives
  BY <1>3 DEF PassArrives, FieldsInv
<1>4. CASE SolveNewton \/ RejectTrial
  BY <1>4 DEF SolveNewton, RejectTrial, DispatchTrial, FieldsInv, Judged
<1>5. CASE AcceptTrial \/ RollBackTrial
  <2>1. /\ pc' = "accept" /\ evaluated' = scratch /\ fields' = scratch
        /\ scratch' = scratch
    BY <1>5 DEF AcceptTrial, RollBackTrial, ConsumeTrial
  <2> QED
    BY <2>1 DEF FieldsInv
<1>6. CASE FieldsArrive
  BY <1>6 DEF FieldsArrive, FieldsInv, Judged
<1>7. CASE Finished \/ UNCHANGED vars
  BY <1>7 DEF Finished, vars, results, FieldsInv
<1> QED
  BY <1>1, <1>2, <1>3, <1>4, <1>5, <1>6, <1>7 DEF Next

(* A maintenance reset is due when ijacob stands at one of two counts; only  *)
(* a bad Jacobian can bring it there without a vacuum.                       *)
LEMMA ResetIsCounted ==
  ASSUME NEW c \in Controller, MaintenanceDue(c)
  PROVE  ~MaintenanceDue(MaintenanceReset(c))
<1>1. MaintenanceReset(c).ijacob = c.ijacob + 1
  BY DEF MaintenanceReset, Reanchored, Controller
<1> QED
  BY <1>1, PolicyAssumption DEF MaintenanceDue, Controller

LEMMA DueDepends ==
  ASSUME NEW c, NEW d, c.ijacob = d.ijacob
  PROVE  MaintenanceDue(c) <=> MaintenanceDue(d)
BY DEF MaintenanceDue

LEMMA NewNotDue == ~MaintenanceDue(NewController)
BY PolicyAssumption DEF MaintenanceDue, NewController

LEMMA DueInit == Init => DueInv
BY NewNotDue DEF Init, DueInv

(* Without a vacuum only the discard of a bad Jacobian makes a reset due.    *)
LEMMA DueStep ==
  ASSUME TypeOK, BatchInv, HookInv, DueInv, [Next]_vars
  PROVE  DueInv'
<1>0. problem' = problem
  BY DEF Next, vars, FlushDeferred, FlushArrives, Exhaust, Maintenance,
         EnqueuePass, GeometryFallback, PassArrives, RejectGeometry,
         InvalidStart, AcceptGeometry, UpdateVacuum, VacuumThrows, ApplyForce,
         SuffixArrives, SuffixFails, ConsumeTail, SoftRestart, BeginNewton,
         SolveNewton, RejectTrial, AcceptTrial, RollBackTrial,
         RecoverNonfinite, Converge, Continue, Descend, DiscardDescent,
         Enqueued, ReadFields, FieldsArrive, Publish, Prolong, Refine, Fail,
         Finished
<1> SUFFICES ASSUME ~FreeBoundary
             PROVE  DueInv'
  BY <1>0 DEF DueInv, FreeBoundary
<1>1. /\ ~overtaken /\ pc # "soft" /\ ctl \in Controller
      /\ MaintenanceDue(ctl) => pc \in {"run", "flush", "failed"}
                                  /\ (pc = "run" => ~Kept)
  BY DEF DueInv, TypeOK
<1>a. ASSUME ~overtaken', pc' # "soft", ~MaintenanceDue(ctl')
      PROVE  DueInv'
  BY <1>a DEF DueInv
<1>2. CASE FlushDeferred \/ FlushArrives \/ Exhaust \/ Fail
  <2>1. /\ overtaken' = overtaken /\ pc' \in {"run", "flush", "failed"}
        /\ pc' = "run" => deferred' = NoState
    BY <1>2 DEF FlushDeferred, FlushArrives, Commit, Exhaust, Fail, history
  <2> QED
    BY <1>1, <2>1 DEF DueInv, Kept
<1>3. CASE Maintenance
  <2>1. ~Kept
    BY <1>1, <1>3 DEF Maintenance
  <2>2. ~overtaken' /\ pc' = "run" /\ ctl' = MaintenanceReset(ctl)
    BY <1>1, <1>3, <2>1 DEF Maintenance
  <2> QED
    BY <1>1, <1>3, <1>a, <2>2, ResetIsCounted DEF Maintenance
<1>4. CASE EnqueuePass \/ GeometryFallback \/ PassArrives \/ AcceptGeometry
             \/ UpdateVacuum \/ VacuumThrows \/ ApplyForce \/ SuffixArrives
             \/ SuffixFails \/ ConsumeTail \/ BeginNewton \/ SolveNewton
             \/ RejectTrial \/ RollBackTrial \/ Converge \/ Continue
             \/ ReadFields \/ FieldsArrive \/ Publish \/ Prolong
  <2>1. ctl' = ctl /\ overtaken' = overtaken
    BY <1>4 DEF EnqueuePass, GeometryFallback, PassArrives, AcceptGeometry,
                UpdateVacuum, VacuumThrows, ApplyForce, SuffixArrives,
                SuffixFails, ConsumeTail, BeginNewton, SolveNewton,
                RejectTrial, DispatchTrial, RollBackTrial, Converge, Continue,
                ReadFields, FieldsArrive, Publish, Prolong, control,
                history
  <2>2. ~MaintenanceDue(ctl)
    BY <1>1, <1>4 DEF EnqueuePass, GeometryFallback, PassArrives,
                AcceptGeometry, UpdateVacuum, VacuumThrows, ApplyForce,
                SuffixArrives, SuffixFails, ConsumeTail, BeginNewton,
                SolveNewton, RejectTrial, RollBackTrial, Converge, Continue,
                ReadFields, FieldsArrive, Publish, Prolong
  <2>3. ~vac.soft
    BY DEF HookInv, NoVacuum
  <2>4. pc' # "soft"
    BY <1>4, <2>3 DEF EnqueuePass, GeometryFallback, PassArrives,
                AcceptGeometry, UpdateVacuum, VacuumThrows, ApplyForce,
                SuffixArrives, SuffixFails, ConsumeTail, BeginNewton,
                SolveNewton, RejectTrial, DispatchTrial, RollBackTrial,
                ConsumeTrial, Converge, Continue, ReadFields, FieldsArrive,
                Publish, Prolong, Stopped
  <2> QED
    BY <1>1, <1>a, <2>1, <2>2, <2>4
<1>5. CASE RejectGeometry \/ InvalidStart \/ RecoverNonfinite
  <2>1. /\ pc \in {"accept", "classify"} /\ ctl' = Rejected(ctl)
        /\ overtaken' = overtaken /\ pc' # "soft"
    BY <1>5 DEF RejectGeometry, InvalidStart, RecoverNonfinite, history
  <2>2. Rejected(ctl).ijacob = ctl.ijacob
    BY <1>1 DEF Rejected, Reanchored, Controller
  <2> QED
    BY <1>1, <1>a, <2>1, <2>2, DueDepends
<1>6. CASE SoftRestart
  BY <1>1, <1>6 DEF SoftRestart
<1>7. CASE AcceptTrial
  <2>1. /\ pc = "trial" /\ ctl' = ResetCorrectionMomentum(ctl)
        /\ overtaken' = overtaken /\ pc' = "accept"
    BY <1>7 DEF AcceptTrial, ConsumeTrial, history
  <2> QED
    BY <1>1, <1>a, <2>1, KeepsCounters, DueDepends
<1>8. CASE Descend
  <2>1. /\ pc = "descend" /\ ctl' \in AfterGoodDescent(Decided, FALSE)
        /\ overtaken' = overtaken /\ pc' = "run"
    BY <1>8 DEF Descend, Enqueued
  <2>2. Decided \in Controller /\ Decided.ijacob = ctl.ijacob
    BY <1>1, DecidedController, KeepsCounters DEF Decided
  <2>3. ctl'.ijacob = ctl.ijacob
    BY <2>1, <2>2, GoodDescentController
  <2> QED
    BY <1>1, <1>a, <2>1, <2>3, DueDepends
<1>9. CASE DiscardDescent
  <2>1. overtaken' = overtaken /\ pc' = "run" /\ ~decision'.keep
    BY <1>9 DEF DiscardDescent, Enqueued
  <2> QED
    BY <1>1, <2>1 DEF DueInv, Kept
<1>10. CASE Refine
  <2>1. ctl' = NewController /\ overtaken' = overtaken /\ pc' = "run"
    BY <1>10 DEF Refine, StageBegins
  <2> QED
    BY <1>1, <1>a, <2>1, NewNotDue
<1>11. CASE Finished \/ UNCHANGED vars
  BY <1>11 DEF Finished, vars, control, states, history, DueInv, Kept
<1> QED
  BY <1>2, <1>3, <1>4, <1>5, <1>6, <1>7, <1>8, <1>9, <1>10, <1>11 DEF Next
(* Everything together.                                                      *)
Inv ==
  /\ TypeOK /\ BatchInv /\ HookInv /\ DiscardInv /\ TrialInv /\ CommitInv
  /\ FieldsInv /\ DueInv

LEMMA InvInit == Init => Inv
<1> SUFFICES ASSUME Init PROVE Inv
  OBVIOUS
<1>1. DiscardInv /\ TrialInv /\ CommitInv /\ FieldsInv
  BY DEF Init, DiscardInv, TrialInv, CommitInv, FieldsInv, Cleared, Dispatched,
         Committed, Kept, Judged, Consuming
<1> QED
  BY <1>1, TypeInit, BatchInit, HookInit, DueInit DEF Inv

LEMMA InvStep == Inv /\ [Next]_vars => Inv'
<1> SUFFICES ASSUME Inv, [Next]_vars PROVE Inv'
  OBVIOUS
<1>1. TypeOK /\ BatchInv /\ HookInv /\ DiscardInv /\ TrialInv /\ CommitInv
        /\ FieldsInv /\ DueInv /\ FlushInv
  BY DEF Inv, BatchInv, FlushInv
<1> QED
  BY <1>1, TypeStep, BatchStep, HookStep, DiscardStep, TrialStep, CommitStep,
     FieldsStep, DueStep DEF Inv

LEMMA InvAlways == Spec => []Inv
BY InvInit, InvStep, PTL DEF Spec

(* What the host consumes is the evaluation of the state it holds, unless a  *)
(* maintenance reset fell between a kept descent and its commit.             *)
THEOREM MaintenanceOvertakes == Spec => []OnlyMaintenanceOvertakes
<1>1. Inv => OnlyMaintenanceOvertakes
  BY DEF Inv, CommitInv, Judged, OnlyMaintenanceOvertakes
<1> QED
  BY <1>1, InvAlways, PTL

(* Without a vacuum it always is: docs/webgpu-port.md has the results        *)
(* processed by "checkpoint rules, and controller in their original order".  *)
THEOREM FixedBoundaryCommits == Spec => [](~FreeBoundary => EvaluatedIsCommitted)
<1>1. Inv /\ ~FreeBoundary => EvaluatedIsCommitted
  <2> SUFFICES ASSUME Inv, ~FreeBoundary, pc \in Consuming, ~softened
               PROVE  host = evaluated /\ deferred = NoState
    BY DEF EvaluatedIsCommitted
  <2>1. deferred = NoState
    BY Settled DEF Inv, Consuming, InFlight
  <2>2. host = evaluated
    BY DEF Inv, DueInv, CommitInv, Judged
  <2> QED
    BY <2>1, <2>2
<1> QED
  BY <1>1, InvAlways, PTL

(* A descent starts from the state just judged, with the momentum that       *)
(* belongs to it, after any sequence of commits, restores and corrections.   *)
THEOREM DescentMatches == Spec => []DescentMatchesEvaluation
<1>1. Inv => DescentMatchesEvaluation
  <2> SUFFICES ASSUME Inv, pc = "descend", ~softened, ~overtaken
               PROVE  DescentBase = evaluated
                        /\ (dev.velocity \/ velocity = "zero")
    BY DEF DescentMatchesEvaluation
  <2>1. deferred = NoState
    BY Settled DEF Inv, InFlight
  <2>2. host = evaluated /\ (dev.descent # NoState => dev.descent = host)
    BY <2>1 DEF Inv, CommitInv, Judged, Committed
  <2>3. dev.velocity \/ velocity = "zero"
    BY DEF Inv, CommitInv, TypeOK
  <2> QED
    BY <2>2, <2>3 DEF DescentBase
<1> QED
  BY <1>1, InvAlways, PTL

(* The published fields and spectral state are of one equilibrium.           *)
THEOREM PublishedMatch == Spec => []PublishedFieldsMatchState
<1>1. Inv => PublishedFieldsMatchState
  BY DEF Inv, CommitInv, FieldsInv, Judged, PublishedFieldsMatchState
<1> QED
  BY <1>1, InvAlways, PTL

-----------------------------------------------------------------------------
(* The pipeline is a serial stage, when a descent counts from the moment it  *)
(* is enqueued: the variables of SerialStage, as the INSTANCE maps them.     *)
Seen == IF Kept THEN deferred ELSE host
Still == ~Kept /\ velocity = "zero" /\ ~dev.velocity
Fallback == IF deferred # NoState /\ decision.refresh THEN deferred ELSE checkpoint

LEMMA SerialInit == Init => S!Init
BY DEF Init, S!Init, Kept, Cleared, NewController

LEMMA SerialStutter ==
  ASSUME Seen' = Seen, Still' <=> Still, Fallback' = Fallback,
         ctl'.iter2 = ctl.iter2
  PROVE  [S!Next]_(S!svars)
BY DEF S!svars, Seen, Still, Fallback, Kept

LEMMA SerialFallBack ==
  ASSUME Seen' = Fallback, Still', Fallback' = Fallback, ctl'.iter2 = ctl.iter2
  PROVE  [S!Next]_(S!svars)
<1>1. S!FallBack
  BY DEF S!FallBack, Seen, Still, Fallback, Kept
<1> QED
  BY <1>1 DEF S!Next

LEMMA SerialStep ==
  ASSUME TypeOK, BatchInv, DiscardInv, TrialInv, [Next]_vars
  PROVE  [S!Next]_(S!svars)
<1>b. pc \notin {"run", "failed"} \cup InFlight => deferred = NoState
  BY Settled
<1>c. NoState \notin State /\ ctl \in Controller
  BY BrowserAssumption DEF TypeOK
<1>1. CASE FlushDeferred \/ Exhaust \/ EnqueuePass \/ GeometryFallback
             \/ AcceptGeometry \/ UpdateVacuum \/ VacuumThrows
             \/ ApplyForce \/ SuffixArrives \/ SuffixFails \/ ConsumeTail
             \/ BeginNewton \/ SolveNewton \/ RejectTrial \/ Converge
             \/ Continue \/ ReadFields \/ FieldsArrive \/ Publish \/ Prolong
             \/ Fail \/ InvalidStart \/ Finished \/ UNCHANGED vars
  <2>1. /\ UNCHANGED <<states, decision>>
        /\ ctl' = ctl \/ ctl' = Rejected(ctl)
    BY <1>1 DEF FlushDeferred, Exhaust, EnqueuePass, GeometryFallback,
                InvalidStart, AcceptGeometry, UpdateVacuum, VacuumThrows,
                ApplyForce, SuffixArrives, SuffixFails, ConsumeTail,
                BeginNewton, SolveNewton, RejectTrial, DispatchTrial, Converge,
                Continue, ReadFields, FieldsArrive, Publish, Prolong, Fail,
                Finished, vars, control
  <2>2. ctl'.iter2 = ctl.iter2
    BY <1>c, <2>1, ControllerMoves
  <2>3. Seen' = Seen /\ (Still' <=> Still) /\ Fallback' = Fallback
    BY <2>1 DEF states, Seen, Still, Fallback, Kept
  <2> QED
    BY <2>2, <2>3, SerialStutter
<1>2. CASE FlushArrives \/ PassArrives
  <2>1. CommitAny /\ UNCHANGED <<ctl, decision>>
    BY <1>2 DEF FlushArrives, PassArrives, CommitAny, BatchInv, control
  <2>2. CASE deferred = NoState
    BY <2>1, <2>2, SerialStutter DEF CommitAny, states, Seen, Still, Fallback,
                                     Kept
  <2>3. CASE deferred # NoState /\ decision.keep
    BY <2>1, <2>3, SerialStutter DEF CommitAny, Commit, Seen, Still, Fallback,
                                     Kept
  <2>4. CASE deferred # NoState /\ ~decision.keep
    BY <2>1, <2>4, SerialStutter DEF CommitAny, Commit, DiscardInv, Cleared,
                                     Seen, Still, Fallback, Kept
  <2> QED
    BY <2>2, <2>3, <2>4
<1>3. CASE Maintenance
  <2>1. /\ Restore /\ UNCHANGED <<checkpoint, deferred, decision>>
        /\ ctl'.iter2 = ctl.iter2
    BY <1>c, <1>3, ControllerMoves DEF Maintenance
  <2>2. CASE Kept
    BY <2>1, <2>2, SerialStutter DEF Seen, Still, Fallback, Kept
  <2>3. CASE ~Kept
    BY <2>1, <2>3, SerialFallBack DEF Restore, Cleared, DiscardInv, Seen, Still,
                                      Fallback, Kept
  <2> QED
    BY <2>2, <2>3
<1>4. CASE RejectGeometry \/ RecoverNonfinite \/ SoftRestart
  <2>1. /\ Restore /\ UNCHANGED <<checkpoint, deferred, decision>>
        /\ ctl' \in {Rejected(ctl), VacuumSoftRestart(ctl)}
        /\ pc \in {"accept", "classify", "soft"}
    BY <1>4 DEF RejectGeometry, RecoverNonfinite, SoftRestart
  <2>2. ctl'.iter2 = ctl.iter2 /\ deferred = NoState
    BY <1>b, <1>c, <2>1, ControllerMoves DEF InFlight
  <2> QED
    BY <2>1, <2>2, SerialFallBack DEF Restore, Cleared, Seen, Still, Fallback,
                                      Kept
<1>5. CASE AcceptTrial
  <2>1. /\ UNCHANGED <<checkpoint, deferred, decision>> /\ deferred = NoState
        /\ host' = scratch /\ scratch \in Oriented /\ velocity' = "zero"
        /\ dev' = [iteration |-> scratch, descent |-> scratch, velocity |-> FALSE]
        /\ ctl'.iter2 = ctl.iter2
    BY <1>b, <1>c, <1>5, KeepsCounters
       DEF AcceptTrial, ConsumeTrial, InFlight
  <2>2. S!Correct
    BY <2>1 DEF S!Correct, Kept
  <2> QED
    BY <2>2 DEF S!Next
<1>6. CASE RollBackTrial
  <2>1. /\ UNCHANGED <<checkpoint, deferred, decision, velocity>>
        /\ deferred = NoState /\ host' = host
        /\ dev'.velocity = dev.velocity /\ ctl' = ctl
    BY <1>b, <1>6 DEF RollBackTrial, ConsumeTrial, InFlight, TrialInv, control,
                      TypeOK
  <2> QED
    BY <2>1, SerialStutter DEF Seen, Still, Fallback, Kept
<1>7. CASE Descend
  <2>1. PICK growth \in PossibleGrowth(ctl), result \in State :
          /\ Enqueued(result)
          /\ decision' = [refresh |-> WantsRefresh(ctl, growth), keep |-> TRUE]
          /\ dev' = [iteration |-> result, descent |-> result, velocity |-> TRUE]
          /\ ctl' \in AfterGoodDescent(Decided, FALSE)
    BY <1>7 DEF Descend
  <2>2. /\ deferred' = result /\ decision'.keep /\ checkpoint' = checkpoint
        /\ deferred = NoState
    BY <1>b, <2>1 DEF Enqueued, InFlight
  <2>3. Decided \in Controller /\ Decided.iter2 = ctl.iter2
    BY <1>c, DecidedController, KeepsCounters DEF Decided
  <2>4. ctl'.iter2 = ctl.iter2 + 1 /\ ctl.iter2 \in Nat
    BY <1>c, <2>1, <2>3, GoodDescentController DEF Controller
  <2>5. /\ Seen' = result /\ ~Still'
        /\ Fallback' \in {Fallback, result}
    BY <1>c, <2>2 DEF Seen, Still, Fallback, Kept
  <2>6. S!Keep
    BY <2>4, <2>5 DEF S!Keep, Seen, Still, Fallback, Kept
  <2> QED
    BY <2>6 DEF S!Next
<1>8. CASE DiscardDescent
  <2>1. /\ decision' = [refresh |-> FALSE, keep |-> FALSE]
        /\ Restore /\ checkpoint' = checkpoint /\ deferred = NoState
        /\ ctl' \in {AfterBadJacobian(Decided), AfterBadProgress(Decided)}
    BY <1>b, <1>8 DEF DiscardDescent, Enqueued, InFlight
  <2>2. Decided \in Controller /\ Decided.iter2 = ctl.iter2
    BY <1>c, DecidedController, KeepsCounters DEF Decided
  <2>3. ctl'.iter2 = ctl.iter2
    BY <2>1, <2>2, ControllerMoves
  <2> QED
    BY <2>1, <2>3, SerialFallBack DEF Restore, Cleared, Seen, Still, Fallback,
                                      Kept
<1>9. CASE Refine
  <2>1. /\ UNCHANGED <<deferred, decision>> /\ deferred = NoState
        /\ ctl' = NewController
    BY <1>b, <1>9 DEF Refine, StageBegins, InFlight
  <2>2. PICK s \in State : StageBegins(s)
    BY <1>9 DEF Refine
  <2>3. S!Refine
    BY <2>1, <2>2 DEF StageBegins, S!Refine, Kept, Cleared, NewController
  <2> QED
    BY <2>3 DEF S!Next
<1> QED
  BY <1>1, <1>2, <1>3, <1>4, <1>5, <1>6, <1>7, <1>8, <1>9 DEF Next

(* Callbacks, deferred commits and maintenance resets that overtake them are *)
(* not visible: one state, its momentum, checkpoint and count of descents    *)
(* change as they would if every descent were committed at once.             *)
THEOREM PipelineIsSerial == Spec => SerialSpec
<1>1. Inv /\ [Next]_vars => [S!Next]_(S!svars)
  BY SerialStep DEF Inv
<1> QED
  BY <1>1, SerialInit, InvAlways, PTL DEF Spec, SerialSpec, S!Spec
=============================================================================
