--------------------------- MODULE Methods_proofs ---------------------------
(* What the methods of the controller and of the vacuum operator return, for *)
(* every value of the control policy: the lemmas that the proofs about the   *)
(* native and about the browser's loop share.                                *)
EXTENDS IterationController, VacuumCoupling, TLAPS

-----------------------------------------------------------------------------
(* The controller's and the vacuum operator's methods return well-formed     *)
(* values, and move the fields the later proofs look at as stated.           *)

LEMMA ControllerMethods ==
  ASSUME NEW c \in Controller
  PROVE  /\ MaintenanceReset(c) \in Controller
         /\ Rejected(c) \in Controller
         /\ VacuumSoftRestart(c) \in Controller
         /\ ResetCorrectionMomentum(c) \in Controller
         /\ AfterBadJacobian(c) \in Controller
         /\ AfterBadProgress(c) \in Controller
         /\ Advanced(c) \in Controller
<1>1. Reanchored(c) \in Controller
  BY DEF Controller, Reanchored
<1>2. MaintenanceReset(c) \in Controller
  <2> DEFINE r == Reanchored(c)
  <2>1. MaintenanceReset(c) = [r EXCEPT !.ijacob = r.ijacob + 1,
                                        !.step = "reduced"]
    BY DEF MaintenanceReset
  <2>2. r \in Controller /\ r.ijacob + 1 \in Nat /\ "reduced" \in Steps
    BY <1>1 DEF Controller, Steps
  <2> QED
    BY <2>1, <2>2 DEF Controller
<1>3. Rejected(c) \in Controller
  BY <1>1 DEF Controller, Rejected, Steps
<1>4. VacuumSoftRestart(c) \in Controller
  BY <1>1 DEF Controller, VacuumSoftRestart
<1>5. ResetCorrectionMomentum(c) \in Controller
  BY DEF Controller, ResetCorrectionMomentum, Baselines
<1>6. AfterBadJacobian(c) \in Controller /\ AfterBadProgress(c) \in Controller
  BY <1>3 DEF Controller, AfterBadJacobian, AfterBadProgress
<1>7. Advanced(c) \in Controller
  BY DEF Controller, Advanced
<1> QED
  BY <1>2, <1>3, <1>4, <1>5, <1>6, <1>7

LEMMA DecidedController ==
  ASSUME NEW c \in Controller, NEW law \in {"interior", "coupled"}
  PROVE  Baselined(c, law) \in Controller
BY DEF Controller, Baselined, Baselines

LEMMA GoodDescentController ==
  ASSUME NEW c \in Controller, NEW enabled \in BOOLEAN,
         NEW d \in AfterGoodDescent(c, enabled)
  PROVE  /\ d \in Controller
         /\ d.iter2 = c.iter2 + 1 /\ d.iter1 = c.iter1 /\ d.ijacob = c.ijacob
<1>1. Advanced(c) \in Controller /\ Advanced(c).iter2 = c.iter2 + 1
        /\ Advanced(c).iter1 = c.iter1 /\ Advanced(c).ijacob = c.ijacob
  BY DEF Controller, Advanced
<1>2. CASE d = Advanced(c)
  BY <1>1, <1>2
<1>3. CASE \E s \in Steps :
             d = [Advanced(c) EXCEPT !.step = s, !.recoveryTried = TRUE]
  BY <1>1, <1>3 DEF Controller
<1> QED
  BY <1>2, <1>3 DEF AfterGoodDescent

LEMMA StageStartTypes == StageStartVacuum \subseteq Vacuum /\ NoVacuum \in Vacuum
BY VacSkipAssumption DEF StageStartVacuum, NoVacuum, Vacuum, VacuumStates

LEMMA AdvanceTypes ==
  ASSUME NEW v \in Vacuum, NEW i2 \in Nat, NEW i1 \in Nat, NEW s,
         NEW w \in AdvancedVacuum(v, i2, i1, s)
  PROVE  w \in Vacuum
<1>1. CASE ~RunsBlock(v, i2)
  BY <1>1 DEF AdvancedVacuum, Vacuum
<1>2. CASE RunsBlock(v, i2)
  <2>1. FullUpdate(v, i2, i1, s) \in BOOLEAN
    BY DEF FullUpdate
  <2>2. (IF Ramps(v, s) THEN Successor[v.state] ELSE v.state) \in VacuumStates
    <3>1. v.state \in VacuumStates /\ (Ramps(v, s) => v.state # "ACTIVE")
      BY DEF Vacuum, Ramps
    <3>2. /\ Successor["OFF"] = "INITIALIZING"
          /\ Successor["INITIALIZING"] = "INITIALIZED"
          /\ Successor["INITIALIZED"] = "ACTIVE"
      BY DEF Successor
    <3> QED
      BY <3>1, <3>2 DEF VacuumStates
  <2>3. PICK n \in IF FullUpdate(v, i2, i1, s)
                    THEN v.nvacskip .. MaxVacSkip ELSE {v.nvacskip} :
          w = [v EXCEPT !.run = TRUE, !.soft = FALSE,
                        !.full = FullUpdate(v, i2, i1, s),
                        !.state = IF Ramps(v, s) THEN Successor[@] ELSE @,
                        !.nvacskip = n]
    BY <1>2 DEF AdvancedVacuum
  <2>4. n \in 1 .. MaxVacSkip
    BY <2>3, VacSkipAssumption DEF Vacuum
  <2> QED
    BY <2>1, <2>2, <2>3, <2>4 DEF Vacuum
<1> QED
  BY <1>1, <1>2

LEMMA UpdateTypes ==
  ASSUME NEW v \in Vacuum
  PROVE  UpdatedVacuum(v) \in Vacuum /\ IterationEnd(v) \in Vacuum
<1> DEFINE s == Promoted(v.state)
<1>1. s \in VacuumStates
  BY DEF Promoted, Vacuum, VacuumStates
<1>2. /\ (v.factors \/ v.full) \in BOOLEAN
      /\ (s = "INITIALIZED") \in BOOLEAN
      /\ (s \in {"INITIALIZED", "ACTIVE"}) \in BOOLEAN
  OBVIOUS
<1>3. UpdatedVacuum(v) \in Vacuum
  <2> HIDE DEF s
  <2> QED
    BY <1>1, <1>2 DEF UpdatedVacuum, Vacuum, s
<1>4. IterationEnd(v) \in Vacuum
  BY DEF IterationEnd, Vacuum, VacuumStates
<1> QED
  BY <1>3, <1>4

(* The counters, on which every schedule depends.                            *)
LEMMA ControllerMoves ==
  ASSUME NEW c \in Controller,
         NEW d \in {MaintenanceReset(c), Rejected(c), VacuumSoftRestart(c),
                    AfterBadJacobian(c), AfterBadProgress(c)}
  PROVE  d.iter2 = c.iter2 /\ d.iter1 = c.iter2
<1>1. /\ Reanchored(c).iter2 = c.iter2 /\ Reanchored(c).iter1 = c.iter2
      /\ Rejected(c).iter2 = c.iter2 /\ Rejected(c).iter1 = c.iter2
  BY DEF Controller, Reanchored, Rejected
<1> QED
  BY <1>1 DEF Controller, MaintenanceReset, VacuumSoftRestart,
              AfterBadJacobian, AfterBadProgress, Reanchored, Rejected

LEMMA KeepsCounters ==
  ASSUME NEW c \in Controller, NEW law,
         NEW d \in {Baselined(c, law), ResetCorrectionMomentum(c)}
  PROVE  d.iter2 = c.iter2 /\ d.iter1 = c.iter1 /\ d.ijacob = c.ijacob
BY DEF Controller, Baselined, ResetCorrectionMomentum
=============================================================================
