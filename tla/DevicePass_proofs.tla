-------------------------- MODULE DevicePass_proofs -------------------------
(* Replaying graphs, and what the kernels of a pass leave in the device's    *)
(* buffers, proved for any states, schedule shapes and cadence.              *)
EXTENDS DevicePass, TLAPS

-----------------------------------------------------------------------------
(* The loop that replays graphs, for which a pass is one step.               *)

(* A graph that has been captured for a pass without refresh has frozen the  *)
(* factors of the host: whenever these change, the graphs are dropped.       *)
GraphsCurrent == \A s \in Shapes : normGraphs[s] \in {Empty, host}

(* Where the factors of the pass at the fence come from.                     *)
Provenance ==
  pc = "fence" =>
    /\ IF refreshing THEN used = record ELSE used = host
    /\ refreshing => age = 0 /\ (record # Unset <=> valid)
    /\ ~refreshing => age # 0
    /\ refreshing /\ converged => valid

(* Away from the anchor, the host has factors.                               *)
HostHasFactors == age # 0 => host # Unset

ReplayInv == TypeOK /\ GraphsCurrent /\ Provenance /\ HostHasFactors

LEMMA AgeAdvances ==
  ASSUME NEW a \in Ages PROVE (a + 1) % RefreshInterval \in Ages
<1>1. CASE a + 1 = RefreshInterval
  <2>1. (a + 1) % RefreshInterval = 0
    BY <1>1, FactorsAssumption DEF Ages
  <2> QED
    BY <2>1, FactorsAssumption DEF Ages
<1>2. CASE a + 1 < RefreshInterval
  <2>1. (a + 1) % RefreshInterval = a + 1
    BY <1>2, FactorsAssumption DEF Ages
  <2> QED
    BY <2>1, <1>2, FactorsAssumption DEF Ages
<1> QED
  BY <1>1, <1>2, FactorsAssumption DEF Ages

LEMMA ReplayInductive == Spec => []ReplayInv
<1>1. Init => ReplayInv
  <2> SUFFICES ASSUME Init PROVE ReplayInv
    OBVIOUS
  <2>1. 0 \in Ages
    BY FactorsAssumption DEF Ages
  <2>2. NoGraphs \in [Shapes -> Factors \cup {Empty}] /\ \A s \in Shapes : NoGraphs[s] = Empty
    BY DEF NoGraphs
  <2>3. TypeOK
    BY <2>1, <2>2, FactorsAssumption DEF Init, TypeOK
  <2> QED
    BY <2>2, <2>3 DEF Init, ReplayInv, GraphsCurrent, Provenance, HostHasFactors
<1>2. ReplayInv /\ [Next]_vars => ReplayInv'
  <2> SUFFICES ASSUME ReplayInv, [Next]_vars PROVE ReplayInv'
    OBVIOUS
  <2> USE FactorsAssumption
      DEF ReplayInv, TypeOK, GraphsCurrent, Provenance, HostHasFactors
  <2>1. CASE MaintenanceReset
    BY <2>1 DEF MaintenanceReset, pass, Ages
  <2>2. ASSUME NEW s \in Shapes, ReplayRefresh(s) PROVE ReplayInv'
    <3>1. record' \in Factors /\ (record' # Unset <=> valid')
      BY <2>2 DEF ReplayRefresh
    <3>2. converged' \in BOOLEAN /\ (converged' => valid')
      BY <2>2 DEF ReplayRefresh, Classify
    <3>3. refreshGraphs' \subseteq Shapes
      BY <2>2 DEF ReplayRefresh
    <3>4. GraphsCurrent' /\ HostHasFactors'
      BY <2>2 DEF ReplayRefresh
    <3>5. Provenance'
      BY <2>2, <3>1, <3>2 DEF ReplayRefresh
    <3> QED
      BY <2>2, <3>1, <3>2, <3>3, <3>4, <3>5 DEF ReplayRefresh
  <2>3. ASSUME NEW s \in Shapes, ReplayNorm(s) PROVE ReplayInv'
    <3>1. used' = host /\ normGraphs' \in [Shapes -> Factors \cup {Empty}]
      BY <2>3 DEF ReplayNorm, Captured, Empty
    <3>2. GraphsCurrent'
      BY <2>3 DEF ReplayNorm, Captured, Empty
    <3> QED
      BY <2>3, <3>1, <3>2 DEF ReplayNorm, Classify
  <2>4. CASE Correct
    BY <2>4 DEF Correct, Classify
  <2>5. CASE Reject
    BY <2>5 DEF Reject, pass, Ages
  <2>6. CASE Accept
    <3>1. age' \in Ages
      BY <2>6, AgeAdvances DEF Accept, Ages
    <3>2. host' \in Factors /\ host' # Unset
      BY <2>6 DEF Accept
    <3>3. /\ normGraphs' \in [Shapes -> Factors \cup {Empty}]
          /\ GraphsCurrent'
      BY <2>6 DEF Accept, NoGraphs
    <3> QED
      BY <2>6, <3>1, <3>2, <3>3 DEF Accept, pass
  <2>7. CASE UNCHANGED vars
    BY <2>7 DEF vars, pass
  <2> QED
    BY <2>1, <2>2, <2>3, <2>4, <2>5, <2>6, <2>7 DEF Next
<1> QED
  BY <1>1, <1>2, PTL DEF Spec

(* Every cached graph, flag and set of factors keeps its type, for every     *)
(* refresh cadence and schedule shape: an empty graph is never launched.     *)
THEOREM ReplayTypeCorrect == Spec => []TypeOK
  BY ReplayInductive, PTL DEF ReplayInv

(* No residual is ever called converged with factors nobody has computed.    *)
THEOREM ConvergenceIsMeasured == Spec => []ConvergedIsMeasured
<1>1. ReplayInv => ConvergedIsMeasured
  BY DEF ReplayInv, Provenance, HostHasFactors, ConvergedIsMeasured
<1> QED
  BY <1>1, ReplayInductive, PTL

(* Replaying graphs is indistinguishable, at the decision of the host, from  *)
(* enqueueing every pass afresh with the factors it holds.                   *)
THEOREM ReplayImplementsDirect == Spec => PassFactorsSpec
<1>1. Init => D!Init
  BY DEF Init, D!Init
<1>2. ReplayInv /\ [Next]_vars => [D!Next]_<<host, used, valid, pc>>
  <2> SUFFICES ASSUME ReplayInv, [Next]_vars
               PROVE [D!Next]_<<host, used, valid, pc>>
    OBVIOUS
  <2> USE DEF ReplayInv, TypeOK, D!Next
  <2>1. CASE MaintenanceReset
    BY <2>1 DEF MaintenanceReset, pass
  <2>2. ASSUME NEW s \in Shapes, ReplayRefresh(s) PROVE D!Next
    BY <2>2, FactorsAssumption DEF ReplayRefresh, D!Evaluate
  <2>3. ASSUME NEW s \in Shapes, ReplayNorm(s) PROVE D!Next
    BY <2>3 DEF ReplayNorm, Captured, GraphsCurrent, Empty, D!Evaluate
  <2>4. CASE Correct
    BY <2>4 DEF Correct, D!Reevaluate
  <2>5. CASE Reject
    BY <2>5 DEF Reject, pass, D!Discard
  <2>6. CASE Accept
    BY <2>6 DEF Accept, pass, Provenance, D!Decide
  <2>7. CASE UNCHANGED vars
    BY <2>7 DEF vars, pass
  <2> QED
    BY <2>1, <2>2, <2>3, <2>4, <2>5, <2>6, <2>7 DEF Next
<1> QED
  BY <1>1, <1>2, ReplayInductive, PTL DEF Spec, PassFactorsSpec, D!Spec

-----------------------------------------------------------------------------
(* The device.  Where the stream is:                                         *)
InFlight == {"inverse", "jacobian", "field", "vacuum", "caches", "force", "edge",
             "constraint", "forward", "predicate", "precondition", "fence"}
Between == {"idle", "probed", "judged", "stopped"}

PastInverse == InFlight \ {"inverse"}
PastJacobian == PastInverse \ {"jacobian"}
PastField == PastJacobian \ {"field"}
PastVacuum == PastField \ {"vacuum"}
PastCaches == PastVacuum \ {"caches"}
PastForce == PastCaches \ {"force"}
PastEdge == PastForce \ {"edge"}
PastConstraint == PastEdge \ {"constraint"}
PastForward == PastConstraint \ {"forward"}
PastPredicate == PastForward \ {"predicate"}
PastPreconditioner == PastPredicate \ {"precondition"}

(* What the kernels of one pass write.                                       *)
GeometryOf(s) == [axis |-> s, r |-> s, z |-> s, lambda |-> s, rCon |-> s,
                  zCon |-> s, metric |-> s]

FieldOf(s) ==
  IF EvolveCurrent
  THEN [bsup |-> [of |-> s, chi |-> s], bsub |-> s, profiles |-> s,
        fullProfiles |-> s]
  ELSE [bsup |-> [of |-> s, chi |-> None], bsub |-> s, profiles |-> None,
        fullProfiles |-> None]

PreconOf(s) == [half |-> s, offDiagonal |-> s, diagonal |-> s, matrix |-> s,
                scale |-> s, averages |-> s, lambda |-> s]

References == [of : States \cup {None}, decays : Nat]
Accurate == Oriented \cup {None}

Filtered(s, ref, mult) ==
  [eff |-> [geometry |-> s, reference |-> ref], tcon |-> mult]

ConstraintOf(s, ref, mult) ==
  [gCon |-> Filtered(s, ref, mult), geometry |-> s, reference |-> ref]

-----------------------------------------------------------------------------
(* The inductive invariant.                                                  *)
IsScratch(scratch) == scratch = [spectra |-> scratch.spectra, zeta |-> scratch.zeta]

IsTransform(t) ==
  /\ t = [backend |-> t.backend, main |-> t.main, compact |-> t.compact]
  /\ IsScratch(t.main) /\ IsScratch(t.compact)

IsForces(f) == f = [mhd |-> f.mhd, edge |-> f.edge, constraint |-> f.constraint,
                    frcon |-> f.frcon]

IsConstraint(g) == g = [eff |-> g.eff, con |-> g.con]

IsResidual(r) ==
  r = [mhd |-> r.mhd, constraint |-> r.constraint, edge |-> r.edge, odd |-> r.odd,
       gauge |-> r.gauge, m1 |-> r.m1, rz |-> r.rz, lambda |-> r.lambda]

IsControl(c) ==
  c = [stats |-> c.stats, valid |-> c.valid, partials |-> c.partials, rz |-> c.rz,
       norms |-> c.norms, raw |-> c.raw, used |-> c.used, verdict |-> c.verdict,
       evaluated |-> c.evaluated]

ScheduleType ==
  [refresh : BOOLEAN, reset : BOOLEAN, gauge : Shapes, factors : Factors,
   decay : BOOLEAN, vacuum : BOOLEAN, full : BOOLEAN, edge : BOOLEAN]

BufferTypes ==
  /\ IsTransform(transform) /\ IsForces(forces) /\ IsConstraint(gcon)
  /\ IsResidual(residual) /\ IsControl(control) /\ control.valid \in BOOLEAN
  /\ geometry \in {NoGeometry} \cup {GeometryOf(s) : s \in States}
  /\ field \in {NoField} \cup {FieldOf(s) : s \in Oriented}
  /\ precon \in {NoPrecon} \cup {PreconOf(s) : s \in Oriented}
  /\ tcon \in Accurate /\ reference \in References
  /\ vacuum \in [boundary : States \cup {None}, currents : Accurate,
                 factors : States \cup {None}]

HostTypes ==
  /\ TypeOK
  /\ state \in States /\ fresh \in BOOLEAN /\ schedule \in ScheduleType
  /\ coupling \in {"fixed", "off", "initializing", "initialized", "active"}
  /\ kernel \in InFlight \cup Between
  /\ newton.phase \in {"none", "solve", "trial", "restore", "done"}
  /\ newton = [phase |-> newton.phase, base |-> newton.base,
               before |-> newton.before, probes |-> newton.probes,
               breakdown |-> newton.breakdown]

(* The stream runs for one pass of the loop, or for a Newton step at its     *)
(* fence.                                                                    *)
Correcting == newton.phase \in {"solve", "trial", "restore"}

StreamInv ==
  /\ kernel \in InFlight =>
       IF Correcting THEN pc = "fence" ELSE pc = "top" /\ newton.phase = "none"
  /\ kernel = "probed" => newton.phase = "solve"
  /\ kernel = "judged" => newton.phase = "trial"
  /\ kernel \in {"idle", "stopped"} => newton.phase \in {"none", "done", "solve"}
  /\ newton.phase = "solve" => kernel # "stopped"
  /\ Correcting => pc = "fence"
  /\ entry = << >> <=> kernel \notin InFlight

(* The schedule, and that of the pass in flight.                             *)
ScheduleInv ==
  /\ schedule.full => schedule.vacuum
  /\ coupling = "fixed" => ~schedule.vacuum /\ ~schedule.edge /\ ~schedule.decay
  /\ Correcting => /\ ~schedule.refresh /\ ~schedule.reset /\ schedule.gauge = "fixed"
                   /\ schedule.factors = host /\ coupling = "fixed"
  /\ kernel = "vacuum" => schedule.vacuum
  /\ kernel \in InFlight =>
       /\ schedule.factors = host
       /\ ~Correcting => (schedule.refresh <=> age = 0)
       /\ coupling \in {"initializing", "initialized", "active"} => schedule.vacuum
       /\ IF kernel \in PastVacuum
          THEN /\ schedule.edge <=> coupling \in {"initialized", "active"}
               /\ coupling # "initializing"
          ELSE ~schedule.edge

-----------------------------------------------------------------------------
(* What is in the control record and in the buffers, kernel by kernel.       *)
Rebuilt == schedule.refresh /\ control.valid

ControlInv ==
  /\ kernel \in InFlight \ PastJacobian => control = Cleared
  /\ kernel \in PastJacobian =>
       /\ (control.valid <=> state \in Oriented)
       /\ IF kernel \in PastCaches /\ Rebuilt
          THEN control.partials = state /\ control.norms = state
          ELSE control.partials = None /\ control.norms = Unset
  /\ kernel \in PastPredicate =>
       /\ control.used = IF schedule.refresh THEN control.norms ELSE host
       /\ control.verdict \in {"none", "nonfinite", "converged"}
       /\ control.verdict = "converged" /\ schedule.refresh => control.valid
       /\ control.valid /\ control.verdict # "none" => state \in Terminal

Pushed ==
  IF schedule.edge THEN [pressure |-> vacuum, on |-> state] ELSE None

Constrained == ConstraintOf(state, reference, tcon)

(* The residual the host reads is that of the state, of the vacuum's         *)
(* pressure on it, and of the caches as they are.                            *)
ResidualOfState ==
  /\ residual.mhd = state /\ residual.edge = Pushed
  /\ residual.constraint = Constrained
  /\ residual.odd = "scaled" /\ residual.gauge = schedule.gauge

BufferInv ==
  /\ kernel \in PastInverse => geometry = GeometryOf(state)
  /\ kernel \in PastField /\ control.valid => field = FieldOf(state)
  /\ kernel \in PastVacuum /\ schedule.edge =>
       /\ vacuum.boundary = state
       /\ control.valid => vacuum.currents = state /\ vacuum.factors \in Oriented
  /\ kernel \in PastForce /\ control.valid =>
       /\ forces.mhd = state
       /\ kernel = "edge" => forces.edge = None
       /\ kernel \in PastEdge => forces.edge = Pushed
       /\ kernel \in {"edge", "constraint"} => forces.constraint = None
       /\ kernel = "forward" =>
            forces.constraint = Constrained /\ forces.frcon = Constrained
  /\ kernel \in PastForward /\ control.valid => ResidualOfState
  /\ kernel \in {"predicate", "precondition"} =>
       residual.m1 = None /\ residual.rz = None /\ residual.lambda = None
  /\ kernel = "fence" /\ control.valid =>
       Preconditioned(residual) = IF control.verdict = "none"
                                  THEN ElementsOf(precon) ELSE None

(* What the pass in flight has done to what it found.                        *)
Faded(ref) ==
  IF schedule.decay /\ kernel \in PastEdge
  THEN [ref EXCEPT !.decays = @ + 1] ELSE ref

Numbers == IF host = Unset THEN None ELSE host

CachesChanged(found) ==
  /\ ElementsOf(precon) =
       IF kernel \in PastCaches /\ Rebuilt THEN state ELSE found.precon
  /\ tcon = IF kernel \in PastConstraint /\ Rebuilt THEN state ELSE found.tcon
  /\ reference =
       Faded(IF kernel \in PastCaches /\ schedule.reset /\ control.valid
             THEN [of |-> state, decays |-> 0] ELSE found.reference)
  /\ vacuum.factors =
       IF kernel \in PastVacuum /\ schedule.full THEN state ELSE found.vacuum
  /\ found.factors = Numbers

GraphsChanged(refresh, norm) ==
  /\ refreshGraphs = IF coupling = "fixed" /\ schedule.refresh
                     THEN refresh \cup {schedule.gauge} ELSE refresh
  /\ normGraphs =
       IF coupling = "fixed" /\ ~Correcting /\ ~schedule.refresh
          /\ norm[schedule.gauge] = Empty
       THEN [norm EXCEPT ![schedule.gauge] = host] ELSE norm

CachesType ==
  [precon : Accurate, tcon : Accurate, reference : References,
   vacuum : States \cup {None}, factors : Accurate]

EntryInv ==
  kernel \in InFlight =>
    \E found \in CachesType, refresh \in SUBSET Shapes,
       norm \in [Shapes -> Factors \cup {Empty}] :
      /\ entry = <<[caches |-> found, refresh |-> refresh, norm |-> norm]>>
      /\ CachesChanged(found) /\ GraphsChanged(refresh, norm)

-----------------------------------------------------------------------------
(* The caches a pass may be evaluated with as they are: away from the anchor *)
(* and at the fence of a valid pass.                                         *)
HasCaches == ElementsOf(precon) \in Oriented /\ tcon \in Oriented

CachesInv ==
  /\ GraphsCurrent
  /\ pc = "top" /\ age # 0 => HasCaches /\ host \in Oriented
  /\ pc = "fence" /\ valid => HasCaches /\ (~refreshing => host \in Oriented)

(* The vacuum solver's factors are of an accepted boundary.                  *)
VacuumInv ==
  /\ kernel \in InFlight /\ schedule.vacuum /\ coupling # "off" /\ ~schedule.full =>
       vacuum.factors \in Oriented
  /\ kernel \notin InFlight /\ ((pc = "top" /\ ~fresh) \/ (pc = "fence" /\ valid))
     /\ coupling \in {"initialized", "active"} =>
       vacuum.factors \in Accurate
  /\ kernel \notin InFlight => coupling # "initializing"

-----------------------------------------------------------------------------
(* At the fence.                                                             *)
Softened == answer.kind = "soft"

FenceInv ==
  pc = "fence" =>
    /\ schedule.refresh = refreshing
    /\ used = IF refreshing THEN record ELSE host
    /\ refreshing => record \in Factors /\ (valid => record \in Oriented)
    /\ refreshing /\ converged => valid
    /\ ~refreshing => host # Unset
    /\ Correcting => valid /\ ~refreshing /\ ~converged
    /\ coupling = "fixed" => ~Softened

DecisionInv ==
  pc = "fence" /\ kernel = "idle" /\ newton.phase \in {"none", "done"} =>
    /\ control.valid = valid
    /\ control.verdict \in {"none", "nonfinite", "converged"}
    /\ (converged <=> control.verdict = "converged")
    /\ valid =>
         /\ answer = [kind |-> "residual", residual |-> Slab, factors |-> control.used]
            \/ answer = [kind |-> "soft", residual |-> Slab]
         /\ ~Softened => ResidualOfState /\ state \in Oriented
                         /\ control.used = used
         /\ control.verdict = "none" => Preconditioned(residual) \in Oriented
         /\ coupling = "initialized" => residual.edge # None
    /\ ~valid => answer = [kind |-> "refused"]

(* A Newton step knows what it started from; a trial has been evaluated like *)
(* any other state.                                                          *)
BeforeIs(residual0) ==
  newton.before =
    [kind |-> "residual", factors |-> host,
     residual |-> [mhd |-> newton.base, edge |-> None,
                   constraint |-> ConstraintOf(newton.base, reference, tcon),
                   odd |-> "scaled", gauge |-> "fixed", precon |-> residual0]]

NewtonInv ==
  /\ Correcting =>
       /\ newton.base \in Oriented /\ newton.probes \in Nat
       /\ \E p : BeforeIs(p)
       /\ kernel \in InFlight /\ newton.phase = "restore" => state = newton.base
  /\ Correcting /\ kernel = "judged" =>
       /\ answer = Answered
       /\ (control.valid <=> state \in Oriented)
       /\ control.verdict \in {"none", "nonfinite", "converged"}
       /\ control.used = host
       /\ control.valid => ResidualOfState
       /\ control.valid /\ control.verdict = "none" =>
            Preconditioned(residual) \in Oriented

DeviceInv ==
  /\ HostTypes /\ BufferTypes /\ StreamInv /\ ScheduleInv /\ ControlInv
  /\ BufferInv /\ EntryInv /\ CachesInv /\ VacuumInv /\ FenceInv
  /\ DecisionInv /\ NewtonInv

-----------------------------------------------------------------------------
(* What the operators of the kernels compute.                                *)
LEMMA FromOne ==
  ASSUME NEW s
  PROVE  From({s}) = s /\ From({s, s}) = s /\ From({s, s, s}) = s
<1>1. ASSUME NEW S, S = {s} PROVE From(S) = s
  BY <1>1 DEF From
<1> QED
  BY <1>1

LEMMA GuardedIs ==
  ASSUME NEW c, NEW new, NEW old
  PROVE  /\ c.valid => Guarded(c, new, old) = new
         /\ ~c.valid => Guarded(c, new, old) = old
  BY DEF Guarded

LEMMA UnlessIs ==
  ASSUME NEW terminal, NEW new, NEW old
  PROVE  /\ terminal => Unless(terminal, new, old) = old
         /\ ~terminal => Unless(terminal, new, old) = new
  BY DEF Unless

(* The elements of a preconditioner have one source, or none.                *)
LEMMA ElementsIs ==
  /\ \A s : ElementsOf(PreconOf(s)) = s
  /\ ElementsOf(NoPrecon) = None
<1>1. ASSUME NEW s PROVE ElementsOf(PreconOf(s)) = s
  <2>1. {PreconOf(s)[part] : part \in DOMAIN PreconOf(s)} = {s}
    BY DEF PreconOf
  <2> QED
    BY <2>1, FromOne DEF ElementsOf
<1>2. ElementsOf(NoPrecon) = None
  <2>1. NoPrecon = PreconOf(None)
    BY DEF NoPrecon, PreconOf
  <2> QED
    BY <1>1, <2>1
<1> QED
  BY <1>1, <1>2

(* The synthesis of a state, whatever the arrays held before.                *)
Synthesis(t, g, s) ==
  LET extended == ExtrapolateAxis(g, s)
  IN  EnqueueInverse(t, extended, From({s, extended.axis}))

IsGeometry(g) ==
  g = [axis |-> g.axis, r |-> g.r, z |-> g.z, lambda |-> g.lambda,
       rCon |-> g.rCon, zCon |-> g.zCon, metric |-> g.metric]

LEMMA PackedIs ==
  ASSUME NEW scratch, IsScratch(scratch), NEW coeff
  PROVE  LET p == Synthesized(Packed(scratch, coeff))
         IN  IsScratch(p) /\ p.zeta = coeff
<1> DEFINE a == Packed(scratch, coeff)
<1>1. a = [spectra |-> [bins |-> coeff, tails |-> None], zeta |-> scratch.zeta]
  BY DEF IsScratch, Packed
<1> HIDE DEF a
<1>2. Synthesized(a) = [spectra |-> a.spectra, zeta |-> coeff]
  BY <1>1 DEF Synthesized
<1> QED
  BY <1>2 DEF IsScratch, a

LEMMA AnalyzedIs ==
  ASSUME NEW scratch, IsScratch(scratch), NEW v
  PROVE  LET a == Analyzed([scratch EXCEPT !.zeta = v])
         IN  IsScratch(a) /\ a.spectra.bins = v
<1> DEFINE z == [scratch EXCEPT !.zeta = v]
<1>1. z = [spectra |-> scratch.spectra, zeta |-> v]
  BY DEF IsScratch
<1> HIDE DEF z
<1>2. Analyzed(z) = [spectra |-> [bins |-> v, tails |-> v], zeta |-> v]
  BY <1>1 DEF Analyzed
<1> QED
  BY <1>2 DEF IsScratch, z

LEMMA SynthesisIs ==
  ASSUME NEW t, IsTransform(t), NEW g, IsGeometry(g), NEW s
  PROVE  /\ IsTransform(Synthesis(t, g, s).transform)
         /\ BaseGeometry(Synthesis(t, g, s).geometry) = GeometryOf(s)
<1> DEFINE x == ExtrapolateAxis(g, s)
           i == EnqueueInverse(t, x, s)
           G == [axis |-> s, r |-> s, z |-> s, lambda |-> s, rCon |-> s,
                 zCon |-> s, metric |-> g.metric]
<1>1. x = [axis |-> s, r |-> g.r, z |-> g.z, lambda |-> g.lambda,
           rCon |-> g.rCon, zCon |-> g.zCon, metric |-> g.metric]
  BY DEF IsGeometry, ExtrapolateAxis
<1>2. i = Synthesis(t, g, s)
  <2>0. x.axis = s
    BY <1>1
  <2>1. From({s, x.axis}) = s
    BY <2>0, FromOne
  <2> QED
    BY <2>1 DEF Synthesis
<1> HIDE DEF x
<1>3. IsTransform(i.transform) /\ i.geometry = G
  <2>1. CASE t.backend = "toroidal"
    <3> DEFINE m == Synthesized(Packed(t.main, s))
    <3>1. IsScratch(m) /\ m.zeta = s
      BY PackedIs DEF IsTransform
    <3> HIDE DEF m
    <3>2. i = ToroidalInverse(t, x, s)
      BY <2>1 DEF EnqueueInverse
    <3>3. i.transform = [t EXCEPT !.main = m]
      BY <3>2 DEF ToroidalInverse, m
    <3>4. IsTransform(i.transform)
      BY <3>1, <3>3 DEF IsTransform
    <3> DEFINE r == InverseAccumulate(x, "r", m.zeta)
               z == InverseAccumulate(r, "z", m.zeta)
    <3>5. r = [axis |-> s, r |-> s, z |-> g.z, lambda |-> g.lambda,
               rCon |-> s, zCon |-> g.zCon, metric |-> g.metric]
      BY <1>1, <3>1 DEF InverseAccumulate, Constraint
    <3> HIDE DEF r
    <3>6. z = [axis |-> s, r |-> s, z |-> s, lambda |-> g.lambda,
               rCon |-> s, zCon |-> s, metric |-> g.metric]
      BY <3>1, <3>5 DEF InverseAccumulate, Constraint
    <3> HIDE DEF z
    <3>7. InverseAccumulate(z, "lambda", m.zeta) = G
      BY <3>1, <3>6 DEF InverseAccumulate
    <3>8. i.geometry = InverseAccumulate(z, "lambda", m.zeta)
      BY <3>2 DEF ToroidalInverse, m, r, z
    <3> QED
      BY <3>4, <3>7, <3>8
  <2>2. CASE t.backend # "toroidal"
    <3> DEFINE y == AxisymmetricInverse(x, s)
    <3>1. i = [transform |-> t, geometry |-> AxisymmetricRzCon(y, s)]
      BY <2>2 DEF EnqueueInverse
    <3> HIDE DEF i, G
    <3>2. y = [axis |-> s, r |-> s, z |-> s, lambda |-> s, rCon |-> g.rCon,
               zCon |-> g.zCon, metric |-> g.metric]
      <4> DEFINE a == [x EXCEPT !.r = s]
                 b == [a EXCEPT !.z = s]
      <4>1. a = [axis |-> s, r |-> s, z |-> g.z, lambda |-> g.lambda,
                 rCon |-> g.rCon, zCon |-> g.zCon, metric |-> g.metric]
        BY <1>1
      <4>2. y = [b EXCEPT !.lambda = s]
        BY DEF AxisymmetricInverse
      <4> HIDE DEF a, y
      <4>3. b = [axis |-> s, r |-> s, z |-> s, lambda |-> g.lambda,
                 rCon |-> g.rCon, zCon |-> g.zCon, metric |-> g.metric]
        BY <4>1
      <4> HIDE DEF b
      <4> QED
        BY <4>2, <4>3
    <3> HIDE DEF y
    <3>3. AxisymmetricRzCon(y, s) = G
      <4> DEFINE a == [y EXCEPT !.rCon = s]
      <4>1. a = [axis |-> s, r |-> s, z |-> s, lambda |-> s, rCon |-> s,
                 zCon |-> g.zCon, metric |-> g.metric]
        BY <3>2
      <4>2. AxisymmetricRzCon(y, s) = [a EXCEPT !.zCon = s]
        BY DEF AxisymmetricRzCon
      <4> HIDE DEF a
      <4> QED
        BY <4>1, <4>2 DEF G
    <3> QED
      BY <3>1, <3>3
  <2> QED
    BY <2>1, <2>2
<1> HIDE DEF i
<1>4. BaseGeometry(G) = GeometryOf(s)
  BY FromOne DEF BaseGeometry, Shape, GeometryOf
<1> QED
  BY <1>2, <1>3, <1>4

LEMMA ShapeIs ==
  ASSUME NEW s
  PROVE  Shape(GeometryOf(s)) = s /\ Displaced(GeometryOf(s)) = s
  BY FromOne DEF Shape, Displaced, GeometryOf

IsField(f) ==
  f = [bsup |-> [of |-> f.bsup.of, chi |-> f.bsup.chi], bsub |-> f.bsub,
       profiles |-> f.profiles, fullProfiles |-> f.fullProfiles]

(* The field of a geometry, unless it has folded over.                       *)
LEMMA FieldIs ==
  ASSUME NEW c, NEW f, IsField(f), NEW s, c.valid,
         ~EvolveCurrent => f.profiles = None /\ f.fullProfiles = None
  PROVE  EnqueueMagneticField(c, f, GeometryOf(s)) = FieldOf(s)
<1> DEFINE g == GeometryOf(s)
           b == MagneticField(c, f, g)
           n == NCurrFinalize(c, b, g)
<1>1. g.lambda = s /\ g.metric = s
  BY DEF GeometryOf
<1> HIDE DEF g
<1>2. CASE EvolveCurrent
  <2>1. b = [bsup |-> [of |-> s, chi |-> None], bsub |-> f.bsub,
             profiles |-> f.profiles, fullProfiles |-> f.fullProfiles]
    BY <1>1, <1>2, FromOne DEF MagneticField, IsField, Guarded
  <2> HIDE DEF b
  <2>2. From({b.bsup.of, g.metric}) = s
    BY <1>1, <2>1, FromOne
  <2> DEFINE bsup == [b.bsup EXCEPT !.chi = Added(@, s)]
  <2>3. bsup = [of |-> s, chi |-> s]
    BY <2>1 DEF Added
  <2>4. Covariant(bsup, g) = s
    <3>1. {bsup.of, g.metric} \cup {bsup.chi} = {s}
      BY <1>1, <2>3
    <3> QED
      BY <1>2, <3>1, FromOne DEF Covariant
  <2>5. n = [b EXCEPT !.bsup = bsup, !.bsub = Covariant(bsup, g), !.profiles = s]
    BY <2>2 DEF NCurrFinalize, Guarded
  <2> HIDE DEF bsup
  <2>6. n = [bsup |-> [of |-> s, chi |-> s], bsub |-> s, profiles |-> s,
             fullProfiles |-> f.fullProfiles]
    BY <2>1, <2>3, <2>4, <2>5
  <2> HIDE DEF n
  <2>7. UpdateIotaChip(c, n) = FieldOf(s)
    BY <1>2, <2>6 DEF UpdateIotaChip, Guarded, FieldOf
  <2> QED
    BY <1>2, <2>7 DEF EnqueueMagneticField, b, n, g
<1>3. CASE ~EvolveCurrent
  <2> DEFINE bsup == [of |-> s, chi |-> None]
  <2>1. Covariant(bsup, g) = s
    <3>1. {bsup.of, g.metric} \cup {} = {s}
      BY <1>1
    <3> QED
      BY <1>3, <3>1, FromOne DEF Covariant
  <2>2. From({g.lambda, g.metric}) = s
    BY <1>1, FromOne
  <2>3. b = [f EXCEPT !.bsup = bsup, !.bsub = Covariant(bsup, g)]
    BY <1>3, <2>2 DEF MagneticField, Guarded
  <2>4. EnqueueMagneticField(c, f, g) = b
    BY <1>3 DEF EnqueueMagneticField
  <2> HIDE DEF b
  <2>5. b = [f EXCEPT !.bsup = bsup, !.bsub = s]
    BY <2>1, <2>3
  <2>6. b = [bsup |-> bsup, bsub |-> s, profiles |-> f.profiles,
             fullProfiles |-> f.fullProfiles]
    BY <2>5 DEF IsField
  <2> QED
    BY <1>3, <2>4, <2>6 DEF FieldOf, g
<1> QED
  BY <1>2, <1>3

LEMMA FieldKept ==
  ASSUME NEW c, NEW f, NEW g, ~c.valid
  PROVE  EnqueueMagneticField(c, f, g) = f
  BY DEF EnqueueMagneticField, MagneticField, NCurrFinalize, UpdateIotaChip, Guarded

LEMMA WholeIs ==
  ASSUME NEW s
  PROVE  /\ Whole(FieldOf(s)) = s /\ FieldOf(s).bsub = s
         /\ IsField(FieldOf(s))
<1>1. CASE EvolveCurrent
  BY <1>1, FromOne DEF Whole, FieldOf, IsField
<1>2. CASE ~EvolveCurrent
  BY <1>2, FromOne DEF Whole, FieldOf, IsField
<1> QED
  BY <1>1, <1>2

IsPrecon(p) ==
  p = [half |-> p.half, offDiagonal |-> p.offDiagonal, diagonal |-> p.diagonal,
       matrix |-> p.matrix, scale |-> p.scale, averages |-> p.averages,
       lambda |-> p.lambda]

(* A valid refresh rebuilds every element; any other keeps them all.         *)
LEMMA ComputeIs ==
  ASSUME NEW c, NEW p, IsPrecon(p), NEW s, c.valid
  PROVE  EnqueueCompute(c, p, GeometryOf(s), FieldOf(s)) = PreconOf(s)
<1> DEFINE g == GeometryOf(s)
           h == [p EXCEPT !.half = s]
           o == [h EXCEPT !.offDiagonal = s]
           d == [o EXCEPT !.diagonal = s]
           m == [d EXCEPT !.matrix = s]
           k == [m EXCEPT !.scale = s]
           a == [k EXCEPT !.averages = s]
<1>1. g.r = s /\ g.z = s /\ g.metric = s
  BY DEF GeometryOf
<1> HIDE DEF g
<1>2. PreconCompute(c, p, g, FieldOf(s)) = h
  <2>1. From({g.r, g.z, g.metric, Whole(FieldOf(s))}) = s
    <3>1. {g.r, g.z, g.metric, Whole(FieldOf(s))} = {s}
      BY <1>1, WholeIs
    <3> QED
      BY <3>1, FromOne
  <2> QED
    BY <2>1 DEF PreconCompute, Guarded
<1>3. h = [half |-> s, offDiagonal |-> p.offDiagonal, diagonal |-> p.diagonal,
           matrix |-> p.matrix, scale |-> p.scale, averages |-> p.averages,
           lambda |-> p.lambda]
  BY DEF IsPrecon
<1> HIDE DEF h
<1>4. PreconAssemble(c, h) = o
  BY <1>3 DEF PreconAssemble, Guarded
<1>5. o = [half |-> s, offDiagonal |-> s, diagonal |-> p.diagonal,
           matrix |-> p.matrix, scale |-> p.scale, averages |-> p.averages,
           lambda |-> p.lambda]
  BY <1>3
<1> HIDE DEF o
<1>6. PreconDiag(c, o) = d
  BY <1>5 DEF PreconDiag, Guarded
<1>7. d = [half |-> s, offDiagonal |-> s, diagonal |-> s,
           matrix |-> p.matrix, scale |-> p.scale, averages |-> p.averages,
           lambda |-> p.lambda]
  BY <1>5
<1> HIDE DEF d
<1>8. TridiagAssembly(c, d) = m
  <2>1. From({d.offDiagonal, d.diagonal}) = s
    BY <1>7, FromOne
  <2> QED
    BY <2>1 DEF TridiagAssembly, Guarded
<1>9. m = [half |-> s, offDiagonal |-> s, diagonal |-> s,
           matrix |-> s, scale |-> p.scale, averages |-> p.averages,
           lambda |-> p.lambda]
  BY <1>7
<1> HIDE DEF m
<1>10. PreconScale(c, m) = k
  BY <1>9 DEF PreconScale, Guarded
<1>11. k = [half |-> s, offDiagonal |-> s, diagonal |-> s, matrix |-> s,
            scale |-> s, averages |-> p.averages, lambda |-> p.lambda]
  BY <1>9
<1> HIDE DEF k
<1>12. LambdaPrecAssemble(c, k, g) = a
  BY <1>1 DEF LambdaPrecAssemble, Guarded
<1>13. a = [half |-> s, offDiagonal |-> s, diagonal |-> s, matrix |-> s,
            scale |-> s, averages |-> s, lambda |-> p.lambda]
  BY <1>11
<1> HIDE DEF a
<1>14. LambdaPrecFinalize(c, a) = [a EXCEPT !.lambda = s]
  BY <1>13 DEF LambdaPrecFinalize, Guarded
<1>15. [a EXCEPT !.lambda = s] = PreconOf(s)
  BY <1>13 DEF PreconOf
<1>16. EnqueueCompute(c, p, g, FieldOf(s)) = LambdaPrecFinalize(c, a)
  BY <1>2, <1>4, <1>6, <1>8, <1>10, <1>12 DEF EnqueueCompute
<1> QED
  BY <1>14, <1>15, <1>16 DEF g

LEMMA ComputeKept ==
  ASSUME NEW c, NEW p, NEW g, NEW f, ~c.valid
  PROVE  EnqueueCompute(c, p, g, f) = p
  BY DEF EnqueueCompute, PreconCompute, PreconAssemble, PreconDiag,
         TridiagAssembly, PreconScale, LambdaPrecAssemble, LambdaPrecFinalize,
         Guarded

(* A valid refresh leaves the normalization of its state in the record.      *)
LEMMA NormsIs ==
  ASSUME NEW c, IsControl(c), c.valid, NEW s \in States
  PROVE  ForceNorms(c, GeometryOf(s), FieldOf(s), s) =
           [stats |-> c.stats, valid |-> c.valid, partials |-> s, rz |-> s,
            norms |-> s, raw |-> c.raw, used |-> c.used,
            verdict |-> c.verdict, evaluated |-> c.evaluated]
<1> DEFINE q == NormPartials(GeometryOf(s), FieldOf(s))
           a == ForceNormReduce(c, s)
           b == RzNorm(a, s)
<1>1. q = s
  BY WholeIs, FromOne DEF NormPartials, GeometryOf
<1> HIDE DEF q
<1>2. a = [c EXCEPT !.partials = s]
  BY DEF ForceNormReduce, Guarded
<1> HIDE DEF a
<1>3. a = [stats |-> c.stats, valid |-> c.valid, partials |-> s, rz |-> c.rz,
           norms |-> c.norms, raw |-> c.raw, used |-> c.used,
           verdict |-> c.verdict, evaluated |-> c.evaluated]
  BY <1>2 DEF IsControl
<1>4. b = [a EXCEPT !.rz = s]
  BY <1>3 DEF RzNorm, Guarded
<1> HIDE DEF b
<1>5. b = [stats |-> c.stats, valid |-> c.valid, partials |-> s, rz |-> s,
           norms |-> c.norms, raw |-> c.raw, used |-> c.used,
           verdict |-> c.verdict, evaluated |-> c.evaluated]
  BY <1>3, <1>4
<1>6. ForceNormFinalize(b) = [b EXCEPT !.norms = s]
  <2>1. b.partials = s /\ b.rz = s /\ s # None
    BY <1>5, DeviceAssumption
  <2>2. From({b.partials, b.rz}) = s
    BY <2>1, FromOne
  <2> QED
    BY <2>1, <2>2 DEF ForceNormFinalize
<1>7. ForceNorms(c, GeometryOf(s), FieldOf(s), s) = ForceNormFinalize(b)
  BY <1>1 DEF ForceNorms, a, b, q
<1> DEFINE n == [b EXCEPT !.norms = s]
<1>8. n = [stats |-> b.stats, valid |-> b.valid, partials |-> b.partials,
           rz |-> b.rz, norms |-> s, raw |-> b.raw, used |-> b.used,
           verdict |-> b.verdict, evaluated |-> b.evaluated]
  <2>1. IsControl(b)
    BY <1>5 DEF IsControl
  <2> QED
    BY <2>1 DEF IsControl
<1> HIDE DEF n
<1> QED
  BY <1>5, <1>6, <1>7, <1>8 DEF n

LEMMA NormsKept ==
  ASSUME NEW c, ~c.valid, c.partials = None, NEW g, NEW f, NEW s
  PROVE  ForceNorms(c, g, f, s) = c
  BY DEF ForceNorms, ForceNormReduce, RzNorm, ForceNormFinalize, Guarded

(* The momentum balance is assigned, the pressure on the edge is added.      *)
LEMMA ForceIs ==
  ASSUME NEW c, NEW f, IsForces(f), NEW s
  PROVE  /\ c.valid => MhdForce(c, f, GeometryOf(s), FieldOf(s)) =
              [mhd |-> s, edge |-> None, constraint |-> None, frcon |-> f.frcon]
         /\ \A g, h : ~c.valid => MhdForce(c, f, g, h) = f
<1> DEFINE g == GeometryOf(s)
<1>1. From({Shape(g), g.metric, Whole(FieldOf(s))}) = s
  <2>1. Shape(g) = s /\ g.metric = s
    BY ShapeIs DEF GeometryOf
  <2> HIDE DEF g
  <2> QED
    BY <2>1, WholeIs, FromOne
<1>2. ASSUME c.valid PROVE MhdForce(c, f, g, FieldOf(s)) =
              [f EXCEPT !.mhd = s, !.edge = None, !.constraint = None]
  BY <1>1, <1>2 DEF MhdForce, Guarded
<1>3. [f EXCEPT !.mhd = s, !.edge = None, !.constraint = None] =
        [mhd |-> s, edge |-> None, constraint |-> None, frcon |-> f.frcon]
  <2> DEFINE a == [f EXCEPT !.mhd = s]
             b == [a EXCEPT !.edge = None]
  <2>1. a = [mhd |-> s, edge |-> f.edge, constraint |-> f.constraint,
             frcon |-> f.frcon]
    BY DEF IsForces
  <2>2. [f EXCEPT !.mhd = s, !.edge = None, !.constraint = None] =
          [b EXCEPT !.constraint = None]
    OBVIOUS
  <2> HIDE DEF a
  <2>3. b = [mhd |-> s, edge |-> None, constraint |-> f.constraint,
             frcon |-> f.frcon]
    BY <2>1
  <2> HIDE DEF b
  <2> QED
    BY <2>2, <2>3
<1>4. \A a, b : ~c.valid => MhdForce(c, f, a, b) = f
  BY DEF MhdForce, Guarded
<1> QED
  BY <1>2, <1>3, <1>4

LEMMA EdgeIs ==
  ASSUME NEW f, IsForces(f), NEW x
  PROVE  /\ IsForces(EdgeForce(f, x))
         /\ f.edge = None => EdgeForce(f, x) =
              [mhd |-> f.mhd, edge |-> x, constraint |-> f.constraint,
               frcon |-> f.frcon]
<1> DEFINE a == Added(f.edge, x)
<1>1. f.edge = None => a = x
  BY DEF Added
<1> HIDE DEF a
<1>2. EdgeForce(f, x) = [f EXCEPT !.edge = a]
  BY DEF EdgeForce, a
<1>3. EdgeForce(f, x) = [mhd |-> f.mhd, edge |-> a, constraint |-> f.constraint,
                         frcon |-> f.frcon]
  BY <1>2 DEF IsForces
<1> QED
  BY <1>1, <1>3 DEF IsForces

LEMMA RbsqIs ==
  ASSUME NEW v, NEW s
  PROVE  Rbsq(v, GeometryOf(s), FieldOf(s)) = [pressure |-> v, on |-> s]
  BY ShapeIs, WholeIs, FromOne DEF Rbsq

(* The constraint: what is left of it after the bandpass.                    *)
LEMMA DealiasIs ==
  ASSUME NEW t, IsTransform(t), NEW eff, NEW mult
  PROVE  /\ IsTransform(EnqueueDealias(t, eff, mult).transform)
         /\ EnqueueDealias(t, eff, mult).gCon = Multiplied(eff, mult)
<1>1. CASE t.backend = "toroidal"
  <2> DEFINE a == DealiasAnalyze(t.compact, eff)
             p == Packed(a, Multiplied(eff, mult))
             m == Synthesized(p)
  <2>1. IsScratch(a) /\ a.spectra.bins = eff
    BY AnalyzedIs DEF DealiasAnalyze, IsTransform
  <2> HIDE DEF a
  <2>2. DealiasCoeffPack(a, mult) = p
    BY <2>1 DEF DealiasCoeffPack
  <2>3. IsScratch(m) /\ m.zeta = Multiplied(eff, mult)
    BY <2>1, PackedIs
  <2> HIDE DEF m
  <2>4. EnqueueDealias(t, eff, mult) =
          [transform |-> [t EXCEPT !.compact = m], gCon |-> m.zeta]
    BY <1>1, <2>2 DEF EnqueueDealias, ToroidalDealias, m, a
  <2>5. IsTransform([t EXCEPT !.compact = m])
    BY <2>3 DEF IsTransform
  <2> QED
    BY <2>3, <2>4, <2>5
<1>2. CASE t.backend # "toroidal"
  BY <1>2 DEF EnqueueDealias
<1> QED
  BY <1>1, <1>2

LEMMA EffectiveIs ==
  ASSUME NEW c, NEW g, IsConstraint(g), NEW s, NEW ref
  PROVE  /\ c.valid => EffectiveConstraint(c, g, GeometryOf(s), ref) =
              [eff |-> [geometry |-> s, reference |-> ref], con |-> g.con]
         /\ \A h : ~c.valid => EffectiveConstraint(c, g, h, ref) = g
<1> DEFINE x == GeometryOf(s)
<1>1. From({Displaced(x), x.r, x.z}) = s
  <2>1. Displaced(x) = s /\ x.r = s /\ x.z = s
    BY ShapeIs DEF GeometryOf
  <2> HIDE DEF x
  <2> QED
    BY <2>1, FromOne
<1>2. ASSUME c.valid PROVE EffectiveConstraint(c, g, x, ref) =
        [g EXCEPT !.eff = [geometry |-> s, reference |-> ref]]
  BY <1>1, <1>2 DEF EffectiveConstraint, Guarded
<1>3. [g EXCEPT !.eff = [geometry |-> s, reference |-> ref]] =
        [eff |-> [geometry |-> s, reference |-> ref], con |-> g.con]
  BY DEF IsConstraint
<1>4. \A h : ~c.valid => EffectiveConstraint(c, g, h, ref) = g
  BY DEF EffectiveConstraint, Guarded
<1> QED
  BY <1>2, <1>3, <1>4

LEMMA FilteredIs ==
  ASSUME NEW s \in States, NEW ref \in References, NEW mult
  PROVE  Multiplied([geometry |-> s, reference |-> ref], mult) = Filtered(s, ref, mult)
<1>1. [geometry |-> s, reference |-> ref]
        \in [geometry : States, reference : [of : States \cup {None}, decays : Nat]]
  BY DEF References
<1>2. [geometry |-> s, reference |-> ref] # None
  BY <1>1, NoneAssumption
<1> QED
  BY <1>2 DEF Multiplied, Filtered

LEMMA ConstraintIs ==
  ASSUME NEW c, NEW f, IsForces(f), NEW s, NEW ref, NEW mult
  PROVE  /\ c.valid /\ f.constraint = None =>
              AddConstraint(c, f, GeometryOf(s), ref, Filtered(s, ref, mult)) =
                [mhd |-> f.mhd, edge |-> f.edge,
                 constraint |-> ConstraintOf(s, ref, mult),
                 frcon |-> ConstraintOf(s, ref, mult)]
         /\ \A g, con : ~c.valid => AddConstraint(c, f, g, ref, con) = f
<1> DEFINE x == GeometryOf(s)
           y == ConstraintOf(s, ref, mult)
<1>1. From({Displaced(x), x.r, x.z}) = s
  <2>1. Displaced(x) = s /\ x.r = s /\ x.z = s
    BY ShapeIs DEF GeometryOf
  <2> HIDE DEF x
  <2> QED
    BY <2>1, FromOne
<1>2. [gCon |-> Filtered(s, ref, mult), reference |-> ref,
       geometry |-> From({Displaced(x), x.r, x.z})] = y
  BY <1>1 DEF ConstraintOf
<1> HIDE DEF x, y
<1>3. ASSUME c.valid, f.constraint = None
      PROVE  AddConstraint(c, f, x, ref, Filtered(s, ref, mult)) =
               [f EXCEPT !.constraint = y, !.frcon = y]
  BY <1>2, <1>3 DEF AddConstraint, Guarded, Added
<1>4. [f EXCEPT !.constraint = y, !.frcon = y] =
        [mhd |-> f.mhd, edge |-> f.edge, constraint |-> y, frcon |-> y]
  <2> DEFINE a == [f EXCEPT !.constraint = y]
  <2>1. a = [mhd |-> f.mhd, edge |-> f.edge, constraint |-> y, frcon |-> f.frcon]
    BY DEF IsForces
  <2>2. [f EXCEPT !.constraint = y, !.frcon = y] = [a EXCEPT !.frcon = y]
    OBVIOUS
  <2> HIDE DEF a
  <2> QED
    BY <2>1, <2>2
<1>5. \A g, con : ~c.valid => AddConstraint(c, f, g, ref, con) = f
  BY DEF AddConstraint, Guarded
<1> QED
  BY <1>3, <1>4, <1>5 DEF x, y

(* The residual slab after the forward transform, whatever it held.          *)
LEMMA ForwardIs ==
  ASSUME NEW t, IsTransform(t), NEW f, NEW edge, NEW gauge
  PROVE  LET forward == EnqueueForward(t, f, edge)
         IN  /\ IsTransform(forward.transform)
             /\ M1Constraint(Scalxc(forward.residual), gauge) =
                  [mhd |-> f.mhd, constraint |-> From({f.constraint, f.frcon}),
                   edge |-> IF edge THEN f.edge ELSE None, odd |-> "scaled",
                   gauge |-> gauge, m1 |-> None, rz |-> None, lambda |-> None]
<1> DEFINE x == EnqueueForward(t, f, edge)
           r == ForwardRecover(f, edge)
           y == Scalxc(r)
<1>1. IsTransform(x.transform) /\ x.residual = r
  <2>1. CASE t.backend = "toroidal"
    <3> DEFINE m == ForwardReduce(t.main, f)
    <3>1. IsScratch(m) /\ m.spectra.bins = f
      BY AnalyzedIs DEF ForwardReduce, IsTransform
    <3> HIDE DEF m
    <3>2. x = [transform |-> [t EXCEPT !.main = m], residual |-> r]
      BY <2>1, <3>1 DEF EnqueueForward, ToroidalForward, m
    <3>3. IsTransform([t EXCEPT !.main = m])
      BY <3>1 DEF IsTransform
    <3> HIDE DEF r, x
    <3> QED
      BY <3>2, <3>3
  <2>2. CASE t.backend # "toroidal"
    BY <2>2 DEF EnqueueForward
  <2> QED
    BY <2>1, <2>2
<1> HIDE DEF x
<1> DEFINE pushed == IF edge THEN f.edge ELSE None
           added == From({f.constraint, f.frcon})
<1>2. r = [mhd |-> f.mhd, constraint |-> added, edge |-> pushed, odd |-> None,
           gauge |-> None, m1 |-> None, rz |-> None, lambda |-> None]
  BY DEF ForwardRecover
<1> HIDE DEF r, pushed, added
<1>3. y = [mhd |-> f.mhd, constraint |-> added, edge |-> pushed, odd |-> "scaled",
           gauge |-> None, m1 |-> None, rz |-> None, lambda |-> None]
  BY <1>2 DEF Scalxc, Added
<1> HIDE DEF y
<1>4. M1Constraint(y, gauge) =
        [mhd |-> f.mhd, constraint |-> added, edge |-> pushed, odd |-> "scaled",
         gauge |-> gauge, m1 |-> None, rz |-> None, lambda |-> None]
  BY <1>3 DEF M1Constraint, Added
<1> QED
  BY <1>1, <1>4 DEF x, y, pushed, added

(* The preconditioner, applied unless the pass is terminal.                  *)
LEMMA ApplyIs ==
  ASSUME NEW c, NEW r, IsResidual(r), NEW p
  PROVE  LET applied == EnqueueApply(c, M1PreconScale(c, r, p), p)
         IN  /\ c.verdict # "none" => applied = r
             /\ c.verdict = "none" => applied =
                  [mhd |-> r.mhd, constraint |-> r.constraint, edge |-> r.edge,
                   odd |-> r.odd, gauge |-> r.gauge,
                   m1 |-> Added(r.m1, p.diagonal),
                   rz |-> Added(r.rz, From({p.matrix, p.scale})),
                   lambda |-> Added(r.lambda, p.lambda)]
<1>1. ASSUME c.verdict # "none"
      PROVE  EnqueueApply(c, M1PreconScale(c, r, p), p) = r
  BY <1>1 DEF EnqueueApply, M1PreconScale, PcrSolve, PreconBoundary, Unless,
              Terminated
<1>2. ASSUME c.verdict = "none"
      PROVE  EnqueueApply(c, M1PreconScale(c, r, p), p) =
               [mhd |-> r.mhd, constraint |-> r.constraint, edge |-> r.edge,
                odd |-> r.odd, gauge |-> r.gauge,
                m1 |-> Added(r.m1, p.diagonal),
                rz |-> Added(r.rz, From({p.matrix, p.scale})),
                lambda |-> Added(r.lambda, p.lambda)]
  <2> DEFINE m1 == Added(r.m1, p.diagonal)
             rz == Added(r.rz, From({p.matrix, p.scale}))
             lambda == Added(r.lambda, p.lambda)
             a == M1PreconScale(c, r, p)
             b == PcrSolve(c, a, p)
  <2> HIDE DEF m1, rz, lambda
  <2>1. a = [mhd |-> r.mhd, constraint |-> r.constraint, edge |-> r.edge,
             odd |-> r.odd, gauge |-> r.gauge, m1 |-> m1, rz |-> r.rz,
             lambda |-> r.lambda]
    BY <1>2 DEF M1PreconScale, Unless, Terminated, IsResidual, m1
  <2> HIDE DEF a
  <2>2. b = [a EXCEPT !.rz = rz]
    BY <1>2, <2>1 DEF PcrSolve, Unless, Terminated, rz
  <2> HIDE DEF b
  <2>3. b = [mhd |-> r.mhd, constraint |-> r.constraint, edge |-> r.edge,
             odd |-> r.odd, gauge |-> r.gauge, m1 |-> m1, rz |-> rz,
             lambda |-> r.lambda]
    BY <2>1, <2>2
  <2>4. PreconBoundary(c, b, p) = [b EXCEPT !.lambda = lambda]
    BY <1>2, <2>3 DEF PreconBoundary, Unless, Terminated, lambda
  <2>5. [b EXCEPT !.lambda = lambda] =
            [mhd |-> r.mhd, constraint |-> r.constraint, edge |-> r.edge,
             odd |-> r.odd, gauge |-> r.gauge, m1 |-> m1, rz |-> rz,
             lambda |-> lambda]
    BY <2>3
  <2>6. EnqueueApply(c, M1PreconScale(c, r, p), p) = PreconBoundary(c, b, p)
    BY DEF EnqueueApply, a, b
  <2> QED
    BY <2>4, <2>5, <2>6 DEF m1, rz, lambda
<1> QED
  BY <1>1, <1>2

(* A record of absent parts takes the elements of the one geometry.          *)
LEMMA AppliedIs ==
  ASSUME NEW r, r.m1 = None, r.rz = None, r.lambda = None, NEW s
  PROVE  LET p == PreconOf(s)
         IN  From({Added(r.m1, p.diagonal), Added(r.rz, From({p.matrix, p.scale})),
                   Added(r.lambda, p.lambda)}) = s
<1> DEFINE p == PreconOf(s)
<1>1. p.diagonal = s /\ p.matrix = s /\ p.scale = s /\ p.lambda = s
  BY DEF PreconOf
<1> HIDE DEF p
<1>2. From({p.matrix, p.scale}) = s
  BY <1>1, FromOne
<1>3. /\ Added(r.m1, p.diagonal) = s
      /\ Added(r.rz, From({p.matrix, p.scale})) = s
      /\ Added(r.lambda, p.lambda) = s
  BY <1>1, <1>2 DEF Added
<1> QED
  BY <1>3, FromOne DEF p

-----------------------------------------------------------------------------
(* The steps of the stream.  What the kernels leave alone, first.            *)
Alongside ==
  /\ HostTypes /\ StreamInv /\ ScheduleInv /\ CachesInv /\ VacuumInv /\ FenceInv
  /\ DecisionInv /\ NewtonInv

LEMMA StreamTypes ==
  ASSUME DeviceInv, NEW this \in InFlight, NEW next \in InFlight, Stream(this, next),
         schedule' \in ScheduleType, schedule'.refresh = schedule.refresh,
         coupling' \in {"fixed", "off", "initializing", "initialized", "active"},
         coupling' = "fixed" => coupling = "fixed"
  PROVE  HostTypes' /\ StreamInv' /\ FenceInv' /\ DecisionInv'
<1> USE DEF DeviceInv, Stream
<1>1. /\ UNCHANGED <<host, graphs, pass, age, pc, state, fresh, newton, answer, entry>>
      /\ kernel = this /\ kernel' = next
  OBVIOUS
<1>2. HostTypes'
  BY <1>1 DEF HostTypes, TypeOK, graphs, pass
<1>3. next \notin Between /\ this \notin Between /\ Correcting' = Correcting
  BY DEF InFlight, Between, Correcting
<1>4. StreamInv'
  BY <1>1, <1>3 DEF StreamInv, Between, InFlight
<1>5. FenceInv'
  BY <1>1, <1>3 DEF FenceInv, Softened, pass
<1>6. DecisionInv'
  BY <1>1, <1>3 DEF DecisionInv, Between
<1> QED
  BY <1>2, <1>4, <1>5, <1>6

LEMMA StreamKeeps ==
  ASSUME DeviceInv, NEW this \in InFlight, NEW next \in InFlight, Stream(this, next),
         UNCHANGED <<schedule, coupling, vacuum>>,
         ~schedule.refresh => UNCHANGED <<precon, tcon>>,
         ~schedule.reset /\ ~schedule.decay => UNCHANGED reference,
         next = "vacuum" => schedule.vacuum,
         next \in PastVacuum /\ this \notin PastVacuum =>
           this = "vacuum" \/ ~schedule.vacuum,
         this \in PastVacuum => next \in PastVacuum,
         this # "vacuum"
  PROVE  Alongside'
<1> USE DEF DeviceInv
<1>1. /\ UNCHANGED <<host, graphs, pass, age, pc, state, fresh, newton, answer, entry>>
      /\ kernel = this /\ kernel' = next
  BY DEF Stream
<1>2. HostTypes' /\ StreamInv' /\ FenceInv' /\ DecisionInv'
  BY StreamTypes DEF HostTypes
<1>3. Correcting' = Correcting
  BY <1>1 DEF Correcting
<1>4. ScheduleInv'
  <2>1. schedule.edge \in BOOLEAN
    BY DEF HostTypes, ScheduleType
  <2>2. kernel \in InFlight /\ ScheduleInv
    BY <1>1
  <2>3. CASE next \notin PastVacuum
    BY <1>1, <1>3, <2>2, <2>3 DEF ScheduleInv
  <2>4. CASE next \in PastVacuum /\ this \in PastVacuum
    BY <1>1, <1>3, <2>2, <2>4 DEF ScheduleInv
  <2>5. CASE next \in PastVacuum /\ this \notin PastVacuum
    <3>1. ~schedule.vacuum /\ coupling \notin {"initializing", "initialized", "active"}
      BY <2>2, <2>5 DEF ScheduleInv
    <3>2. schedule.edge = FALSE
      BY <1>1, <2>1, <2>2, <2>5 DEF ScheduleInv
    <3>3. schedule.edge <=> coupling \in {"initialized", "active"}
      BY <3>1, <3>2
    <3> QED
      BY <1>1, <1>3, <2>2, <2>5, <3>1, <3>3 DEF ScheduleInv
  <2> QED
    BY <2>3, <2>4, <2>5
<1>5. CachesInv'
  <2>1. ~schedule.refresh => HasCaches' = HasCaches
    BY DEF HasCaches
  <2>2. pc = "top" /\ age # 0 => ~schedule.refresh
    BY <1>1 DEF ScheduleInv, StreamInv
  <2>3. pc = "fence" => ~schedule.refresh
    BY <1>1 DEF ScheduleInv, StreamInv
  <2>4. GraphsCurrent'
    BY <1>1 DEF CachesInv, GraphsCurrent, graphs
  <2> QED
    BY <1>1, <2>1, <2>2, <2>3, <2>4 DEF CachesInv, pass
<1>6. VacuumInv'
  BY <1>1 DEF VacuumInv
<1>7. NewtonInv'
  <2>1. Correcting => UNCHANGED <<reference, tcon>>
    BY DEF ScheduleInv
  <2>2. \A p : Correcting /\ BeforeIs(p) => BeforeIs(p)'
    BY <1>1, <2>1 DEF BeforeIs
  <2>3. next # "judged"
    BY DEF InFlight
  <2> QED
    BY <1>1, <1>3, <2>2, <2>3 DEF NewtonInv
<1> QED
  BY <1>2, <1>4, <1>5, <1>6, <1>7 DEF Alongside

LEMMA EntryKept ==
  ASSUME DeviceInv, NEW this \in InFlight, NEW next \in InFlight, Stream(this, next),
         schedule'.refresh = schedule.refresh, schedule'.gauge = schedule.gauge,
         coupling' = "fixed" <=> coupling = "fixed",
         \A found \in CachesType : CachesChanged(found) => CachesChanged(found)'
  PROVE  EntryInv'
<1>1. /\ UNCHANGED <<host, graphs, newton, entry>> /\ kernel = this /\ kernel' = next
  BY DEF Stream
<1>2. PICK found \in CachesType, refresh \in SUBSET Shapes,
             norm \in [Shapes -> Factors \cup {Empty}] :
        /\ entry = <<[caches |-> found, refresh |-> refresh, norm |-> norm]>>
        /\ CachesChanged(found) /\ GraphsChanged(refresh, norm)
  BY <1>1 DEF DeviceInv, EntryInv
<1>3. GraphsChanged(refresh, norm)'
  BY <1>1, <1>2 DEF GraphsChanged, Correcting, graphs
<1> QED
  BY <1>1, <1>2, <1>3 DEF EntryInv

LEMMA InverseStep == DeviceInv /\ EnqueuePrefix => DeviceInv'
<1> SUFFICES ASSUME DeviceInv, EnqueuePrefix PROVE DeviceInv'
  OBVIOUS
<1> USE DEF DeviceInv
<1>1. /\ Stream("inverse", "jacobian") /\ kernel = "inverse" /\ kernel' = "jacobian"
      /\ UNCHANGED <<host, state, newton, field, forces, gcon, residual, control,
                     precon, tcon, reference, vacuum, coupling, schedule>>
  BY DEF EnqueuePrefix, Stream, deviceCaches
<1>2. /\ {"inverse", "jacobian"} \subseteq InFlight /\ "jacobian" \notin PastJacobian
      /\ "inverse" \notin PastInverse
  BY DEF InFlight, PastInverse, PastJacobian
<1>2a. \A k \in {"inverse", "jacobian"} :
       /\ k \notin PastField /\ k \notin PastVacuum /\ k \notin PastCaches
       /\ k \notin PastForce /\ k \notin PastEdge /\ k \notin PastConstraint
       /\ k \notin PastForward /\ k \notin PastPredicate
  BY DEF InFlight, PastInverse, PastJacobian, PastField, PastVacuum, PastCaches,
         PastForce, PastEdge, PastConstraint, PastForward, PastPredicate
<1>3. Alongside'
  BY <1>1, <1>2, <1>2a, StreamKeeps
<1>4. geometry' = GeometryOf(state) /\ IsTransform(transform')
  <2>1. IsGeometry(geometry)
    BY DEF BufferTypes, IsGeometry, GeometryOf, NoGeometry
  <2>2. IsTransform(transform)
    BY DEF BufferTypes
  <2> QED
    BY <2>1, <2>2, SynthesisIs DEF EnqueuePrefix, Synthesis
<1>5. BufferTypes'
  BY <1>1, <1>4 DEF BufferTypes, HostTypes
<1>6. ControlInv'
  <2>1. "inverse" \notin PastJacobian
    BY <1>2 DEF PastJacobian
  <2>2. control' = Cleared
    BY <1>1, <1>2, <2>1 DEF ControlInv
  <2>3. kernel' \notin PastJacobian /\ kernel' \notin PastPredicate
    BY <1>1, <1>2, <1>2a
  <2> QED
    BY <2>2, <2>3 DEF ControlInv, Cleared
<1>7. BufferInv'
  BY <1>1, <1>2, <1>2a, <1>4 DEF BufferInv
<1>8. EntryInv'
  <2>1. ASSUME NEW found \in CachesType, CachesChanged(found)
        PROVE  CachesChanged(found)'
    BY <1>1, <1>2a, <2>1 DEF CachesChanged, Faded, Numbers
  <2> QED
    BY <1>1, <1>2, <2>1, EntryKept
<1> QED
  BY <1>3, <1>5, <1>6, <1>7, <1>8 DEF Alongside

LEMMA JacobianStep == DeviceInv /\ JacobianStatus => DeviceInv'
<1> SUFFICES ASSUME DeviceInv, JacobianStatus PROVE DeviceInv'
  OBVIOUS
<1> USE DEF DeviceInv
<1>1. /\ Stream("jacobian", "field") /\ kernel = "jacobian" /\ kernel' = "field"
      /\ UNCHANGED <<host, state, newton, transform, geometry, field, forces, gcon,
                     residual, precon, tcon, reference, vacuum, coupling, schedule>>
  BY DEF JacobianStatus, Stream, buffers, deviceCaches
<1>2. /\ {"jacobian", "field"} \subseteq InFlight \cap PastInverse
      /\ "field" \in PastJacobian /\ "jacobian" \notin PastJacobian
      /\ \A k \in {"jacobian", "field"} :
           /\ k \notin PastField /\ k \notin PastVacuum /\ k \notin PastCaches
           /\ k \notin PastForce /\ k \notin PastEdge /\ k \notin PastConstraint
           /\ k \notin PastForward /\ k \notin PastPredicate
  BY DEF InFlight, PastInverse, PastJacobian, PastField, PastVacuum, PastCaches,
         PastForce, PastEdge, PastConstraint, PastForward, PastPredicate
<1>3. Alongside'
  BY <1>1, <1>2, StreamKeeps
<1>4. control' = [stats |-> state, valid |-> state \in Oriented, partials |-> None,
                  rz |-> None, norms |-> Unset, raw |-> None, used |-> Unset,
                  verdict |-> "none", evaluated |-> FALSE]
  <2>1. control = Cleared
    BY <1>1, <1>2 DEF ControlInv
  <2>2. geometry.metric = state
    BY <1>1, <1>2 DEF BufferInv, GeometryOf
  <2> DEFINE c == JacobianStats(control, geometry)
  <2>3. c = [Cleared EXCEPT !.stats = state]
    BY <2>1, <2>2 DEF JacobianStats
  <2>4. control' = [c EXCEPT !.valid = c.stats \in Oriented]
    BY DEF JacobianStatus, JacobianFinalize
  <2> HIDE DEF c
  <2> QED
    BY <2>3, <2>4 DEF Cleared
<1>5. BufferTypes'
  BY <1>1, <1>4 DEF BufferTypes, HostTypes, IsControl
<1>6. ControlInv'
  BY <1>1, <1>2, <1>4 DEF ControlInv
<1>7. BufferInv'
  BY <1>1, <1>2 DEF BufferInv
<1>8. EntryInv'
  <2>1. ASSUME NEW found \in CachesType, CachesChanged(found)
        PROVE  CachesChanged(found)'
    BY <1>1, <1>2, <2>1 DEF CachesChanged, Faded, Numbers
  <2> QED
    BY <1>1, <1>2, <2>1, EntryKept
<1> QED
  BY <1>3, <1>5, <1>6, <1>7, <1>8 DEF Alongside

LEMMA FieldStep == DeviceInv /\ Field => DeviceInv'
<1> SUFFICES ASSUME DeviceInv, Field PROVE DeviceInv'
  OBVIOUS
<1> USE DEF DeviceInv
<1> DEFINE next == IF schedule.vacuum THEN "vacuum" ELSE "caches"
<1>1. /\ Stream("field", next) /\ kernel = "field" /\ kernel' = next
      /\ UNCHANGED <<host, state, newton, transform, geometry, forces, gcon, residual,
                     control, precon, tcon, reference, vacuum, coupling, schedule>>
  BY DEF Field, Stream, deviceCaches
<1>2. /\ {"field", "vacuum", "caches"} \subseteq InFlight \cap PastJacobian
      /\ {"vacuum", "caches"} \subseteq PastField /\ "field" \notin PastField
      /\ "caches" \in PastVacuum /\ "field" \notin PastVacuum /\ "vacuum" \notin PastVacuum
      /\ {"field", "vacuum", "caches"} \subseteq PastInverse
      /\ \A k \in {"field", "vacuum", "caches"} :
           /\ k \notin PastCaches
           /\ k \notin PastForce /\ k \notin PastEdge /\ k \notin PastConstraint
           /\ k \notin PastForward /\ k \notin PastPredicate
  BY DEF InFlight, PastInverse, PastJacobian, PastField, PastVacuum, PastCaches,
         PastForce, PastEdge, PastConstraint, PastForward, PastPredicate
<1>3. next \in {"vacuum", "caches"} /\ (next = "vacuum" <=> schedule.vacuum)
  OBVIOUS
<1> HIDE DEF next
<1>4. Alongside'
  BY <1>1, <1>2, <1>3, StreamKeeps
<1>5. field' = IF control.valid THEN FieldOf(state) ELSE field
  <2>1. IsField(field) /\ (~EvolveCurrent => field.profiles = None /\ field.fullProfiles = None)
    <3>1. CASE field = NoField
      BY <3>1 DEF NoField, IsField
    <3>2. ASSUME NEW s, field = FieldOf(s)
          PROVE  IsField(field) /\ (~EvolveCurrent => field.profiles = None
                                                      /\ field.fullProfiles = None)
      BY <3>2, WholeIs DEF FieldOf
    <3> QED
      BY <3>1, <3>2 DEF BufferTypes
  <2>2. geometry = GeometryOf(state)
    BY <1>1, <1>2 DEF BufferInv
  <2> QED
    BY <2>1, <2>2, FieldIs, FieldKept DEF Field
<1>6. control.valid <=> state \in Oriented
  BY <1>1, <1>2 DEF ControlInv
<1>7. BufferTypes'
  BY <1>1, <1>5, <1>6 DEF BufferTypes
<1>8. ControlInv'
  BY <1>1, <1>2, <1>3 DEF ControlInv, Rebuilt
<1>9. BufferInv'
  <2>1. ~schedule.edge
    BY <1>1, <1>2 DEF ScheduleInv
  <2> QED
    BY <1>1, <1>2, <1>3, <1>5, <2>1 DEF BufferInv
<1>10. EntryInv'
  <2>1. ASSUME NEW found \in CachesType, CachesChanged(found)
        PROVE  CachesChanged(found)'
    <3>1. schedule.full => next = "vacuum"
      BY <1>3 DEF ScheduleInv
    <3> QED
      BY <1>1, <1>2, <1>3, <2>1, <3>1 DEF CachesChanged, Faded, Numbers
  <2> QED
    BY <1>1, <1>2, <1>3, <2>1, EntryKept
<1> QED
  BY <1>4, <1>7, <1>8, <1>9, <1>10 DEF Alongside

LEMMA VacuumStep == DeviceInv /\ VacuumBlock => DeviceInv'
<1> SUFFICES ASSUME DeviceInv, VacuumBlock PROVE DeviceInv'
  OBVIOUS
<1> USE DEF DeviceInv
<1>1. /\ Stream("vacuum", "caches") /\ kernel = "vacuum" /\ kernel' = "caches"
      /\ UNCHANGED <<host, state, age, pc, fresh, valid, newton, transform, geometry,
                     field, forces, gcon, residual, control, precon, tcon, reference>>
      /\ UNCHANGED <<host, graphs, pass>>
  BY DEF VacuumBlock, Stream, buffers, pass
<1>2. /\ {"vacuum", "caches"} \subseteq InFlight \cap PastJacobian
      /\ {"vacuum", "caches"} \subseteq PastField \cap PastInverse
      /\ "caches" \in PastVacuum /\ "vacuum" \notin PastVacuum
      /\ \A k \in {"vacuum", "caches"} :
           /\ k \notin PastCaches
           /\ k \notin PastForce /\ k \notin PastEdge /\ k \notin PastConstraint
           /\ k \notin PastForward /\ k \notin PastPredicate
  BY DEF InFlight, PastInverse, PastJacobian, PastField, PastVacuum, PastCaches,
         PastForce, PastEdge, PastConstraint, PastForward, PastPredicate
<1>3. schedule.vacuum /\ coupling # "fixed" /\ ~Correcting /\ ~Correcting'
  BY <1>1 DEF ScheduleInv, Correcting
<1>4. coupling' = IF coupling = "initializing" THEN "initialized" ELSE coupling
  BY DEF VacuumBlock
<1>5. /\ coupling' \in {"off", "initialized", "active"}
      /\ coupling' = "off" <=> coupling = "off"
  BY <1>3, <1>4 DEF HostTypes
<1>6. /\ schedule' \in ScheduleType
      /\ schedule'.refresh = schedule.refresh /\ schedule'.gauge = schedule.gauge
      /\ schedule'.reset = schedule.reset /\ schedule'.decay = schedule.decay
      /\ schedule'.full = schedule.full /\ schedule'.vacuum = schedule.vacuum
      /\ schedule'.factors = schedule.factors
      /\ schedule'.edge = (coupling' # "off")
  BY DEF VacuumBlock, HostTypes, ScheduleType
<1>7. vacuum' = [boundary |-> state, currents |-> field.bsub,
                 factors |-> IF schedule.full THEN state ELSE vacuum.factors]
  <2>1. AxisExtract(geometry) = state
    BY <1>1, <1>2, ShapeIs DEF BufferInv, AxisExtract
  <2>2. From({LcfsRepack(state), AxisExtract(geometry)}) = state
    BY <2>1, FromOne DEF LcfsRepack
  <2> QED
    BY <2>2 DEF VacuumBlock, HostUpdate, SurfaceAverages
<1>8. control.valid <=> state \in Oriented
  BY <1>1, <1>2 DEF ControlInv
<1>9. HostTypes' /\ StreamInv' /\ FenceInv' /\ DecisionInv'
  <2>1. coupling' = "fixed" => coupling = "fixed"
    BY <1>5
  <2> QED
    BY <1>1, <1>2, <1>5, <1>6, <2>1, StreamTypes
<1>10. ScheduleInv'
  <2>1. schedule'.edge <=> coupling' \in {"initialized", "active"}
    BY <1>5, <1>6
  <2>2. coupling' # "fixed" /\ coupling' # "initializing"
    BY <1>5
  <2>3. schedule'.factors = host /\ (schedule'.refresh <=> age = 0)
    BY <1>1, <1>2, <1>3, <1>6 DEF ScheduleInv
  <2>4. schedule'.vacuum
    BY <1>3, <1>6
  <2> QED
    BY <1>1, <1>2, <1>3, <1>6, <2>1, <2>2, <2>3, <2>4 DEF ScheduleInv
<1>11. CachesInv'
  <2>1. HasCaches' = HasCaches /\ GraphsCurrent' = GraphsCurrent
    BY <1>1 DEF HasCaches, GraphsCurrent, graphs
  <2> QED
    BY <1>1, <2>1 DEF CachesInv, pass
<1>12. VacuumInv'
  BY <1>1, <1>2, <1>3, <1>5, <1>6, <1>7 DEF VacuumInv
<1>13. NewtonInv'
  BY <1>3 DEF NewtonInv
<1>14. BufferTypes'
  <2>1. field.bsub \in Accurate
    <3>1. CASE field = NoField
      BY <3>1 DEF NoField, Accurate
    <3>2. ASSUME NEW s \in Oriented, field = FieldOf(s) PROVE field.bsub \in Accurate
      BY <3>2, WholeIs DEF Accurate
    <3> QED
      BY <3>1, <3>2 DEF BufferTypes
  <2>2. vacuum' \in [boundary : States \cup {None}, currents : Accurate,
                     factors : States \cup {None}]
    BY <1>7, <2>1 DEF BufferTypes, HostTypes
  <2> QED
    BY <1>1, <2>2 DEF BufferTypes
<1>15. ControlInv'
  BY <1>1, <1>2 DEF ControlInv, Rebuilt
<1>16. BufferInv'
  <2>1. control.valid => field.bsub = state /\ state \in Oriented
    BY <1>1, <1>2, <1>8, WholeIs DEF BufferInv
  <2>2. schedule'.edge /\ ~schedule.full => vacuum.factors \in Oriented
    BY <1>1, <1>2, <1>3, <1>5, <1>6 DEF VacuumInv
  <2>3. /\ vacuum'.boundary = state
        /\ control.valid => vacuum'.currents = state
        /\ schedule'.edge /\ control.valid => vacuum'.factors \in Oriented
    BY <1>7, <2>1, <2>2
  <2> QED
    BY <1>1, <1>2, <2>3 DEF BufferInv
<1>17. EntryInv'
  <2>1. ASSUME NEW found \in CachesType, CachesChanged(found)
        PROVE  CachesChanged(found)'
    BY <1>1, <1>2, <1>6, <1>7, <2>1 DEF CachesChanged, Faded, Numbers
  <2>2. coupling' = "fixed" <=> coupling = "fixed"
    BY <1>3, <1>5
  <2> QED
    BY <1>1, <1>2, <1>6, <2>1, <2>2, EntryKept
<1> QED
  BY <1>9, <1>10, <1>11, <1>12, <1>13, <1>14, <1>15, <1>16, <1>17

LEMMA CachesStep == DeviceInv /\ RebuildCaches => DeviceInv'
<1> SUFFICES ASSUME DeviceInv, RebuildCaches PROVE DeviceInv'
  OBVIOUS
<1> USE DEF DeviceInv
<1>1. /\ Stream("caches", "force") /\ kernel = "caches" /\ kernel' = "force"
      /\ UNCHANGED <<host, state, newton, transform, geometry, field, forces, gcon,
                     residual, tcon, vacuum, coupling, schedule>>
  BY DEF RebuildCaches, Stream, buffers
<1>2. /\ {"caches", "force"} \subseteq InFlight \cap PastInverse
      /\ {"caches", "force"} \subseteq PastJacobian \cap PastField
      /\ {"caches", "force"} \subseteq PastVacuum
      /\ "force" \in PastCaches /\ "caches" \notin PastCaches
      /\ \A k \in {"caches", "force"} :
           /\ k \notin PastForce /\ k \notin PastEdge /\ k \notin PastConstraint
           /\ k \notin PastForward /\ k \notin PastPredicate
  BY DEF InFlight, PastInverse, PastJacobian, PastField, PastVacuum, PastCaches,
         PastForce, PastEdge, PastConstraint, PastForward, PastPredicate
<1>3. /\ control.valid <=> state \in Oriented
      /\ control.partials = None /\ control.norms = Unset
  BY <1>1, <1>2 DEF ControlInv
<1>4. geometry = GeometryOf(state) /\ (control.valid => field = FieldOf(state))
  BY <1>1, <1>2 DEF BufferInv
<1>5. precon' = IF Rebuilt THEN PreconOf(state) ELSE precon
  <2>1. IsPrecon(precon)
    <3>1. CASE precon = NoPrecon
      BY <3>1 DEF NoPrecon, IsPrecon
    <3>2. ASSUME NEW s, precon = PreconOf(s) PROVE IsPrecon(precon)
      BY <3>2 DEF PreconOf, IsPrecon
    <3> QED
      BY <3>1, <3>2 DEF BufferTypes
  <2>2. CASE control.valid
    BY <1>4, <2>1, <2>2, ComputeIs DEF RebuildCaches, Rebuilt
  <2>3. CASE ~control.valid
    BY <2>1, <2>3, ComputeKept DEF RebuildCaches, Rebuilt
  <2> QED
    BY <2>2, <2>3
<1>6. /\ IsControl(control') /\ (control'.valid = control.valid)
      /\ IF Rebuilt THEN control'.partials = state /\ control'.norms = state
         ELSE control'.partials = None /\ control'.norms = Unset
  <2>1. IsControl(control) /\ state \in States
    BY DEF BufferTypes, HostTypes
  <2>2. CASE Rebuilt
    <3>1. control' = ForceNorms(control, GeometryOf(state), FieldOf(state), state)
      BY <1>4, <2>2 DEF RebuildCaches, Rebuilt
    <3> DEFINE c == control
    <3>2. IsControl(c) /\ c.valid /\ state \in States
      BY <2>1, <2>2 DEF Rebuilt
    <3> HIDE DEF c
    <3>3. ForceNorms(c, GeometryOf(state), FieldOf(state), state) =
            [stats |-> c.stats, valid |-> c.valid, partials |-> state,
             rz |-> state, norms |-> state, raw |-> c.raw, used |-> c.used,
             verdict |-> c.verdict, evaluated |-> c.evaluated]
      BY <3>2, NormsIs
    <3>4. control' = ForceNorms(c, GeometryOf(state), FieldOf(state), state)
      BY <3>1 DEF c
    <3>5. IsControl(control') /\ (control'.valid = c.valid)
          /\ control'.partials = state /\ control'.norms = state
      BY <3>3, <3>4 DEF IsControl
    <3> QED
      BY <2>2, <3>5 DEF c
  <2>3. CASE ~Rebuilt
    <3>1. control' = control
      BY <1>3, <2>3, NormsKept DEF RebuildCaches, Rebuilt
    <3> QED
      BY <1>3, <2>1, <2>3, <3>1
  <2> QED
    BY <2>2, <2>3
<1>7. reference' = IF schedule.reset /\ control.valid
                   THEN [of |-> state, decays |-> 0] ELSE reference
  BY <1>4, ShapeIs, GuardedIs DEF RebuildCaches, ResetReference, Guarded
<1>8. ~schedule.refresh => precon' = precon
  BY <1>5 DEF Rebuilt
<1>9. Alongside'
  BY <1>1, <1>2, <1>7, <1>8, StreamKeeps
<1>10. BufferTypes'
  <2>1. precon' \in {NoPrecon} \cup {PreconOf(s) : s \in Oriented}
    BY <1>3, <1>5 DEF BufferTypes, Rebuilt
  <2>2. reference' \in References
    BY <1>7 DEF BufferTypes, HostTypes, References
  <2>3. control'.valid \in BOOLEAN
    BY <1>6 DEF BufferTypes
  <2> QED
    BY <1>1, <1>6, <2>1, <2>2, <2>3 DEF BufferTypes
<1>11. Rebuilt' = Rebuilt
  BY <1>1, <1>6 DEF Rebuilt
<1>12. ControlInv'
  BY <1>1, <1>2, <1>3, <1>6, <1>11 DEF ControlInv
<1>13. BufferInv'
  BY <1>1, <1>2, <1>4, <1>6 DEF BufferInv
<1>14. EntryInv'
  <2>1. ASSUME NEW found \in CachesType, CachesChanged(found)
        PROVE  CachesChanged(found)'
    <3>1. /\ ElementsOf(precon) = found.precon /\ tcon = found.tcon
          /\ reference = found.reference /\ found.factors = Numbers
          /\ vacuum.factors = IF schedule.full THEN state ELSE found.vacuum
      BY <1>1, <1>2, <2>1 DEF CachesChanged, Faded
    <3>2. ElementsOf(precon') = IF Rebuilt THEN state ELSE found.precon
      BY <1>5, <3>1, ElementsIs
    <3>3. reference' = IF schedule.reset /\ control'.valid
                       THEN [of |-> state, decays |-> 0] ELSE found.reference
      BY <1>6, <1>7, <3>1
    <3> QED
      BY <1>1, <1>2, <1>11, <3>1, <3>2, <3>3 DEF CachesChanged, Faded, Numbers
  <2> QED
    BY <1>1, <1>2, <2>1, EntryKept
<1> QED
  BY <1>9, <1>10, <1>12, <1>13, <1>14 DEF Alongside

LEMMA ForceStep == DeviceInv /\ Forces => DeviceInv'
<1> SUFFICES ASSUME DeviceInv, Forces PROVE DeviceInv'
  OBVIOUS
<1> USE DEF DeviceInv
<1>1. /\ Stream("force", "edge") /\ kernel = "force" /\ kernel' = "edge"
      /\ UNCHANGED <<host, state, newton, transform, geometry, field, gcon,
                     residual, control, precon, tcon, reference, vacuum, coupling,
                     schedule>>
  BY DEF Forces, Stream, deviceCaches
<1>2. /\ {"force", "edge"} \subseteq InFlight \cap PastInverse
      /\ {"force", "edge"} \subseteq PastJacobian \cap PastField
      /\ {"force", "edge"} \subseteq PastVacuum \cap PastCaches
      /\ "edge" \in PastForce /\ "force" \notin PastForce
      /\ \A k \in {"force", "edge"} :
           /\ k \notin PastEdge /\ k \notin PastConstraint
           /\ k \notin PastForward /\ k \notin PastPredicate
  BY DEF InFlight, PastInverse, PastJacobian, PastField, PastVacuum, PastCaches,
         PastForce, PastEdge, PastConstraint, PastForward, PastPredicate
<1>3. Alongside'
  BY <1>1, <1>2, StreamKeeps
<1>4. geometry = GeometryOf(state) /\ (control.valid => field = FieldOf(state))
      /\ IsForces(forces)
  BY <1>1, <1>2 DEF BufferInv, BufferTypes
<1>5. /\ IsForces(forces')
      /\ control.valid => /\ forces'.mhd = state /\ forces'.edge = None
                          /\ forces'.constraint = None
  <2>1. forces' = MhdForce(control, forces, geometry, field)
    BY DEF Forces
  <2>2. CASE control.valid
    <3>1. forces' = [mhd |-> state, edge |-> None, constraint |-> None,
                     frcon |-> forces.frcon]
      BY <1>4, <2>1, <2>2, ForceIs
    <3> QED
      BY <3>1 DEF IsForces
  <2>3. CASE ~control.valid
    BY <1>4, <2>1, <2>3, ForceIs
  <2> QED
    BY <2>2, <2>3
<1>6. BufferTypes'
  BY <1>1, <1>5 DEF BufferTypes
<1>7. ControlInv'
  BY <1>1, <1>2 DEF ControlInv, Rebuilt
<1>8. BufferInv'
  BY <1>1, <1>2, <1>5 DEF BufferInv
<1>9. EntryInv'
  <2>1. ASSUME NEW found \in CachesType, CachesChanged(found)
        PROVE  CachesChanged(found)'
    BY <1>1, <1>2, <2>1 DEF CachesChanged, Faded, Numbers, Rebuilt
  <2> QED
    BY <1>1, <1>2, <2>1, EntryKept
<1> QED
  BY <1>3, <1>6, <1>7, <1>8, <1>9 DEF Alongside

LEMMA EdgeStep == DeviceInv /\ EdgeForceAndDecay => DeviceInv'
<1> SUFFICES ASSUME DeviceInv, EdgeForceAndDecay PROVE DeviceInv'
  OBVIOUS
<1> USE DEF DeviceInv
<1>1. /\ Stream("edge", "constraint") /\ kernel = "edge" /\ kernel' = "constraint"
      /\ UNCHANGED <<host, state, newton, transform, geometry, field, gcon,
                     residual, control, precon, tcon, vacuum, coupling, schedule>>
  BY DEF EdgeForceAndDecay, Stream
<1>2. /\ {"edge", "constraint"} \subseteq InFlight \cap PastInverse
      /\ {"edge", "constraint"} \subseteq PastJacobian \cap PastField
      /\ {"edge", "constraint"} \subseteq PastVacuum \cap PastCaches
      /\ {"edge", "constraint"} \subseteq PastForce
      /\ "constraint" \in PastEdge /\ "edge" \notin PastEdge
      /\ \A k \in {"edge", "constraint"} :
           /\ k \notin PastConstraint
           /\ k \notin PastForward /\ k \notin PastPredicate
  BY DEF InFlight, PastInverse, PastJacobian, PastField, PastVacuum, PastCaches,
         PastForce, PastEdge, PastConstraint, PastForward, PastPredicate
<1>3. reference' = IF schedule.decay THEN [reference EXCEPT !.decays = @ + 1]
                   ELSE reference
  BY DEF EdgeForceAndDecay, RconDecay
<1>4. Alongside'
  BY <1>1, <1>2, <1>3, StreamKeeps
<1>5. /\ geometry = GeometryOf(state) /\ IsForces(forces)
      /\ control.valid => /\ field = FieldOf(state) /\ forces.mhd = state
                          /\ forces.edge = None /\ forces.constraint = None
  BY <1>1, <1>2 DEF BufferInv, BufferTypes
<1>6. /\ IsForces(forces')
      /\ control.valid => /\ forces'.mhd = state /\ forces'.edge = Pushed
                          /\ forces'.constraint = None
  <2> DEFINE x == Rbsq(vacuum, geometry, field)
  <2>1. control.valid => x = [pressure |-> vacuum, on |-> state]
    BY <1>5, RbsqIs
  <2> HIDE DEF x
  <2>2. CASE schedule.edge
    <3>1. forces' = EdgeForce(forces, x)
      BY <2>2 DEF EdgeForceAndDecay, x
    <3>2. IsForces(forces')
      BY <1>5, <3>1, EdgeIs
    <3>3. control.valid => forces' = [mhd |-> forces.mhd, edge |-> x,
                                      constraint |-> forces.constraint,
                                      frcon |-> forces.frcon]
      BY <1>5, <3>1, EdgeIs
    <3> QED
      BY <1>5, <2>1, <2>2, <3>2, <3>3 DEF Pushed
  <2>3. CASE ~schedule.edge
    BY <1>5, <2>3 DEF EdgeForceAndDecay, Pushed
  <2> QED
    BY <2>2, <2>3
<1>7. BufferTypes'
  <2>1. reference' \in References
    BY <1>3 DEF BufferTypes, References
  <2> QED
    BY <1>1, <1>6, <2>1 DEF BufferTypes
<1>8. ControlInv'
  BY <1>1, <1>2 DEF ControlInv, Rebuilt
<1>9. BufferInv'
  BY <1>1, <1>2, <1>6 DEF BufferInv, Pushed
<1>10. EntryInv'
  <2>1. ASSUME NEW found \in CachesType, CachesChanged(found)
        PROVE  CachesChanged(found)'
    BY <1>1, <1>2, <1>3, <2>1 DEF CachesChanged, Faded, Numbers, Rebuilt
  <2> QED
    BY <1>1, <1>2, <2>1, EntryKept
<1> QED
  BY <1>4, <1>7, <1>8, <1>9, <1>10 DEF Alongside

(* The elements that a valid pass will be preconditioned with.               *)
LEMMA PreconIs == BufferTypes => precon = PreconOf(ElementsOf(precon))
<1>1. NoPrecon = PreconOf(None)
  BY DEF NoPrecon, PreconOf
<1> QED
  BY <1>1, ElementsIs DEF BufferTypes

LEMMA ConstrainStep == DeviceInv /\ Constrain => DeviceInv'
<1> SUFFICES ASSUME DeviceInv, Constrain PROVE DeviceInv'
  OBVIOUS
<1> USE DEF DeviceInv
<1>1. /\ Stream("constraint", "forward") /\ kernel = "constraint" /\ kernel' = "forward"
      /\ UNCHANGED <<host, state, newton, geometry, field, residual, control, precon,
                     reference, vacuum, coupling, schedule>>
  BY DEF Constrain, Stream
<1>2. /\ {"constraint", "forward"} \subseteq InFlight \cap PastInverse
      /\ {"constraint", "forward"} \subseteq PastJacobian \cap PastField
      /\ {"constraint", "forward"} \subseteq PastVacuum \cap PastCaches
      /\ {"constraint", "forward"} \subseteq PastForce \cap PastEdge
      /\ "forward" \in PastConstraint /\ "constraint" \notin PastConstraint
      /\ \A k \in {"constraint", "forward"} :
           k \notin PastForward /\ k \notin PastPredicate
  BY DEF InFlight, PastInverse, PastJacobian, PastField, PastVacuum, PastCaches,
         PastForce, PastEdge, PastConstraint, PastForward, PastPredicate
<1>3. /\ geometry = GeometryOf(state) /\ state \in States /\ reference \in References
      /\ IsTransform(transform) /\ IsForces(forces) /\ IsConstraint(gcon)
      /\ control.valid => /\ forces.mhd = state /\ forces.edge = Pushed
                          /\ forces.constraint = None
  BY <1>1, <1>2 DEF BufferInv, BufferTypes, HostTypes
<1>4. control.valid <=> state \in Oriented
  BY <1>1, <1>2 DEF ControlInv
<1>5. tcon' = IF Rebuilt THEN state ELSE tcon
  <2>1. CASE Rebuilt
    <3>1. ElementsOf(precon) = state
      BY <1>1, <1>2, <2>1 DEF EntryInv, CachesChanged
    <3>2. precon.diagonal = state
      BY <3>1, PreconIs DEF PreconOf
    <3>3. geometry.r = state /\ geometry.z = state
      BY <1>3 DEF GeometryOf
    <3>4. From({geometry.r, geometry.z, precon.diagonal}) = state
      BY <3>2, <3>3, FromOne
    <3> QED
      BY <2>1, <3>4 DEF Constrain, ComputeTcon, Guarded, Rebuilt
  <2>2. CASE ~Rebuilt
    BY <2>2 DEF Constrain, ComputeTcon, Guarded, Rebuilt
  <2> QED
    BY <2>1, <2>2
<1> DEFINE head == EffectiveConstraint(control, gcon, geometry, reference)
           bandpass == EnqueueDealias(transform, head.eff, tcon')
           con == bandpass.gCon
           added == ConstraintOf(state, reference, tcon')
<1>6. IsConstraint(head) /\ (control.valid => head.eff = [geometry |-> state, reference |-> reference])
  <2>1. CASE control.valid
    <3>1. head = [eff |-> [geometry |-> state, reference |-> reference], con |-> gcon.con]
      BY <1>3, <2>1, EffectiveIs
    <3> HIDE DEF head
    <3> QED
      BY <3>1 DEF IsConstraint
  <2>2. CASE ~control.valid
    BY <1>3, <2>2, EffectiveIs
  <2> QED
    BY <2>1, <2>2
<1>7. transform' = bandpass.transform /\ gcon' = [head EXCEPT !.con = con]
      /\ forces' = AddConstraint(control, forces, geometry, reference, gcon'.con)
  BY DEF Constrain
<1> HIDE DEF head
<1>8. IsTransform(transform') /\ con = Multiplied(head.eff, tcon')
  BY <1>3, <1>7, DealiasIs
<1> HIDE DEF con, bandpass
<1>9. IsConstraint(gcon') /\ gcon'.con = con
  BY <1>6, <1>7 DEF IsConstraint
<1>10. control.valid => con = Filtered(state, reference, tcon')
  BY <1>3, <1>6, <1>8, FilteredIs
<1>11. /\ IsForces(forces')
       /\ control.valid => /\ forces'.mhd = state /\ forces'.edge = Pushed
                           /\ forces'.constraint = added /\ forces'.frcon = added
  <2>1. CASE control.valid
    <3>1. forces' = [mhd |-> forces.mhd, edge |-> forces.edge, constraint |-> added,
                     frcon |-> added]
      BY <1>3, <1>7, <1>9, <1>10, <2>1, ConstraintIs
    <3> HIDE DEF added
    <3> QED
      BY <1>3, <3>1 DEF IsForces
  <2>2. CASE ~control.valid
    BY <1>3, <1>7, <2>2, ConstraintIs
  <2> QED
    BY <2>1, <2>2
<1>12. Alongside'
  <2>1. ~schedule.refresh => tcon' = tcon
    BY <1>5 DEF Rebuilt
  <2> QED
    BY <1>1, <1>2, <2>1, StreamKeeps
<1>13. BufferTypes'
  <2>1. tcon' \in Accurate
    BY <1>4, <1>5 DEF BufferTypes, Rebuilt, Accurate
  <2> QED
    BY <1>1, <1>8, <1>9, <1>11, <2>1 DEF BufferTypes
<1>14. ControlInv'
  BY <1>1, <1>2 DEF ControlInv, Rebuilt
<1>15. BufferInv'
  BY <1>1, <1>2, <1>11 DEF BufferInv, Pushed, Constrained
<1>16. EntryInv'
  <2>1. ASSUME NEW found \in CachesType, CachesChanged(found)
        PROVE  CachesChanged(found)'
    BY <1>1, <1>2, <1>5, <2>1 DEF CachesChanged, Faded, Numbers, Rebuilt
  <2> QED
    BY <1>1, <1>2, <2>1, EntryKept
<1> QED
  BY <1>12, <1>13, <1>14, <1>15, <1>16 DEF Alongside

LEMMA ForwardStep == DeviceInv /\ Forward => DeviceInv'
<1> SUFFICES ASSUME DeviceInv, Forward PROVE DeviceInv'
  OBVIOUS
<1> USE DEF DeviceInv
<1>1. /\ Stream("forward", "predicate") /\ kernel = "forward" /\ kernel' = "predicate"
      /\ UNCHANGED <<host, state, newton, geometry, field, forces, gcon, control,
                     precon, tcon, reference, vacuum, coupling, schedule>>
  BY DEF Forward, Stream, deviceCaches
<1>2. /\ {"forward", "predicate"} \subseteq InFlight \cap PastInverse
      /\ {"forward", "predicate"} \subseteq PastJacobian \cap PastField
      /\ {"forward", "predicate"} \subseteq PastVacuum \cap PastCaches
      /\ {"forward", "predicate"} \subseteq PastForce \cap PastEdge
      /\ {"forward", "predicate"} \subseteq PastConstraint
      /\ "predicate" \in PastForward /\ "forward" \notin PastForward
      /\ \A k \in {"forward", "predicate"} : k \notin PastPredicate
  BY DEF InFlight, PastInverse, PastJacobian, PastField, PastVacuum, PastCaches,
         PastForce, PastEdge, PastConstraint, PastForward, PastPredicate
<1>3. Alongside'
  BY <1>1, <1>2, StreamKeeps
<1>4. /\ IsTransform(transform)
      /\ control.valid => /\ forces.mhd = state /\ forces.edge = Pushed
                          /\ forces.constraint = Constrained
                          /\ forces.frcon = Constrained
  BY <1>1, <1>2 DEF BufferInv, BufferTypes
<1>5. /\ IsTransform(transform')
      /\ residual' =
           [mhd |-> forces.mhd, constraint |-> From({forces.constraint, forces.frcon}),
            edge |-> IF schedule.edge THEN forces.edge ELSE None, odd |-> "scaled",
            gauge |-> schedule.gauge, m1 |-> None, rz |-> None, lambda |-> None]
  <2> DEFINE t == transform
             f == forces
             edge == schedule.edge
             gauge == schedule.gauge
             forward == EnqueueForward(t, f, edge)
  <2>1. transform' = forward.transform
        /\ residual' = M1Constraint(Scalxc(forward.residual), gauge)
    BY DEF Forward
  <2>2. IsTransform(t)
    BY <1>4
  <2> HIDE DEF t, f, edge, gauge
  <2>3. /\ IsTransform(forward.transform)
        /\ M1Constraint(Scalxc(forward.residual), gauge) =
             [mhd |-> f.mhd, constraint |-> From({f.constraint, f.frcon}),
              edge |-> IF edge THEN f.edge ELSE None, odd |-> "scaled",
              gauge |-> gauge, m1 |-> None, rz |-> None, lambda |-> None]
    BY <2>2, ForwardIs
  <2> HIDE DEF forward
  <2> QED
    BY <2>1, <2>3 DEF f, edge, gauge
<1>6. IsResidual(residual') /\ residual'.m1 = None /\ residual'.rz = None
      /\ residual'.lambda = None
  BY <1>5 DEF IsResidual
<1>7. control.valid => ResidualOfState'
  <2> SUFFICES ASSUME control.valid PROVE ResidualOfState'
    OBVIOUS
  <2>1. From({forces.constraint, forces.frcon}) = Constrained
    BY <1>4, FromOne
  <2>2. (IF schedule.edge THEN forces.edge ELSE None) = Pushed
    BY <1>4 DEF Pushed
  <2>3. Pushed' = Pushed /\ Constrained' = Constrained
    BY <1>1 DEF Pushed, Constrained
  <2>4. residual'.mhd = state /\ residual'.constraint = Constrained
        /\ residual'.edge = Pushed /\ residual'.odd = "scaled"
        /\ residual'.gauge = schedule.gauge
    BY <1>4, <1>5, <2>1, <2>2
  <2> QED
    BY <1>1, <2>3, <2>4 DEF ResidualOfState
<1>8. BufferTypes'
  BY <1>1, <1>5, <1>6 DEF BufferTypes
<1>9. ControlInv'
  BY <1>1, <1>2 DEF ControlInv, Rebuilt
<1>10. BufferInv'
  BY <1>1, <1>2, <1>6, <1>7 DEF BufferInv, Pushed
<1>11. EntryInv'
  <2>1. ASSUME NEW found \in CachesType, CachesChanged(found)
        PROVE  CachesChanged(found)'
    BY <1>1, <1>2, <2>1 DEF CachesChanged, Faded, Numbers, Rebuilt
  <2> QED
    BY <1>1, <1>2, <2>1, EntryKept
<1> QED
  BY <1>3, <1>8, <1>9, <1>10, <1>11 DEF Alongside

LEMMA PredicateStep == DeviceInv /\ Classified => DeviceInv'
<1> SUFFICES ASSUME DeviceInv, Classified PROVE DeviceInv'
  OBVIOUS
<1> USE DEF DeviceInv
<1>1. /\ Stream("predicate", "precondition") /\ kernel = "predicate"
      /\ kernel' = "precondition"
      /\ UNCHANGED <<host, state, newton, transform, geometry, field, forces, gcon,
                     residual, precon, tcon, reference, vacuum, coupling, schedule>>
  BY DEF Classified, Stream, deviceCaches, buffers
<1>2. /\ {"predicate", "precondition"} \subseteq InFlight \cap PastInverse
      /\ {"predicate", "precondition"} \subseteq PastJacobian \cap PastField
      /\ {"predicate", "precondition"} \subseteq PastVacuum \cap PastCaches
      /\ {"predicate", "precondition"} \subseteq PastForce \cap PastEdge
      /\ {"predicate", "precondition"} \subseteq PastConstraint \cap PastForward
      /\ "precondition" \in PastPredicate /\ "predicate" \notin PastPredicate
  BY DEF InFlight, PastInverse, PastJacobian, PastField, PastVacuum, PastCaches,
         PastForce, PastEdge, PastConstraint, PastForward, PastPredicate
<1>3. Alongside'
  BY <1>1, <1>2, StreamKeeps
<1>4. /\ IsControl(control) /\ control.valid \in BOOLEAN
      /\ control.valid <=> state \in Oriented
      /\ IF Rebuilt THEN control.partials = state /\ control.norms = state
         ELSE control.partials = None /\ control.norms = Unset
      /\ control.valid => residual.mhd = state
      /\ schedule.factors = host
  BY <1>1, <1>2 DEF ControlInv, BufferInv, BufferTypes, ResidualOfState, ScheduleInv
<1> DEFINE raw == ComputeResiduals(control, residual)
<1>5. raw = [stats |-> control.stats, valid |-> control.valid,
             partials |-> control.partials, rz |-> control.rz,
             norms |-> control.norms, raw |-> residual.mhd, used |-> control.used,
             verdict |-> control.verdict, evaluated |-> control.evaluated]
  BY <1>4 DEF ComputeResiduals, IsControl
<1>6. PICK verdict \in Verdicts(raw, schedule.refresh, Terminal) :
        control' = InvariantPredicate(raw, schedule.refresh, schedule.factors, verdict)
  BY DEF Classified
<1> HIDE DEF raw
<1> DEFINE factors == IF schedule.refresh THEN raw.norms ELSE host
           c == [raw EXCEPT !.verdict = verdict]
<1>7. control' = [c EXCEPT !.used = factors]
  BY <1>4, <1>6 DEF InvariantPredicate
<1> HIDE DEF factors
<1>8. c = [stats |-> raw.stats, valid |-> raw.valid, partials |-> raw.partials,
           rz |-> raw.rz, norms |-> raw.norms, raw |-> raw.raw, used |-> raw.used,
           verdict |-> verdict, evaluated |-> raw.evaluated]
  BY <1>5
<1> HIDE DEF c
<1>9. control' = [stats |-> raw.stats, valid |-> raw.valid, partials |-> raw.partials,
                  rz |-> raw.rz, norms |-> raw.norms, raw |-> raw.raw,
                  used |-> factors, verdict |-> verdict, evaluated |-> raw.evaluated]
  BY <1>7, <1>8
<1>10. /\ IsControl(control') /\ (control'.valid = control.valid)
       /\ control'.partials = control.partials /\ control'.norms = control.norms
       /\ control'.used = (IF schedule.refresh THEN control'.norms ELSE host)
       /\ control'.verdict = verdict
  BY <1>5, <1>9 DEF IsControl, factors
<1>11. verdict \in {"none", "nonfinite", "converged"}
  BY <1>6 DEF Verdicts
<1>12. verdict = "converged" /\ schedule.refresh => control.valid
  <2>1. verdict = "converged" /\ schedule.refresh => raw.partials # None
    BY <1>6 DEF Verdicts, CanClassify
  <2> QED
    BY <1>4, <1>5, <2>1 DEF Rebuilt
<1>13. control.valid /\ verdict # "none" => state \in Terminal
  <2>1. verdict # "none" => raw.raw \in Terminal \cup {None}
    BY <1>6 DEF Verdicts
  <2>2. control.valid => raw.raw = state /\ state # None
    BY <1>4, <1>5, DeviceAssumption
  <2> QED
    BY <2>1, <2>2
<1>14. BufferTypes'
  <2>1. control'.valid \in BOOLEAN
    BY <1>4, <1>10
  <2> QED
    BY <1>1, <1>10, <2>1 DEF BufferTypes
<1>15. Rebuilt' = Rebuilt
  BY <1>1, <1>10 DEF Rebuilt
<1>16. ControlInv'
  BY <1>1, <1>2, <1>4, <1>10, <1>11, <1>12, <1>13, <1>15 DEF ControlInv
<1>17. BufferInv'
  <2>1. ResidualOfState' = ResidualOfState /\ Pushed' = Pushed
    BY <1>1 DEF ResidualOfState, Pushed, Constrained
  <2> QED
    BY <1>1, <1>2, <1>10, <2>1 DEF BufferInv
<1>18. EntryInv'
  <2>1. ASSUME NEW found \in CachesType, CachesChanged(found)
        PROVE  CachesChanged(found)'
    BY <1>1, <1>2, <1>10, <1>15, <2>1 DEF CachesChanged, Faded, Numbers
  <2> QED
    BY <1>1, <1>2, <2>1, EntryKept
<1> QED
  BY <1>3, <1>14, <1>16, <1>17, <1>18 DEF Alongside

LEMMA PreconditionStep == DeviceInv /\ Precondition => DeviceInv'
<1> SUFFICES ASSUME DeviceInv, Precondition PROVE DeviceInv'
  OBVIOUS
<1> USE DEF DeviceInv
<1>1. /\ Stream("precondition", "fence") /\ kernel = "precondition"
      /\ kernel' = "fence"
      /\ UNCHANGED <<host, state, newton, transform, geometry, field, forces, gcon,
                     precon, tcon, reference, vacuum, coupling, schedule>>
  BY DEF Precondition, Stream, deviceCaches
<1>2. /\ {"precondition", "fence"} \subseteq InFlight \cap PastInverse
      /\ {"precondition", "fence"} \subseteq PastJacobian \cap PastField
      /\ {"precondition", "fence"} \subseteq PastVacuum \cap PastCaches
      /\ {"precondition", "fence"} \subseteq PastForce \cap PastEdge
      /\ {"precondition", "fence"} \subseteq PastConstraint \cap PastForward
      /\ {"precondition", "fence"} \subseteq PastPredicate
  BY DEF InFlight, PastInverse, PastJacobian, PastField, PastVacuum, PastCaches,
         PastForce, PastEdge, PastConstraint, PastForward, PastPredicate
<1>3. Alongside'
  BY <1>1, <1>2, StreamKeeps
<1>4. /\ IsControl(control) /\ IsResidual(residual)
      /\ residual.m1 = None /\ residual.rz = None /\ residual.lambda = None
      /\ control.valid => ResidualOfState
  BY <1>1, <1>2 DEF BufferInv, BufferTypes
<1>5. /\ IsControl(control') /\ (control'.valid = control.valid)
      /\ control'.partials = control.partials /\ control'.norms = control.norms
      /\ control'.used = control.used /\ control'.verdict = control.verdict
  <2>1. CASE control.verdict # "none"
    BY <1>4, <2>1 DEF Precondition, PreconditionedResiduals, Unless
  <2>2. CASE control.verdict = "none"
    <3>1. control' = [control EXCEPT !.evaluated = TRUE]
      BY <2>2 DEF Precondition, PreconditionedResiduals, Unless
    <3>2. control' = [stats |-> control.stats, valid |-> control.valid,
                      partials |-> control.partials, rz |-> control.rz,
                      norms |-> control.norms, raw |-> control.raw,
                      used |-> control.used, verdict |-> control.verdict,
                      evaluated |-> TRUE]
      BY <1>4, <3>1 DEF IsControl
    <3> QED
      BY <3>2 DEF IsControl
  <2> QED
    BY <2>1, <2>2
<1>6. /\ IsResidual(residual')
      /\ residual'.mhd = residual.mhd /\ residual'.edge = residual.edge
      /\ residual'.constraint = residual.constraint
      /\ residual'.odd = residual.odd /\ residual'.gauge = residual.gauge
      /\ Preconditioned(residual') = IF control.verdict = "none"
                                     THEN ElementsOf(precon) ELSE None
  <2>1. residual' = EnqueueApply(control, M1PreconScale(control, residual, precon), precon)
    BY DEF Precondition
  <2>2. CASE control.verdict # "none"
    <3>1. residual' = residual
      BY <1>4, <2>1, <2>2, ApplyIs
    <3>2. Preconditioned(residual) = None
      BY <1>4, FromOne DEF Preconditioned
    <3> QED
      BY <1>4, <2>2, <3>1, <3>2
  <2>3. CASE control.verdict = "none"
    <3> DEFINE m1 == Added(residual.m1, precon.diagonal)
               rz == Added(residual.rz, From({precon.matrix, precon.scale}))
               lambda == Added(residual.lambda, precon.lambda)
    <3>1. residual' = [mhd |-> residual.mhd, constraint |-> residual.constraint,
                       edge |-> residual.edge, odd |-> residual.odd,
                       gauge |-> residual.gauge, m1 |-> m1, rz |-> rz,
                       lambda |-> lambda]
      BY <1>4, <2>1, <2>3, ApplyIs
    <3>2. From({m1, rz, lambda}) = ElementsOf(precon)
      <4> DEFINE p == ElementsOf(precon)
      <4>1. precon = PreconOf(p)
        BY PreconIs
      <4> HIDE DEF p
      <4> QED
        BY <1>4, <4>1, AppliedIs DEF p
    <3> HIDE DEF m1, rz, lambda
    <3>3. Preconditioned(residual') = From({m1, rz, lambda})
      BY <3>1 DEF Preconditioned
    <3> QED
      BY <2>3, <3>1, <3>2, <3>3 DEF IsResidual
  <2> QED
    BY <2>2, <2>3
<1>7. BufferTypes'
  <2>1. control'.valid \in BOOLEAN
    BY <1>5 DEF BufferTypes
  <2> QED
    BY <1>1, <1>5, <1>6, <2>1 DEF BufferTypes
<1>8. Rebuilt' = Rebuilt
  BY <1>1, <1>5 DEF Rebuilt
<1>9. ControlInv'
  BY <1>1, <1>2, <1>5, <1>8 DEF ControlInv
<1>10. BufferInv'
  <2>1. control.valid => ResidualOfState'
    BY <1>1, <1>4, <1>6 DEF ResidualOfState, Pushed, Constrained
  <2>2. Pushed' = Pushed
    BY <1>1 DEF Pushed
  <2> QED
    BY <1>1, <1>2, <1>5, <1>6, <2>1, <2>2 DEF BufferInv
<1>11. EntryInv'
  <2>1. ASSUME NEW found \in CachesType, CachesChanged(found)
        PROVE  CachesChanged(found)'
    BY <1>1, <1>2, <1>5, <1>8, <2>1 DEF CachesChanged, Faded, Numbers
  <2> QED
    BY <1>1, <1>2, <2>1, EntryKept
<1> QED
  BY <1>3, <1>7, <1>9, <1>10, <1>11 DEF Alongside

-----------------------------------------------------------------------------
(* A pass begins.                                                            *)
Outside(k) ==
  /\ k \notin PastInverse /\ k \notin PastJacobian /\ k \notin PastField
  /\ k \notin PastVacuum /\ k \notin PastCaches /\ k \notin PastForce
  /\ k \notin PastEdge /\ k \notin PastConstraint /\ k \notin PastForward
  /\ k \notin PastPredicate

LEMMA OutsideIs ==
  /\ \A k \in Between \cup {"inverse"} : Outside(k)
  /\ "inverse" \in InFlight /\ "fence" \in InFlight
  /\ \A k \in Between : k \notin InFlight
  BY DEF InFlight, Between, PastInverse, PastJacobian, PastField, PastVacuum,
         PastCaches, PastForce, PastEdge, PastConstraint, PastForward,
         PastPredicate, Outside

LEMMA CapturedIs ==
  ASSUME DeviceInv, NEW gauge \in Shapes
  PROVE  /\ Captured(gauge) \in [Shapes -> Factors \cup {Empty}]
         /\ \A s \in Shapes : Captured(gauge)[s] \in {Empty, host}
         /\ Captured(gauge)[gauge] = host
  BY FactorsAssumption
     DEF DeviceInv, HostTypes, TypeOK, CachesInv, GraphsCurrent, Captured, Empty

(* What it finds are caches; away from a refresh at the fence, the numbers   *)
(* are the host's.                                                           *)
LEMMA FoundIs ==
  ASSUME DeviceInv
  PROVE  /\ CachesNow \in CachesType
         /\ CachesNow.precon = ElementsOf(precon) /\ CachesNow.tcon = tcon
         /\ CachesNow.reference = reference /\ CachesNow.vacuum = vacuum.factors
         /\ ~(pc = "fence" /\ valid /\ refreshing) => CachesNow.factors = Numbers
<1> DEFINE f == IF pc = "fence" /\ valid /\ refreshing THEN record ELSE host
<1>1. f \in Oriented \cup {Unset}
  BY DeviceAssumption DEF DeviceInv, HostTypes, TypeOK
<1>2. ElementsOf(precon) \in Accurate
  <2>1. precon \in {NoPrecon} \cup {PreconOf(s) : s \in Oriented}
    BY DEF DeviceInv, BufferTypes
  <2> QED
    BY <2>1, ElementsIs DEF Accurate
<1>3. /\ tcon \in Accurate /\ reference \in References
      /\ vacuum.factors \in States \cup {None}
  BY DEF DeviceInv, BufferTypes
<1>4. CachesNow = [precon |-> ElementsOf(precon), tcon |-> tcon,
                   reference |-> reference, vacuum |-> vacuum.factors,
                   factors |-> IF f = Unset THEN None ELSE f]
  BY DEF CachesNow
<1>5. ~(pc = "fence" /\ valid /\ refreshing) => f = host
  OBVIOUS
<1> HIDE DEF f
<1>6. (IF f = Unset THEN None ELSE f) \in Accurate
  BY <1>1 DEF Accurate
<1> QED
  BY <1>2, <1>3, <1>4, <1>5, <1>6 DEF CachesType, Numbers

LEMMA LaunchStep ==
  ASSUME DeviceInv, NEW gauge \in Shapes, Launch(gauge)
  PROVE  DeviceInv'
<1> USE DEF DeviceInv
<1>1. /\ pc = "top" /\ kernel = "idle" /\ kernel' = "inverse"
      /\ control' = Cleared /\ newton' = NoNewton /\ entry' = <<Found>>
      /\ UNCHANGED <<host, age, pc, state, transform, geometry, field, forces, gcon,
                     residual, precon, tcon, reference, vacuum, fresh, answer>>
      /\ UNCHANGED pass
  BY DEF Launch, buffers, deviceCaches
<1>2. Outside("inverse") /\ "inverse" \in InFlight /\ "idle" \notin InFlight
  BY OutsideIs DEF Between
<1>3. ~Correcting' /\ newton'.phase = "none"
  BY <1>1 DEF NoNewton, Correcting
<1>4. /\ coupling' \in {"fixed", "off", "initializing", "initialized", "active"}
      /\ coupling' = "fixed" <=> coupling = "fixed"
      /\ coupling' # coupling => coupling' = "initializing" /\ coupling = "off"
  BY DEF Launch, Ramped, HostTypes
<1>5. PICK block \in IF coupling = "fixed" THEN {FALSE}
                     ELSE IF coupling' = "off" /\ fresh THEN BOOLEAN ELSE {TRUE},
           full \in FullUpdate(fresh \/ coupling' # coupling) :
        schedule' =
          [refresh |-> age = 0, gauge |-> gauge,
           reset |-> fresh /\ coupling' \notin {"initialized", "active"},
           factors |-> Launched(gauge), decay |-> coupling' \notin {"fixed", "off"},
           vacuum |-> block, full |-> block /\ full, edge |-> FALSE]
  BY DEF Launch
<1>6. block \in BOOLEAN /\ full \in BOOLEAN
      /\ (full \/ ~(fresh \/ coupling' # coupling \/ vacuum.factors = None))
  BY <1>5 DEF FullUpdate
<1>7. Launched(gauge) = host
  BY CapturedIs DEF Launched
<1>8. /\ schedule' \in ScheduleType
      /\ (schedule'.refresh <=> age = 0) /\ schedule'.gauge = gauge
      /\ schedule'.factors = host /\ ~schedule'.edge
      /\ schedule'.decay <=> coupling' \notin {"fixed", "off"}
      /\ schedule'.vacuum <=> block
      /\ schedule'.full <=> block /\ full
  <2>1. host \in Factors
    BY DEF HostTypes, TypeOK
  <2> QED
    BY <1>5, <1>6, <1>7, <2>1 DEF ScheduleType
<1>9. /\ refreshGraphs' = (IF coupling = "fixed" /\ age = 0
                           THEN refreshGraphs \cup {gauge} ELSE refreshGraphs)
      /\ normGraphs' = (IF coupling = "fixed" /\ age # 0
                        THEN Captured(gauge) ELSE normGraphs)
  BY DEF Launch, graphs
<1>10. /\ refreshGraphs' \subseteq Shapes
       /\ normGraphs' \in [Shapes -> Factors \cup {Empty}]
       /\ GraphsCurrent'
  <2>1. /\ refreshGraphs \subseteq Shapes
        /\ normGraphs \in [Shapes -> Factors \cup {Empty}]
        /\ \A s \in Shapes : normGraphs[s] \in {Empty, host}
    BY DEF HostTypes, TypeOK, CachesInv, GraphsCurrent
  <2>2. \A s \in Shapes : normGraphs'[s] \in {Empty, host}
    BY <1>9, <2>1, CapturedIs
  <2> QED
    BY <1>1, <1>9, <2>1, <2>2, CapturedIs DEF GraphsCurrent, Empty
<1>11. HostTypes'
  BY <1>1, <1>2, <1>3, <1>4, <1>8, <1>10 DEF HostTypes, TypeOK, pass, NoNewton
<1>12. BufferTypes'
  BY <1>1 DEF BufferTypes, IsControl, Cleared
<1>13. StreamInv'
  BY <1>1, <1>2, <1>3 DEF StreamInv, InFlight
<1>14. ScheduleInv'
  <2>1. coupling = "fixed" => ~block
    BY <1>5
  <2>2. coupling' \in {"initializing", "initialized", "active"} => block
    BY <1>4, <1>5
  <2> QED
    BY <1>1, <1>2, <1>3, <1>4, <1>6, <1>8, <2>1, <2>2 DEF ScheduleInv, Outside
<1>15. ControlInv' /\ BufferInv'
  BY <1>1, <1>2 DEF ControlInv, BufferInv, Outside, Cleared
<1>16. EntryInv'
  <2>1. PICK found \in CachesType :
          /\ found = CachesNow /\ found.precon = ElementsOf(precon)
          /\ found.tcon = tcon /\ found.reference = reference
          /\ found.vacuum = vacuum.factors /\ found.factors = Numbers
    BY <1>1, FoundIs
  <2>2. CachesChanged(found)'
    BY <1>1, <1>2, <2>1 DEF CachesChanged, Outside, Faded, Numbers
  <2>3. PICK refresh \in SUBSET Shapes, norm \in [Shapes -> Factors \cup {Empty}] :
          refresh = refreshGraphs /\ norm = normGraphs
    BY DEF HostTypes, TypeOK
  <2>4. GraphsChanged(refresh, norm)'
    BY <1>1, <1>3, <1>4, <1>8, <1>9, <2>3 DEF GraphsChanged, Captured
  <2>5. entry' = <<[caches |-> found, refresh |-> refresh, norm |-> norm]>>
    BY <1>1, <2>1, <2>3 DEF Found
  <2> QED
    BY <2>2, <2>4, <2>5 DEF EntryInv
<1>17. CachesInv'
  BY <1>1, <1>10 DEF CachesInv, HasCaches
<1>18. VacuumInv'
  <2>1. /\ coupling # "initializing"
        /\ ~fresh /\ coupling \in {"initialized", "active"} =>
             vacuum.factors \in Accurate
    BY <1>1, <1>2 DEF VacuumInv
  <2>2. ASSUME schedule'.vacuum, coupling' # "off", ~schedule'.full
        PROVE  vacuum.factors \in Oriented
    <3>1. ~fresh /\ coupling' = coupling /\ vacuum.factors # None
      BY <1>6, <1>8, <2>2
    <3>2. coupling \in {"initialized", "active"}
      BY <1>5, <1>8, <2>1, <2>2, <3>1 DEF HostTypes
    <3> QED
      BY <2>1, <3>1, <3>2 DEF Accurate
  <2> QED
    BY <1>1, <1>2, <2>2 DEF VacuumInv
<1>19. FenceInv' /\ DecisionInv' /\ NewtonInv'
  BY <1>1, <1>3 DEF FenceInv, DecisionInv, NewtonInv
<1> QED
  BY <1>11, <1>12, <1>13, <1>14, <1>15, <1>16, <1>17, <1>18, <1>19

-----------------------------------------------------------------------------
(* The fence: what the stream leaves to the host.                            *)
LEMMA FenceIs ==
  ASSUME DeviceInv, kernel = "fence"
  PROVE  /\ control.valid \in BOOLEAN /\ (control.valid <=> state \in Oriented)
         /\ control.used = IF schedule.refresh THEN control.norms ELSE host
         /\ control.norms = IF Rebuilt THEN state ELSE Unset
         /\ control.verdict \in {"none", "nonfinite", "converged"}
         /\ control.verdict = "converged" /\ schedule.refresh => control.valid
         /\ control.valid /\ control.verdict # "none" => state \in Terminal
         /\ ~schedule.refresh => HasCaches /\ host \in Oriented
         /\ control.valid => /\ ResidualOfState /\ HasCaches
                             /\ Preconditioned(residual) =
                                  IF control.verdict = "none"
                                  THEN ElementsOf(precon) ELSE None
                             /\ schedule.edge => Pushed # None
<1> USE DEF DeviceInv
<1>1. /\ "fence" \in InFlight \cap PastJacobian /\ "fence" \in PastVacuum \cap PastCaches
      /\ "fence" \in PastConstraint /\ "fence" \in PastForward \cap PastPredicate
  BY DEF InFlight, PastInverse, PastJacobian, PastField, PastVacuum, PastCaches,
         PastForce, PastEdge, PastConstraint, PastForward, PastPredicate
<1>2. /\ control.valid \in BOOLEAN /\ (control.valid <=> state \in Oriented)
      /\ control.used = IF schedule.refresh THEN control.norms ELSE host
      /\ control.norms = IF Rebuilt THEN state ELSE Unset
      /\ control.verdict \in {"none", "nonfinite", "converged"}
      /\ control.verdict = "converged" /\ schedule.refresh => control.valid
      /\ control.valid /\ control.verdict # "none" => state \in Terminal
  BY <1>1 DEF ControlInv, BufferTypes
<1>3. ~schedule.refresh => HasCaches /\ host \in Oriented
  <2>1. CASE Correcting
    <3>1. pc = "fence" /\ valid /\ ~refreshing
      BY <1>1, <2>1 DEF StreamInv, FenceInv
    <3> QED
      BY <3>1 DEF CachesInv
  <2>2. CASE ~Correcting
    BY <1>1, <2>2 DEF StreamInv, ScheduleInv, CachesInv
  <2> QED
    BY <2>1, <2>2
<1>4. schedule.refresh /\ control.valid => HasCaches
  <2> SUFFICES ASSUME schedule.refresh, control.valid PROVE HasCaches
    OBVIOUS
  <2>1. Rebuilt
    BY DEF Rebuilt
  <2>2. ElementsOf(precon) = state /\ tcon = state
    BY <1>1, <2>1 DEF EntryInv, CachesChanged
  <2> QED
    BY <1>2, <2>2 DEF HasCaches
<1>5. control.valid /\ schedule.edge => Pushed # None
  <2> SUFFICES ASSUME control.valid, schedule.edge PROVE Pushed # None
    OBVIOUS
  <2>1. /\ vacuum.boundary = state /\ vacuum.currents = state
        /\ vacuum.factors \in States /\ state \in States
    BY <1>1, DeviceAssumption DEF BufferInv, HostTypes
  <2>2. vacuum \in [boundary : States, currents : States, factors : States]
    BY <2>1 DEF BufferTypes
  <2>3. Pushed = [pressure |-> vacuum, on |-> state]
    BY DEF Pushed
  <2> QED
    BY <2>1, <2>2, <2>3, NoneAssumption
<1>6. control.valid =>
        /\ ResidualOfState
        /\ Preconditioned(residual) = IF control.verdict = "none"
                                      THEN ElementsOf(precon) ELSE None
  BY <1>1 DEF BufferInv
<1> QED
  BY <1>2, <1>3, <1>4, <1>5, <1>6

LEMMA ReadStep == DeviceInv /\ ReadControl => DeviceInv'
<1> SUFFICES ASSUME DeviceInv, ReadControl PROVE DeviceInv'
  OBVIOUS
<1> USE DEF DeviceInv
<1>1. /\ kernel = "fence" /\ kernel' = "idle" /\ newton.phase = "none"
      /\ pc' = "fence" /\ answer' = Answered /\ entry' = << >>
      /\ record' = control.norms /\ used' = control.used
      /\ refreshing' = schedule.refresh /\ valid' = control.valid
      /\ converged' = (control.verdict = "converged")
      /\ UNCHANGED <<host, refreshGraphs, normGraphs, age, state, transform, geometry,
                     field, forces, gcon, residual, control, precon, tcon, reference,
                     vacuum, coupling, fresh, schedule, newton>>
  BY DEF ReadControl, graphs, buffers, deviceCaches
<1>2. pc = "top" /\ ~Correcting /\ ~Correcting' /\ kernel \in InFlight
  BY <1>1 DEF StreamInv, Correcting, InFlight
<1>3. Outside("idle") /\ "idle" \notin InFlight
  BY OutsideIs DEF Between
<1>4. "fence" \in PastVacuum /\ state \in States
  BY DEF HostTypes, InFlight, PastInverse, PastJacobian, PastField, PastVacuum
<1>5. control.norms \in Factors /\ control.used \in Factors
      /\ (Rebuilt => control.norms \in Oriented)
  <2>1. host \in Factors
    BY DEF HostTypes, TypeOK
  <2>2. control.norms \in Factors /\ (Rebuilt => control.norms \in Oriented)
    BY <1>1, FenceIs, DeviceAssumption DEF Rebuilt
  <2> QED
    BY <1>1, <2>1, <2>2, FenceIs
<1>6. control.valid \in BOOLEAN /\ schedule.refresh \in BOOLEAN
  BY DEF HostTypes, ScheduleType, BufferTypes
<1>7. HostTypes'
  BY <1>1, <1>5, <1>6 DEF HostTypes, TypeOK, Between
<1>8. BufferTypes'
  BY <1>1 DEF BufferTypes
<1>9. StreamInv' /\ EntryInv'
  BY <1>1, <1>2, <1>3 DEF StreamInv, EntryInv
<1>10. ScheduleInv'
  BY <1>1, <1>2, <1>3 DEF ScheduleInv
<1>11. ControlInv' /\ BufferInv'
  BY <1>1, <1>3 DEF ControlInv, BufferInv, Outside
<1>12. CachesInv'
  <2>1. HasCaches' = HasCaches /\ GraphsCurrent' = GraphsCurrent
    BY <1>1 DEF HasCaches, GraphsCurrent
  <2> QED
    BY <1>1, <2>1, FenceIs DEF CachesInv
<1>13. VacuumInv'
  <2>1. coupling # "initializing"
    BY <1>1, <1>2, <1>4 DEF ScheduleInv
  <2>2. coupling \in {"initialized", "active"} /\ control.valid =>
          vacuum.factors \in Accurate
    BY <1>1, <1>2, <1>4 DEF ScheduleInv, BufferInv, Accurate
  <2> QED
    BY <1>1, <1>3, <2>1, <2>2 DEF VacuumInv
<1>14. ~Softened' /\ (valid' => answer' = [kind |-> "residual", residual |-> Slab,
                                           factors |-> control.used])
       /\ (~valid' => answer' = [kind |-> "refused"])
  BY <1>1 DEF Softened, Answered
<1>15. FenceInv'
  <2>1. ~schedule.refresh => host # Unset
    BY <1>1, FenceIs, DeviceAssumption
  <2> QED
    BY <1>1, <1>2, <1>5, <1>14, <2>1, FenceIs DEF FenceInv, Rebuilt
<1>16. DecisionInv'
  <2>1. control.valid => ResidualOfState'
    <3>1. control.valid => ResidualOfState
      BY <1>1, FenceIs
    <3> QED
      BY <1>1, <3>1 DEF ResidualOfState, Pushed, Constrained
  <2>2. control.valid /\ control.verdict = "none" => Preconditioned(residual) \in Oriented
    BY <1>1, FenceIs DEF HasCaches
  <2>3. control.valid /\ coupling = "initialized" => residual.edge # None
    <3>1. coupling = "initialized" => schedule.edge
      BY <1>1, <1>2, <1>4 DEF ScheduleInv
    <3> QED
      BY <1>1, <3>1, FenceIs DEF ResidualOfState
  <2>4. Slab' = Slab
    BY <1>1 DEF Slab
  <2>5. control.verdict \in {"none", "nonfinite", "converged"}
        /\ (control.valid <=> state \in Oriented)
    BY <1>1, FenceIs
  <2> QED
    BY <1>1, <1>14, <2>1, <2>2, <2>3, <2>4, <2>5 DEF DecisionInv
<1>17. NewtonInv'
  BY <1>2 DEF NewtonInv
<1> QED
  BY <1>7, <1>8, <1>9, <1>10, <1>11, <1>12, <1>13, <1>15, <1>16, <1>17

-----------------------------------------------------------------------------
(* The host decides.  When it is back at the top of the loop, all that is    *)
(* left of a pass is in the caches.                                          *)
LEMMA TopIs ==
  ASSUME DeviceInv, kernel = "idle", ~Correcting, pc' = "top", TypeOK',
         UNCHANGED <<buffers, control, deviceCaches, schedule, kernel, newton, entry>>,
         state' \in States, fresh' \in BOOLEAN,
         \/ coupling' = coupling
         \/ coupling = "initialized" /\ coupling' = "active",
         GraphsCurrent',
         age' # 0 => HasCaches /\ host' \in Oriented,
         ~fresh' /\ coupling' \in {"initialized", "active"} =>
           vacuum.factors \in Accurate
  PROVE  DeviceInv'
<1> USE DEF DeviceInv
<1>1. UNCHANGED <<transform, geometry, field, forces, gcon, residual, control, precon,
                  tcon, reference, vacuum, schedule, kernel, newton, entry>>
  BY DEF buffers, deviceCaches
<1>2. Outside("idle") /\ "idle" \notin InFlight
  BY OutsideIs DEF Between
<1>3. ~Correcting'
  BY <1>1 DEF Correcting
<1>4. HostTypes'
  BY <1>1 DEF HostTypes
<1>5. BufferTypes'
  BY <1>1 DEF BufferTypes
<1>6. StreamInv' /\ EntryInv'
  BY <1>1, <1>2, <1>3 DEF StreamInv, EntryInv
<1>7. ScheduleInv'
  BY <1>1, <1>2, <1>3 DEF ScheduleInv
<1>8. ControlInv' /\ BufferInv'
  BY <1>1, <1>2 DEF ControlInv, BufferInv, Outside
<1>9. CachesInv'
  BY <1>1 DEF CachesInv, HasCaches
<1>10. VacuumInv'
  BY <1>1, <1>2 DEF VacuumInv
<1>11. FenceInv' /\ DecisionInv' /\ NewtonInv'
  BY <1>3 DEF FenceInv, DecisionInv, NewtonInv
<1> QED
  BY <1>4, <1>5, <1>6, <1>7, <1>8, <1>9, <1>10, <1>11

(* A pass is dropped, or its factors are adopted, as in the loop alone.      *)
LEMMA RejectIs ==
  ASSUME DeviceInv, MaintenanceReset \/ Reject
  PROVE  TypeOK' /\ GraphsCurrent' /\ age' = 0 /\ pc' = "top"
<1>1. TypeOK /\ GraphsCurrent
  BY DEF DeviceInv, HostTypes, CachesInv
<1>2. 0 \in Ages
  BY FactorsAssumption DEF Ages
<1>3. /\ UNCHANGED <<host, refreshGraphs, normGraphs, record, used, refreshing,
                     valid, converged>>
      /\ age' = 0 /\ pc' = "top"
  BY DEF MaintenanceReset, Reject, pass
<1> QED
  BY <1>1, <1>2, <1>3 DEF TypeOK, GraphsCurrent

LEMMA AcceptIs ==
  ASSUME DeviceInv, Accept
  PROVE  TypeOK' /\ GraphsCurrent' /\ pc' = "top" /\ HasCaches /\ host' \in Oriented
<1> USE DEF DeviceInv
<1>1. TypeOK /\ GraphsCurrent
  BY DEF HostTypes, CachesInv
<1>2. /\ pc = "fence" /\ valid /\ pc' = "top"
      /\ host' = IF refreshing THEN record ELSE host
      /\ normGraphs' = IF refreshing THEN NoGraphs ELSE normGraphs
      /\ age' \in {0, (age + 1) % RefreshInterval}
      /\ UNCHANGED <<refreshGraphs, record, used, refreshing, valid, converged>>
  BY DEF Accept, pass
<1>3. age' \in Ages
  BY <1>1, <1>2, AgeAdvances, FactorsAssumption DEF TypeOK, Ages
<1>4. HasCaches /\ host' \in Oriented
  BY <1>2 DEF CachesInv, FenceInv
<1>5. /\ normGraphs' \in [Shapes -> Factors \cup {Empty}]
      /\ GraphsCurrent'
  BY <1>1, <1>2 DEF TypeOK, NoGraphs, GraphsCurrent
<1>6. host' \in Factors
  BY <1>4, DeviceAssumption
<1> QED
  BY <1>1, <1>2, <1>3, <1>4, <1>5, <1>6 DEF TypeOK

LEMMA MaintainStep == DeviceInv /\ Maintain => DeviceInv'
<1> SUFFICES ASSUME DeviceInv, Maintain PROVE DeviceInv'
  OBVIOUS
<1>1. MaintenanceReset /\ kernel = "idle" /\ state' \in States /\ fresh' = TRUE
      /\ UNCHANGED <<buffers, control, deviceCaches, coupling, schedule, kernel,
                     newton, entry>>
  BY DEF Maintain, RollBack
<1>2. ~Correcting
  BY <1>1 DEF MaintenanceReset, DeviceInv, StreamInv
<1> QED
  BY <1>1, <1>2, RejectIs, TopIs

LEMMA RejectStep == DeviceInv /\ RejectGeometry => DeviceInv'
<1> SUFFICES ASSUME DeviceInv, RejectGeometry PROVE DeviceInv'
  OBVIOUS
<1>1. Reject /\ kernel = "idle" /\ state' \in States /\ fresh' = TRUE
      /\ UNCHANGED <<buffers, control, deviceCaches, coupling, schedule, kernel,
                     newton, entry>>
  BY DEF RejectGeometry, RollBack, Deciding
<1>2. ~Correcting
  BY DEF RejectGeometry, Deciding, Correcting
<1> QED
  BY <1>1, <1>2, RejectIs, TopIs

LEMMA RecoverStep == DeviceInv /\ RecoverNonfinite => DeviceInv'
<1> SUFFICES ASSUME DeviceInv, RecoverNonfinite PROVE DeviceInv'
  OBVIOUS
<1>1. Accept /\ age' = 0 /\ kernel = "idle" /\ state' \in States /\ fresh' = TRUE
      /\ UNCHANGED <<buffers, control, deviceCaches, coupling, schedule, kernel,
                     newton, entry>>
  BY DEF RecoverNonfinite, RollBack, Deciding
<1>2. ~Correcting
  BY DEF RecoverNonfinite, Deciding, Correcting
<1> QED
  BY <1>1, <1>2, AcceptIs, TopIs

LEMMA DescendStep == DeviceInv /\ Descend => DeviceInv'
<1> SUFFICES ASSUME DeviceInv, Descend PROVE DeviceInv'
  OBVIOUS
<1>1. /\ Accept /\ pc = "fence" /\ valid /\ kernel = "idle" /\ state' \in States
      /\ fresh' \in BOOLEAN
      /\ coupling' = IF coupling = "initialized" THEN "active" ELSE coupling
      /\ UNCHANGED <<buffers, control, deviceCaches, schedule, kernel, newton, entry>>
  BY DEF Descend, Deciding, Accept
<1>2. ~Correcting
  BY DEF Descend, Deciding, Correcting
<1>3. coupling' \in {"initialized", "active"} => vacuum.factors \in Accurate
  <2>1. "idle" \notin InFlight
    BY OutsideIs DEF Between
  <2> QED
    BY <1>1, <2>1 DEF DeviceInv, VacuumInv
<1> QED
  BY <1>1, <1>2, <1>3, AcceptIs, TopIs

(* A run that ends leaves everything as it is.                               *)
LEMMA StopStep == DeviceInv /\ (ThrowInvalidStart \/ Converge) => DeviceInv'
<1> SUFFICES ASSUME DeviceInv, ThrowInvalidStart \/ Converge PROVE DeviceInv'
  OBVIOUS
<1> USE DEF DeviceInv
<1>1. /\ kernel = "idle" /\ kernel' = "stopped" /\ newton.phase \in {"none", "done"}
      /\ UNCHANGED <<host, refreshGraphs, normGraphs, record, used, refreshing,
                     valid, converged, age, pc, state, transform, geometry, field,
                     forces, gcon, residual, control, precon, tcon, reference, vacuum,
                     coupling, fresh, schedule, newton, answer, entry>>
  BY DEF ThrowInvalidStart, Converge, Deciding, vars, pass, buffers, deviceCaches
<1>2. Outside("stopped") /\ "stopped" \notin InFlight /\ "idle" \notin InFlight
  BY OutsideIs DEF Between
<1>3. ~Correcting /\ ~Correcting'
  BY <1>1 DEF Correcting
<1>4. HostTypes'
  BY <1>1 DEF HostTypes, TypeOK, Between
<1>5. BufferTypes'
  BY <1>1 DEF BufferTypes
<1>6. StreamInv' /\ EntryInv'
  BY <1>1, <1>2, <1>3 DEF StreamInv, EntryInv
<1>7. ScheduleInv'
  BY <1>1, <1>2, <1>3 DEF ScheduleInv
<1>8. ControlInv' /\ BufferInv'
  BY <1>1, <1>2 DEF ControlInv, BufferInv, Outside
<1>9. CachesInv'
  BY <1>1 DEF CachesInv, HasCaches, GraphsCurrent
<1>10. VacuumInv'
  BY <1>1, <1>2 DEF VacuumInv
<1>11. FenceInv'
  BY <1>1, <1>3 DEF FenceInv, Softened
<1>12. DecisionInv' /\ NewtonInv'
  BY <1>1, <1>3 DEF DecisionInv, NewtonInv
<1> QED
  BY <1>4, <1>5, <1>6, <1>7, <1>8, <1>9, <1>10, <1>11, <1>12

LEMMA SoftStep == DeviceInv /\ SoftRestart => DeviceInv'
<1> SUFFICES ASSUME DeviceInv, SoftRestart PROVE DeviceInv'
  OBVIOUS
<1> USE DEF DeviceInv
<1>1. /\ pc = "fence" /\ kernel = "idle" /\ newton.phase \in {"none", "done"} /\ valid
      /\ coupling = "initialized"
      /\ state' \in States /\ age' = 0 /\ fresh' = TRUE
      /\ answer' = [kind |-> "soft", residual |-> Slab]
      /\ UNCHANGED <<host, refreshGraphs, normGraphs, record, used, refreshing,
                     valid, converged, pc, transform, geometry, field, forces, gcon,
                     residual, control, precon, tcon, reference, vacuum, coupling,
                     schedule, kernel, newton, entry>>
  BY DEF SoftRestart, SoftDue, Deciding, graphs, pass, buffers, deviceCaches
<1>2. Outside("idle") /\ "idle" \notin InFlight
  BY OutsideIs DEF Between
<1>3. ~Correcting /\ ~Correcting'
  BY <1>1 DEF Correcting
<1>4. HostTypes'
  <2>1. 0 \in Ages
    BY FactorsAssumption DEF Ages
  <2> QED
    BY <1>1, <2>1 DEF HostTypes, TypeOK
<1>5. BufferTypes'
  BY <1>1 DEF BufferTypes
<1>6. StreamInv' /\ EntryInv'
  BY <1>1, <1>2, <1>3 DEF StreamInv, EntryInv
<1>7. ScheduleInv'
  BY <1>1, <1>2, <1>3 DEF ScheduleInv
<1>8. ControlInv' /\ BufferInv'
  BY <1>1, <1>2 DEF ControlInv, BufferInv, Outside
<1>9. CachesInv'
  BY <1>1 DEF CachesInv, HasCaches, GraphsCurrent
<1>10. VacuumInv'
  BY <1>1, <1>2 DEF VacuumInv
<1>11. FenceInv'
  BY <1>1, <1>3 DEF FenceInv
<1>12. DecisionInv'
  <2>1. Slab' = Slab /\ Softened'
    BY <1>1 DEF Slab, Softened
  <2> QED
    BY <1>1, <2>1 DEF DecisionInv
<1>13. NewtonInv'
  BY <1>3 DEF NewtonInv
<1> QED
  BY <1>4, <1>5, <1>6, <1>7, <1>8, <1>9, <1>10, <1>11, <1>12, <1>13

-----------------------------------------------------------------------------
(* A Newton step.                                                            *)
LEMMA PrepareStep == DeviceInv /\ Prepare => DeviceInv'
<1> SUFFICES ASSUME DeviceInv, Prepare PROVE DeviceInv'
  OBVIOUS
<1> USE DEF DeviceInv
<1>1. /\ coupling = "fixed" /\ pc = "fence" /\ kernel = "idle" /\ newton.phase = "none"
      /\ valid /\ ~schedule.refresh /\ ~schedule.reset /\ schedule.gauge = "fixed"
      /\ control.verdict = "none"
      /\ newton' = [phase |-> "solve", base |-> state, before |-> answer,
                    probes |-> 0, breakdown |-> FALSE]
      /\ schedule' = Frozen(schedule)
      /\ UNCHANGED <<host, refreshGraphs, normGraphs, record, used, refreshing,
                     valid, converged, age, pc, state, transform, geometry, field,
                     forces, gcon, residual, control, precon, tcon, reference, vacuum,
                     coupling, fresh, kernel, answer, entry>>
  BY DEF Prepare, Deciding, NoNewton, vars, pass, buffers, deviceCaches
<1>2. Outside("idle") /\ "idle" \notin InFlight
  BY OutsideIs DEF Between
<1>3. Correcting' /\ newton'.phase = "solve"
  BY <1>1 DEF Correcting
<1>4. /\ schedule' \in ScheduleType
      /\ ~schedule'.refresh /\ ~schedule'.reset /\ ~schedule'.decay
      /\ schedule'.gauge = "fixed" /\ schedule'.factors = host
      /\ schedule'.vacuum = schedule.vacuum /\ schedule'.full = schedule.full
      /\ schedule'.edge = schedule.edge
  <2> DEFINE a == [schedule EXCEPT !.refresh = FALSE]
             b == [a EXCEPT !.reset = FALSE]
             c == [b EXCEPT !.decay = FALSE]
  <2>1. schedule \in ScheduleType /\ host \in Factors
    BY DEF HostTypes, TypeOK
  <2>2. schedule' = [c EXCEPT !.factors = host]
    BY <1>1 DEF Frozen
  <2>3. /\ a \in ScheduleType /\ ~a.refresh /\ a.reset = schedule.reset
        /\ a.gauge = schedule.gauge /\ a.vacuum = schedule.vacuum
        /\ a.full = schedule.full /\ a.edge = schedule.edge
    BY <2>1 DEF ScheduleType
  <2> HIDE DEF a
  <2>4. /\ b \in ScheduleType /\ ~b.refresh /\ ~b.reset
        /\ b.gauge = a.gauge /\ b.vacuum = a.vacuum
        /\ b.full = a.full /\ b.edge = a.edge
    BY <2>3 DEF ScheduleType
  <2> HIDE DEF b
  <2>5. /\ c \in ScheduleType /\ ~c.refresh /\ ~c.reset /\ ~c.decay
        /\ c.gauge = b.gauge /\ c.vacuum = b.vacuum
        /\ c.full = b.full /\ c.edge = b.edge
    BY <2>4 DEF ScheduleType
  <2> HIDE DEF c
  <2>6. /\ schedule' \in ScheduleType /\ ~schedule'.refresh /\ ~schedule'.reset
        /\ ~schedule'.decay /\ schedule'.factors = host
        /\ schedule'.gauge = c.gauge /\ schedule'.vacuum = c.vacuum
        /\ schedule'.full = c.full /\ schedule'.edge = c.edge
    BY <2>1, <2>2, <2>5 DEF ScheduleType
  <2> QED
    BY <1>1, <2>3, <2>4, <2>5, <2>6
<1>5. ~Softened /\ ~refreshing /\ used = host /\ ~converged /\ control.used = used
      /\ ResidualOfState /\ state \in Oriented
      /\ answer = [kind |-> "residual", residual |-> Slab, factors |-> control.used]
  BY <1>1 DEF FenceInv, DecisionInv, Softened
<1>6. HostTypes'
  BY <1>1, <1>4 DEF HostTypes, TypeOK
<1>7. BufferTypes'
  BY <1>1 DEF BufferTypes
<1>8. StreamInv' /\ EntryInv'
  BY <1>1, <1>2, <1>3 DEF StreamInv, EntryInv
<1>9. ScheduleInv'
  BY <1>1, <1>2, <1>3, <1>4 DEF ScheduleInv
<1>10. ControlInv' /\ BufferInv'
  BY <1>1, <1>2 DEF ControlInv, BufferInv, Outside
<1>11. CachesInv'
  BY <1>1 DEF CachesInv, HasCaches, GraphsCurrent
<1>12. VacuumInv'
  BY <1>1, <1>2 DEF VacuumInv
<1>13. FenceInv'
  <2>1. refreshing \in BOOLEAN /\ schedule'.refresh \in BOOLEAN
    BY <1>4 DEF HostTypes, TypeOK, ScheduleType
  <2>2. schedule'.refresh = refreshing
    BY <1>4, <1>5, <2>1
  <2>3. host # Unset
    BY <1>1, <1>5 DEF FenceInv
  <2>4. ~Softened'
    BY <1>1, <1>5 DEF Softened
  <2> QED
    BY <1>1, <1>5, <2>2, <2>3, <2>4 DEF FenceInv
<1>14. DecisionInv'
  BY <1>1, <1>3 DEF DecisionInv
<1>15. NewtonInv'
  <2>1. Pushed = None
    BY <1>1 DEF ScheduleInv, Pushed
  <2>2. BeforeIs(Preconditioned(residual))'
    BY <1>1, <1>5, <2>1 DEF BeforeIs, ResidualOfState, Constrained, Slab
  <2>3. newton'.base \in Oriented /\ newton'.probes \in Nat
    BY <1>1, <1>5
  <2>4. (\E p : BeforeIs(p))'
    BY <2>2
  <2>5. kernel' = "idle"
    BY <1>1
  <2> QED
    BY <1>2, <2>3, <2>4, <2>5 DEF NewtonInv
<1> QED
  BY <1>6, <1>7, <1>8, <1>9, <1>10, <1>11, <1>12, <1>13, <1>14, <1>15

(* An evaluation of a Newton step begins: what it finds are the caches of    *)
(* the pass it corrects.                                                     *)
LEMMA EvaluatesStep ==
  ASSUME DeviceInv, Correcting, kernel \notin InFlight, NEW s \in States,
         NEW phase \in {"solve", "trial", "restore"},
         phase = "restore" => s = newton.base, Evaluates(s, phase)
  PROVE  DeviceInv'
<1> USE DEF DeviceInv
<1>1. /\ state' = s /\ answer' = [kind |-> "unknown"] /\ control' = Cleared
      /\ kernel' = "inverse" /\ entry' = <<Found>>
      /\ UNCHANGED <<host, refreshGraphs, normGraphs, record, used, refreshing,
                     valid, converged, age, pc, transform, geometry, field,
                     forces, gcon, residual, precon, tcon, reference, vacuum,
                     coupling, fresh, schedule>>
  BY DEF Evaluates, Unknown, vars, pass, buffers, deviceCaches
<1>2. Outside("inverse") /\ "inverse" \in InFlight
  BY OutsideIs
<1>3. /\ pc = "fence" /\ valid /\ ~refreshing /\ coupling = "fixed"
      /\ ~schedule.refresh /\ ~schedule.vacuum /\ ~schedule.edge /\ ~schedule.decay
      /\ ~schedule.full /\ schedule.factors = host
  BY DEF StreamInv, FenceInv, ScheduleInv
<1>4. /\ newton' = [phase |-> phase, base |-> newton.base, before |-> newton.before,
                    probes |-> IF phase = "solve" THEN newton.probes + 1
                               ELSE newton.probes,
                    breakdown |-> newton.breakdown]
      /\ Correcting'
  <2> DEFINE a == [newton EXCEPT !.phase = phase]
  <2>1. a = [phase |-> phase, base |-> newton.base, before |-> newton.before,
             probes |-> newton.probes, breakdown |-> newton.breakdown]
    BY DEF HostTypes
  <2>2. newton' = [a EXCEPT !.probes = IF phase = "solve" THEN @ + 1 ELSE @]
    BY DEF Evaluates
  <2> HIDE DEF a
  <2>3. newton' = [phase |-> phase, base |-> newton.base, before |-> newton.before,
                   probes |-> IF phase = "solve" THEN newton.probes + 1
                              ELSE newton.probes,
                   breakdown |-> newton.breakdown]
    BY <2>1, <2>2
  <2> QED
    BY <2>3 DEF Correcting
<1>5. newton'.phase \in {"solve", "trial", "restore"}
  BY <1>4
<1>6. HostTypes'
  BY <1>1, <1>2, <1>4 DEF HostTypes, TypeOK
<1>7. BufferTypes'
  BY <1>1 DEF BufferTypes, IsControl, Cleared
<1>8. StreamInv'
  BY <1>1, <1>2, <1>3, <1>4 DEF StreamInv, InFlight
<1>9. ScheduleInv'
  BY <1>1, <1>2, <1>3, <1>4 DEF ScheduleInv, Outside
<1>10. ControlInv' /\ BufferInv'
  BY <1>1, <1>2 DEF ControlInv, BufferInv, Outside, Cleared
<1>11. EntryInv'
  <2>1. PICK found \in CachesType :
          /\ found = CachesNow /\ found.precon = ElementsOf(precon)
          /\ found.tcon = tcon /\ found.reference = reference
          /\ found.vacuum = vacuum.factors /\ found.factors = Numbers
    BY <1>3, FoundIs
  <2>2. CachesChanged(found)'
    BY <1>1, <1>2, <2>1 DEF CachesChanged, Outside, Faded, Numbers
  <2>3. PICK refresh \in SUBSET Shapes, norm \in [Shapes -> Factors \cup {Empty}] :
          refresh = refreshGraphs /\ norm = normGraphs
    BY DEF HostTypes, TypeOK
  <2>4. GraphsChanged(refresh, norm)'
    BY <1>1, <1>3, <1>4, <2>3 DEF GraphsChanged
  <2>5. entry' = <<[caches |-> found, refresh |-> refresh, norm |-> norm]>>
    BY <1>1, <2>1, <2>3 DEF Found
  <2> QED
    BY <2>2, <2>4, <2>5 DEF EntryInv
<1>12. CachesInv'
  BY <1>1 DEF CachesInv, HasCaches, GraphsCurrent
<1>13. VacuumInv'
  BY <1>1, <1>2, <1>3 DEF VacuumInv
<1>14. FenceInv'
  <2>1. ~Softened'
    BY <1>1 DEF Softened
  <2> QED
    BY <1>1, <1>3, <2>1 DEF FenceInv
<1>15. DecisionInv'
  BY <1>1 DEF DecisionInv
<1>16. NewtonInv'
  <2>1. \A p : BeforeIs(p) => BeforeIs(p)'
    BY <1>1, <1>4 DEF BeforeIs
  <2>2. newton'.base = newton.base /\ newton'.probes \in Nat
    BY <1>4 DEF NewtonInv
  <2>3. newton'.phase = "restore" => state' = newton'.base
    BY <1>1, <1>4
  <2>4. (\E p : BeforeIs(p))'
    BY <2>1 DEF NewtonInv
  <2>5. newton'.base \in Oriented
    BY <2>2 DEF NewtonInv
  <2> QED
    BY <1>1, <2>2, <2>3, <2>4, <2>5 DEF NewtonInv
<1> QED
  BY <1>6, <1>7, <1>8, <1>9, <1>10, <1>11, <1>12, <1>13, <1>14, <1>15, <1>16

LEMMA ProbeStep == DeviceInv /\ (Probe \/ Trial \/ Restore) => DeviceInv'
<1> SUFFICES ASSUME DeviceInv, Probe \/ Trial \/ Restore PROVE DeviceInv'
  OBVIOUS
<1>1. "idle" \notin InFlight /\ "judged" \notin InFlight
  BY OutsideIs DEF Between
<1>2. CASE Probe
  <2>1. Correcting /\ kernel \notin InFlight
    BY <1>1, <1>2 DEF Probe, Correcting
  <2> QED
    BY <1>2, <2>1, EvaluatesStep DEF Probe
<1>3. CASE Trial
  <2>1. Correcting /\ kernel \notin InFlight
    BY <1>1, <1>3 DEF Trial, Correcting
  <2> QED
    BY <1>3, <2>1, EvaluatesStep DEF Trial
<1>4. CASE Restore
  <2>1. Correcting /\ kernel \notin InFlight
    BY <1>1, <1>4 DEF Restore, Correcting, DeviceInv, StreamInv
  <2>2. newton.base \in States
    BY <2>1, DeviceAssumption DEF DeviceInv, NewtonInv
  <2> QED
    BY <1>4, <2>1, <2>2, EvaluatesStep DEF Restore
<1> QED
  BY <1>2, <1>3, <1>4

(* The host looks at what an evaluation of the step has left.                *)
JudgedIs ==
  /\ answer = Answered
  /\ (control.valid <=> state \in Oriented)
  /\ control.verdict \in {"none", "nonfinite", "converged"}
  /\ control.used = host
  /\ control.valid => ResidualOfState
  /\ control.valid /\ control.verdict = "none" => Preconditioned(residual) \in Oriented

LEMMA LookStep ==
  ASSUME DeviceInv, Correcting,
         UNCHANGED <<vars, buffers, control, deviceCaches, coupling, fresh, schedule>>,
         state' \in States, entry' = << >>, ~Softened',
         newton' = [newton EXCEPT !.breakdown = newton'.breakdown],
         \/ kernel' = "probed" /\ newton.phase = "solve"
         \/ kernel' = "idle" /\ newton.phase = "solve"
         \/ kernel' = "judged" /\ newton.phase = "trial" /\ JudgedIs'
  PROVE  DeviceInv'
<1> USE DEF DeviceInv
<1>1. UNCHANGED <<host, refreshGraphs, normGraphs, record, used, refreshing,
                  valid, converged, age, pc, transform, geometry, field,
                  forces, gcon, residual, control, precon, tcon, reference, vacuum,
                  coupling, fresh, schedule>>
  BY DEF vars, pass, buffers, deviceCaches
<1>2. kernel' \in Between /\ Outside(kernel') /\ kernel' \notin InFlight
  BY OutsideIs DEF Between
<1>3. /\ pc = "fence" /\ valid /\ ~refreshing /\ coupling = "fixed"
      /\ ~schedule.vacuum /\ ~schedule.edge
  BY DEF StreamInv, FenceInv, ScheduleInv
<1>4. newton' = [phase |-> newton.phase, base |-> newton.base,
                 before |-> newton.before, probes |-> newton.probes,
                 breakdown |-> newton'.breakdown]
  <2> DEFINE b == newton'.breakdown
  <2>1. newton' = [newton EXCEPT !.breakdown = b]
    OBVIOUS
  <2> HIDE DEF b
  <2>2. newton' = [phase |-> newton.phase, base |-> newton.base,
                   before |-> newton.before, probes |-> newton.probes,
                   breakdown |-> b]
    BY <2>1 DEF HostTypes
  <2> QED
    BY <2>2
<1>5. /\ newton'.phase = newton.phase /\ newton'.base = newton.base
      /\ newton'.before = newton.before /\ newton'.probes = newton.probes
  BY <1>4
<1>6. Correcting'
  BY <1>5 DEF Correcting
<1>7. HostTypes'
  BY <1>1, <1>2, <1>4, <1>5 DEF HostTypes, TypeOK
<1>8. BufferTypes'
  BY <1>1 DEF BufferTypes
<1>9. StreamInv' /\ EntryInv'
  BY <1>1, <1>2, <1>3, <1>5, <1>6 DEF StreamInv, EntryInv
<1>10. ScheduleInv'
  BY <1>1, <1>2, <1>6 DEF ScheduleInv, Correcting, Outside, InFlight
<1>11. ControlInv' /\ BufferInv'
  <2>1. kernel' # "predicate" /\ kernel' # "precondition" /\ kernel' # "edge"
        /\ kernel' # "constraint" /\ kernel' # "forward" /\ kernel' # "fence"
    BY <1>2 DEF InFlight
  <2> QED
    BY <1>1, <1>2, <2>1 DEF ControlInv, BufferInv, Outside
<1>12. CachesInv'
  BY <1>1 DEF CachesInv, HasCaches, GraphsCurrent
<1>13. VacuumInv'
  BY <1>1, <1>2, <1>3 DEF VacuumInv
<1>14. FenceInv'
  BY <1>1, <1>3, <1>6 DEF FenceInv, Correcting
<1>15. DecisionInv'
  <2>1. newton'.phase \notin {"none", "done"} \/ kernel' # "idle"
    BY <1>5
  <2> QED
    BY <2>1 DEF DecisionInv
<1>16. NewtonInv'
  <2>1. (\E p : BeforeIs(p))'
    BY <1>1, <1>5 DEF NewtonInv, BeforeIs
  <2>2. newton'.base \in Oriented /\ newton'.probes \in Nat
    BY <1>5 DEF NewtonInv
  <2>3. kernel' = "judged" => JudgedIs'
    OBVIOUS
  <2> QED
    BY <1>2, <2>1, <2>2, <2>3 DEF NewtonInv, JudgedIs
<1> QED
  BY <1>7, <1>8, <1>9, <1>10, <1>11, <1>12, <1>13, <1>14, <1>15, <1>16

(* What a correction finds at its fence.                                     *)
LEMMA CorrectedIs ==
  ASSUME DeviceInv, Correcting, kernel = "fence"
  PROVE  /\ control.valid <=> state \in Oriented
         /\ control.verdict \in {"none", "nonfinite", "converged"}
         /\ control.used = host
         /\ control.valid => ResidualOfState
         /\ control.valid /\ control.verdict = "none" =>
              Preconditioned(residual) \in Oriented
<1>1. ~schedule.refresh
  BY DEF DeviceInv, ScheduleInv
<1> QED
  BY <1>1, FenceIs DEF HasCaches

LEMMA CheckStep == DeviceInv /\ (CheckProbe \/ ReturnToBase) => DeviceInv'
<1> SUFFICES ASSUME DeviceInv, CheckProbe \/ ReturnToBase PROVE DeviceInv'
  OBVIOUS
<1>1. CASE CheckProbe
  <2>1. /\ newton.phase = "solve" /\ kernel' = "probed" /\ entry' = << >>
        /\ answer' = Answered /\ state' = state
        /\ UNCHANGED <<vars, buffers, control, deviceCaches, coupling, fresh, schedule>>
    BY <1>1 DEF CheckProbe
  <2>2. PICK b : newton' = [newton EXCEPT !.breakdown = b]
    BY <1>1 DEF CheckProbe
  <2>3. newton' = [newton EXCEPT !.breakdown = newton'.breakdown]
    BY <2>2 DEF DeviceInv, HostTypes
  <2>4. ~Softened'
    BY <2>1 DEF Softened, Answered
  <2>5. Correcting /\ state' \in States
    BY <2>1 DEF Correcting, DeviceInv, HostTypes
  <2> QED
    BY <2>1, <2>3, <2>4, <2>5, LookStep
<1>2. CASE ReturnToBase
  <2>1. /\ kernel = "probed" /\ kernel' = "idle" /\ state' = newton.base
        /\ answer' = [kind |-> "unknown"]
        /\ UNCHANGED <<vars, buffers, control, deviceCaches, coupling, fresh, schedule,
                       newton, entry>>
    BY <1>2 DEF ReturnToBase, Unknown
  <2>2. "probed" \notin InFlight
    BY OutsideIs DEF Between
  <2>3. newton.phase = "solve" /\ Correcting /\ entry = << >>
    BY <2>1, <2>2 DEF DeviceInv, StreamInv, Correcting
  <2>4. state' \in States
    BY <2>1, <2>3, DeviceAssumption DEF DeviceInv, NewtonInv
  <2>5. newton' = [newton EXCEPT !.breakdown = newton'.breakdown]
    BY <2>1 DEF DeviceInv, HostTypes
  <2>6. ~Softened'
    BY <2>1 DEF Softened
  <2> QED
    BY <2>1, <2>3, <2>4, <2>5, <2>6, LookStep
<1> QED
  BY <1>1, <1>2

LEMMA JudgeStep == DeviceInv /\ JudgeTrial => DeviceInv'
<1> SUFFICES ASSUME DeviceInv, JudgeTrial PROVE DeviceInv'
  OBVIOUS
<1>1. /\ newton.phase = "trial" /\ kernel = "fence" /\ kernel' = "judged"
      /\ entry' = << >> /\ answer' = Answered
      /\ UNCHANGED <<vars, state, buffers, control, deviceCaches, coupling, fresh,
                     schedule, newton>>
  BY DEF JudgeTrial
<1>2. Correcting /\ state' \in States
  BY <1>1 DEF Correcting, DeviceInv, HostTypes
<1>3. UNCHANGED <<host, refreshing, state, residual, control, tcon, reference, vacuum,
                  schedule>>
  BY <1>1 DEF vars, pass, buffers, deviceCaches
<1>4. JudgedIs'
  <2>1. Answered' = Answered
    BY <1>3 DEF Answered, Slab
  <2>2. ResidualOfState' = ResidualOfState
    BY <1>3 DEF ResidualOfState, Pushed, Constrained
  <2> QED
    BY <1>1, <1>2, <1>3, <2>1, <2>2, CorrectedIs DEF JudgedIs
<1>5. newton' = [newton EXCEPT !.breakdown = newton'.breakdown]
  BY <1>1 DEF DeviceInv, HostTypes
<1>6. ~Softened'
  BY <1>1 DEF Softened, Answered
<1> QED
  BY <1>1, <1>2, <1>4, <1>5, <1>6, LookStep

(* The record of a correction is the last one read, and decides the pass.    *)
LEMMA AdoptStep ==
  ASSUME DeviceInv, Correcting, Adopt, control.valid, state \in Oriented,
         control.used = host, control.verdict \in {"none", "nonfinite", "converged"},
         ResidualOfState,
         control.verdict = "none" => Preconditioned(residual) \in Oriented,
         answer' = Answered, entry' = << >>
  PROVE  DeviceInv'
<1> USE DEF DeviceInv
<1>1. /\ used' = host /\ (converged' <=> control.verdict = "converged")
      /\ converged' \in BOOLEAN /\ kernel' = "idle"
      /\ newton' = [phase |-> "done", base |-> None, before |-> None,
                    probes |-> 0, breakdown |-> FALSE]
      /\ UNCHANGED <<host, refreshGraphs, normGraphs, record, refreshing, valid, age,
                     pc, state, transform, geometry, field, forces, gcon, residual,
                     control, precon, tcon, reference, vacuum, coupling, fresh,
                     schedule>>
  BY DEF Adopt, NoNewton, graphs, buffers, deviceCaches
<1>2. Outside("idle") /\ "idle" \notin InFlight
  BY OutsideIs DEF Between
<1>3. /\ pc = "fence" /\ valid /\ ~refreshing /\ coupling = "fixed"
      /\ ~schedule.vacuum /\ ~schedule.edge
  BY DEF StreamInv, FenceInv, ScheduleInv
<1>4. ~Correcting' /\ newton'.phase = "done"
  BY <1>1 DEF Correcting
<1>5. answer' = [kind |-> "residual", residual |-> Slab, factors |-> control.used]
      /\ ~Softened'
  BY DEF Answered, Softened
<1>6. HostTypes'
  <2>1. host \in Factors
    BY DEF HostTypes, TypeOK
  <2> QED
    BY <1>1, <2>1 DEF HostTypes, TypeOK, Between
<1>7. BufferTypes'
  BY <1>1 DEF BufferTypes
<1>8. StreamInv' /\ EntryInv'
  BY <1>1, <1>2, <1>4 DEF StreamInv, EntryInv
<1>9. ScheduleInv'
  BY <1>1, <1>2, <1>4 DEF ScheduleInv
<1>10. ControlInv' /\ BufferInv'
  BY <1>1, <1>2 DEF ControlInv, BufferInv, Outside
<1>11. CachesInv'
  BY <1>1 DEF CachesInv, HasCaches, GraphsCurrent
<1>12. VacuumInv'
  BY <1>1, <1>2, <1>3 DEF VacuumInv
<1>13. FenceInv'
  BY <1>1, <1>3, <1>4, <1>5 DEF FenceInv
<1>14. DecisionInv'
  <2>1. Slab' = Slab /\ ResidualOfState'
    BY <1>1 DEF Slab, ResidualOfState, Pushed, Constrained
  <2>2. control.valid = valid
    BY <1>3 DEF HostTypes, TypeOK, BufferTypes
  <2> QED
    BY <1>1, <1>3, <1>5, <2>1, <2>2 DEF DecisionInv
<1>15. NewtonInv'
  BY <1>4 DEF NewtonInv
<1> QED
  BY <1>6, <1>7, <1>8, <1>9, <1>10, <1>11, <1>12, <1>13, <1>14, <1>15

LEMMA AcceptTrialStep == DeviceInv /\ AcceptTrial => DeviceInv'
<1> SUFFICES ASSUME DeviceInv, AcceptTrial PROVE DeviceInv'
  OBVIOUS
<1>1. kernel = "judged" /\ control.valid /\ Adopt /\ UNCHANGED <<answer, entry>>
  BY DEF AcceptTrial
<1>2. Correcting
  BY <1>1 DEF DeviceInv, StreamInv, Correcting
<1>3. JudgedIs
  BY <1>1, <1>2 DEF DeviceInv, NewtonInv, JudgedIs
<1>4. entry' = << >>
  <2>1. "judged" \notin InFlight
    BY OutsideIs DEF Between
  <2> QED
    BY <1>1, <2>1 DEF DeviceInv, StreamInv
<1> QED
  BY <1>1, <1>2, <1>3, <1>4, AdoptStep DEF JudgedIs

(* A step that is given up restores the residual it started from: the code   *)
(* never has to raise its exception.                                         *)
LEMMA RestoredIs ==
  ASSUME DeviceInv, newton.phase = "restore", kernel = "fence"
  PROVE  Scaled(Answered) = Scaled(newton.before) /\ control.valid
<1>1. Correcting
  BY DEF Correcting
<1>2. PICK p : BeforeIs(p)
  BY <1>1 DEF DeviceInv, NewtonInv
<1>3. state = newton.base /\ state \in Oriented
  BY <1>1 DEF DeviceInv, NewtonInv, InFlight
<1>4. control.valid /\ control.used = host /\ ResidualOfState
  BY <1>1, <1>3, CorrectedIs
<1>5. schedule.gauge = "fixed" /\ Pushed = None
  BY <1>1 DEF DeviceInv, ScheduleInv, Pushed
<1> DEFINE R(q) == [mhd |-> newton.base, edge |-> None,
                    constraint |-> ConstraintOf(newton.base, reference, tcon),
                    odd |-> "scaled", gauge |-> "fixed", precon |-> q]
<1>6. Slab = R(Preconditioned(residual))
  BY <1>3, <1>4, <1>5 DEF Slab, ResidualOfState, Constrained
<1>7. \A q : [R(q) EXCEPT !.precon = None] = R(None)
  OBVIOUS
<1>8. newton.before = [kind |-> "residual", factors |-> host, residual |-> R(p)]
  BY <1>2 DEF BeforeIs
<1>9. Answered = [kind |-> "residual", residual |-> R(Preconditioned(residual)),
                  factors |-> host]
  BY <1>4, <1>6 DEF Answered
<1> HIDE DEF R
<1>10. Scaled(newton.before) = <<R(None), host>>
  BY <1>7, <1>8 DEF Scaled
<1>11. Scaled(Answered) = <<R(None), host>>
  BY <1>7, <1>9 DEF Scaled
<1> QED
  BY <1>4, <1>10, <1>11

LEMMA RestoreStep == DeviceInv /\ JudgeRestore => DeviceInv'
<1> SUFFICES ASSUME DeviceInv, JudgeRestore PROVE DeviceInv'
  OBVIOUS
<1>1. newton.phase = "restore" /\ kernel = "fence" /\ answer' = Answered
      /\ entry' = << >>
  BY DEF JudgeRestore
<1>2. Correcting
  BY <1>1 DEF Correcting
<1>3. Adopt
  BY <1>1, RestoredIs DEF JudgeRestore
<1> QED
  BY <1>1, <1>2, <1>3, RestoredIs, CorrectedIs, AdoptStep

-----------------------------------------------------------------------------
LEMMA DeviceStarts == DeviceInit => DeviceInv
<1> SUFFICES ASSUME DeviceInit PROVE DeviceInv
  OBVIOUS
<1>1. /\ kernel = "idle" /\ pc = "top" /\ age = 0 /\ entry = << >>
      /\ newton = NoNewton /\ newton.phase = "none" /\ control = Cleared
      /\ schedule = Direct /\ host = Unset /\ normGraphs = NoGraphs /\ fresh = TRUE
  BY DEF DeviceInit, Init, NoNewton
<1>2. Outside("idle") /\ "idle" \notin InFlight
  BY OutsideIs DEF Between
<1>3. ~Correcting
  BY <1>1 DEF Correcting
<1>4. HostTypes
  <2>1. 0 \in Ages
    BY FactorsAssumption DEF Ages
  <2>2. NoGraphs \in [Shapes -> Factors \cup {Empty}]
    BY DEF NoGraphs
  <2>3. TypeOK
    BY <2>1, <2>2, FactorsAssumption DEF DeviceInit, Init, TypeOK
  <2>4. schedule \in ScheduleType
    BY <1>1, FactorsAssumption, DeviceAssumption DEF Direct, ScheduleType
  <2>5. coupling \in {"fixed", "off", "initialized"} /\ state \in States
    BY DEF DeviceInit
  <2> QED
    BY <1>1, <2>3, <2>4, <2>5 DEF HostTypes, Between, NoNewton
<1>5. BufferTypes
  <2>1. IsTransform(transform)
    BY DEF DeviceInit, NewTransform, IsTransform, IsScratch, NoScratch
  <2>2. IsForces(forces) /\ IsConstraint(gcon)
    BY DEF DeviceInit, NoForces, NoConstraint, IsForces, IsConstraint
  <2>3. IsResidual(residual)
    BY DEF DeviceInit, ForwardRecover, IsResidual, NoForces
  <2>4. IsControl(control) /\ control.valid \in BOOLEAN
    BY <1>1 DEF Cleared, IsControl
  <2>5. reference \in References /\ tcon \in Accurate
    BY DEF DeviceInit, NoReference, References, Accurate
  <2>6. vacuum \in [boundary : States \cup {None}, currents : Accurate,
                    factors : States \cup {None}]
    BY DEF DeviceInit, Accurate
  <2> QED
    BY <2>1, <2>2, <2>3, <2>4, <2>5, <2>6 DEF DeviceInit, BufferTypes
<1>6. StreamInv /\ EntryInv
  BY <1>1, <1>2, <1>3 DEF StreamInv, EntryInv
<1>7. ScheduleInv
  BY <1>1, <1>2, <1>3 DEF ScheduleInv, Direct
<1>8. ControlInv /\ BufferInv
  BY <1>1, <1>2 DEF ControlInv, BufferInv, Outside
<1>9. CachesInv
  BY <1>1 DEF CachesInv, GraphsCurrent, NoGraphs
<1>10. VacuumInv
  BY <1>1, <1>2 DEF VacuumInv, DeviceInit
<1>11. FenceInv /\ DecisionInv /\ NewtonInv
  BY <1>1, <1>3 DEF FenceInv, DecisionInv, NewtonInv
<1> QED
  BY <1>4, <1>5, <1>6, <1>7, <1>8, <1>9, <1>10, <1>11 DEF DeviceInv

LEMMA DeviceStutters == DeviceInv /\ UNCHANGED deviceVars => DeviceInv'
<1> SUFFICES ASSUME DeviceInv, UNCHANGED deviceVars PROVE DeviceInv'
  OBVIOUS
<1> USE DEF DeviceInv
<1>1. UNCHANGED <<host, refreshGraphs, normGraphs, record, used, refreshing, valid,
                  converged, age, pc, state, transform, geometry, field, forces, gcon,
                  residual, control, precon, tcon, reference, vacuum, coupling, fresh,
                  schedule, kernel, newton, answer, entry>>
  BY DEF deviceVars, device, vars, pass, buffers, deviceCaches
<1>2. Correcting' = Correcting /\ Rebuilt' = Rebuilt /\ Pushed' = Pushed
      /\ Softened' = Softened /\ Slab' = Slab /\ Answered' = Answered
      /\ ResidualOfState' = ResidualOfState /\ HasCaches' = HasCaches
      /\ GraphsCurrent' = GraphsCurrent /\ Numbers' = Numbers
  BY <1>1 DEF Correcting, Rebuilt, Pushed, Softened, Slab, Answered, ResidualOfState,
              HasCaches, GraphsCurrent, Numbers, Constrained
<1>3. HostTypes' /\ BufferTypes' /\ StreamInv'
  BY <1>1, <1>2 DEF HostTypes, TypeOK, BufferTypes, StreamInv
<1>4. ScheduleInv' /\ ControlInv'
  BY <1>1, <1>2 DEF ScheduleInv, ControlInv
<1>5. BufferInv'
  BY <1>1, <1>2 DEF BufferInv, Constrained
<1>6. EntryInv'
  BY <1>1, <1>2 DEF EntryInv, CachesChanged, GraphsChanged, Faded
<1>7. CachesInv' /\ VacuumInv' /\ FenceInv' /\ DecisionInv'
  BY <1>1, <1>2 DEF CachesInv, VacuumInv, FenceInv, DecisionInv
<1>8. NewtonInv'
  BY <1>1, <1>2 DEF NewtonInv, BeforeIs
<1> QED
  BY <1>3, <1>4, <1>5, <1>6, <1>7, <1>8

LEMMA DeviceInductive == DeviceSpec => []DeviceInv
<1>1. DeviceInv /\ [DeviceNext]_deviceVars => DeviceInv'
  <2> SUFFICES ASSUME DeviceInv, [DeviceNext]_deviceVars PROVE DeviceInv'
    OBVIOUS
  <2>1. ASSUME NEW gauge \in Shapes, Launch(gauge) PROVE DeviceInv'
    BY <2>1, LaunchStep
  <2>2. CASE \/ EnqueuePrefix \/ JacobianStatus \/ Field \/ VacuumBlock
             \/ RebuildCaches \/ Forces \/ EdgeForceAndDecay \/ Constrain
             \/ Forward \/ Classified \/ Precondition
    BY <2>2, InverseStep, JacobianStep, FieldStep, VacuumStep, CachesStep, ForceStep,
       EdgeStep, ConstrainStep, ForwardStep, PredicateStep, PreconditionStep
  <2>3. CASE \/ ReadControl \/ Maintain \/ RejectGeometry \/ ThrowInvalidStart
             \/ RecoverNonfinite \/ SoftRestart \/ Converge \/ Descend
    BY <2>3, ReadStep, MaintainStep, RejectStep, StopStep, RecoverStep, SoftStep,
       DescendStep
  <2>4. CASE \/ Prepare \/ Probe \/ CheckProbe \/ ReturnToBase \/ Trial \/ JudgeTrial
             \/ AcceptTrial \/ Restore \/ JudgeRestore
    BY <2>4, PrepareStep, ProbeStep, CheckStep, JudgeStep, AcceptTrialStep, RestoreStep
  <2>5. CASE UNCHANGED deviceVars
    BY <2>5, DeviceStutters
  <2> QED
    BY <2>1, <2>2, <2>3, <2>4, <2>5 DEF DeviceNext, Finished
<1> QED
  BY <1>1, DeviceStarts, PTL DEF DeviceSpec

(* Every flag, cached graph and set of factors of the loop keeps its type,   *)
(* whatever the kernels leave in the control record.                         *)
THEOREM DeviceTypeCorrect == DeviceSpec => []TypeOK
BY DeviceInductive, PTL DEF DeviceInv, HostTypes

(* No pass is called converged with factors nobody has computed: what the    *)
(* kernels write is what the loop alone assumes of them.                     *)
THEOREM DeviceConvergesMeasured == DeviceSpec => []ConvergedIsMeasured
<1>1. DeviceInv => ConvergedIsMeasured
  BY DeviceAssumption
     DEF DeviceInv, FenceInv, CachesInv, ConvergedIsMeasured
<1> QED
  BY <1>1, DeviceInductive, PTL

(* A Newton step that is given up never finds another residual at its base   *)
(* state than the one it started from.                                       *)
THEOREM NewtonNeverRaises == DeviceSpec => [](kernel # "raised")
<1>1. DeviceInv => kernel # "raised"
  BY DEF DeviceInv, HostTypes, InFlight, Between
<1> QED
  BY <1>1, DeviceInductive, PTL

-----------------------------------------------------------------------------
(* What the steps of the device are to the loop.                             *)
InStream ==
  \/ EnqueuePrefix \/ JacobianStatus \/ Field \/ VacuumBlock \/ RebuildCaches
  \/ Forces \/ EdgeForceAndDecay \/ Constrain \/ Forward \/ Classified
  \/ Precondition

LEMMA InStreamIs ==
  ASSUME DeviceInv, InStream
  PROVE  /\ kernel \in InFlight /\ kernel' # "raised"
         /\ UNCHANGED <<host, graphs, pass, age, pc, state, answer, entry>>
         /\ coupling' = "fixed" <=> coupling = "fixed"
<1> DEFINE P == /\ kernel \in InFlight /\ kernel' # "raised"
                /\ UNCHANGED <<host, graphs, pass, age, pc, state, answer, entry>>
                /\ coupling' = "fixed" <=> coupling = "fixed"
<1>1. /\ {"inverse", "jacobian", "field", "vacuum", "caches", "force"} \subseteq InFlight
      /\ {"edge", "constraint", "forward", "predicate", "precondition"} \subseteq InFlight
  BY DEF InFlight
<1>2. CASE EnqueuePrefix \/ JacobianStatus \/ Field
  BY <1>1, <1>2 DEF EnqueuePrefix, JacobianStatus, Field, Stream
<1>3. CASE VacuumBlock
  BY <1>1, <1>3 DEF VacuumBlock, Stream
<1>4. CASE RebuildCaches \/ Forces \/ EdgeForceAndDecay
  BY <1>1, <1>4 DEF RebuildCaches, Forces, EdgeForceAndDecay, Stream
<1>5. CASE Constrain
  BY <1>1, <1>5 DEF Constrain, Stream
<1>6. CASE Forward
  BY <1>1, <1>6 DEF Forward, Stream
<1>7. CASE Classified
  BY <1>1, <1>7 DEF Classified, Stream
<1>8. CASE Precondition
  BY <1>1, <1>8 DEF Precondition, Stream
<1> QED
  BY <1>2, <1>3, <1>4, <1>5, <1>6, <1>7, <1>8 DEF InStream

(* An evaluation of a Newton step begins between two passes of the stream.   *)
Evaluating ==
  \E s \in States, phase \in {"solve", "trial", "restore"} : Evaluates(s, phase)

LEMMA EvaluatingIs ==
  ASSUME DeviceInv, Probe \/ Trial \/ Restore
  PROVE  Evaluating /\ Correcting /\ kernel \notin InFlight /\ entry = << >>
<1>1. "idle" \notin InFlight /\ "judged" \notin InFlight
  BY OutsideIs DEF Between
<1>2. Correcting /\ kernel \notin InFlight
  BY <1>1 DEF Probe, Trial, Restore, Correcting, DeviceInv, StreamInv
<1>3. newton.base \in States
  BY <1>2, DeviceAssumption DEF DeviceInv, NewtonInv
<1>4. Evaluating
  BY <1>3 DEF Probe, Trial, Restore, Evaluating
<1> QED
  BY <1>2, <1>4 DEF DeviceInv, StreamInv

(* The record of the last evaluation is adopted, from the line search or     *)
(* from the restore.                                                         *)
LEMMA AdoptIs ==
  ASSUME DeviceInv, AcceptTrial \/ JudgeRestore
  PROVE  /\ Adopt /\ Correcting /\ pc = "fence" /\ valid /\ ~refreshing
         /\ ~converged /\ coupling = "fixed" /\ control.valid
         /\ control.used = host
         /\ used' = host /\ (converged' \in BOOLEAN)
         /\ UNCHANGED <<host, refreshGraphs, normGraphs, record, refreshing, valid, age,
                        pc, state, coupling, precon, tcon, reference, vacuum>>
<1>1. Adopt /\ Correcting /\ control.valid /\ control.used = host
  <2>1. CASE AcceptTrial
    <3>1. kernel = "judged" /\ control.valid /\ Adopt
      BY <2>1 DEF AcceptTrial
    <3>2. Correcting
      BY <3>1 DEF DeviceInv, StreamInv, Correcting
    <3> QED
      BY <3>1, <3>2 DEF DeviceInv, NewtonInv
  <2>2. CASE JudgeRestore
    <3>1. newton.phase = "restore" /\ kernel = "fence"
      BY <2>2 DEF JudgeRestore
    <3>2. Correcting
      BY <3>1 DEF Correcting
    <3>3. Adopt
      BY <2>2, <3>1, RestoredIs DEF JudgeRestore
    <3> QED
      BY <3>1, <3>2, <3>3, RestoredIs, CorrectedIs
  <2> QED
    BY <2>1, <2>2
<1>2. pc = "fence" /\ valid /\ ~refreshing /\ ~converged /\ coupling = "fixed"
  BY <1>1 DEF DeviceInv, StreamInv, FenceInv, ScheduleInv
<1> QED
  BY <1>1, <1>2 DEF Adopt, graphs, deviceCaches

(* Steps that leave the loop alone.                                          *)
LEMMA QuietIs ==
  ASSUME DeviceInv, NEW gauge \in Shapes,
         \/ Launch(gauge) \/ InStream \/ ThrowInvalidStart \/ Converge
         \/ Prepare \/ Probe \/ CheckProbe \/ ReturnToBase \/ Trial \/ JudgeTrial
         \/ Restore \/ UNCHANGED deviceVars
  PROVE  /\ UNCHANGED <<host, record, used, refreshing, valid, converged, age, pc>>
         /\ coupling' = "fixed" <=> coupling = "fixed"
<1> DEFINE P == /\ UNCHANGED <<host, record, used, refreshing, valid, converged, age, pc>>
                /\ coupling' = "fixed" <=> coupling = "fixed"
<1>1. CASE Launch(gauge)
  BY <1>1 DEF Launch, pass, Ramped
<1>2. CASE InStream
  BY <1>2, InStreamIs DEF pass
<1>3. CASE Probe \/ Trial \/ Restore
  BY <1>3, EvaluatingIs DEF Evaluating, Evaluates, vars, pass
<1>4. CASE \/ ThrowInvalidStart \/ Converge \/ Prepare \/ CheckProbe \/ ReturnToBase
           \/ JudgeTrial \/ UNCHANGED deviceVars
  BY <1>4 DEF ThrowInvalidStart, Converge, Prepare, CheckProbe, ReturnToBase,
              JudgeTrial, deviceVars, device, vars, pass
<1> QED
  BY <1>1, <1>2, <1>3, <1>4

LEMMA DeviceNextIs ==
  ASSUME [DeviceNext]_deviceVars
  PROVE  \/ \E gauge \in Shapes :
              \/ Launch(gauge) \/ InStream \/ ThrowInvalidStart \/ Converge
              \/ Prepare \/ Probe \/ CheckProbe \/ ReturnToBase \/ Trial \/ JudgeTrial
              \/ Restore \/ UNCHANGED deviceVars
         \/ ReadControl \/ Maintain \/ RejectGeometry \/ RecoverNonfinite
         \/ SoftRestart \/ Descend \/ AcceptTrial \/ JudgeRestore
BY DeviceAssumption DEF DeviceNext, InStream, Finished

(* Whatever the kernels do, a pass is decided with the factors the device    *)
(* classified it with, a Newton step's last evaluation included.             *)
THEOREM DevicePassesFactors == DeviceSpec => PassFactorsSpec
<1>1. DeviceInit => D!Init
  BY DEF DeviceInit, Init, D!Init
<1>2. DeviceInv /\ DeviceInv' /\ [DeviceNext]_deviceVars
        => [D!Next]_<<host, used, valid, pc>>
  <2> SUFFICES ASSUME DeviceInv, DeviceInv', [DeviceNext]_deviceVars
               PROVE [D!Next]_<<host, used, valid, pc>>
    OBVIOUS
  <2> USE DEF D!Next
  <2>1. TypeOK /\ TypeOK'
    BY DEF DeviceInv, HostTypes
  <2>2. ASSUME NEW gauge \in Shapes,
               \/ Launch(gauge) \/ InStream \/ ThrowInvalidStart \/ Converge
               \/ Prepare \/ Probe \/ CheckProbe \/ ReturnToBase \/ Trial \/ JudgeTrial
               \/ Restore \/ UNCHANGED deviceVars
        PROVE  UNCHANGED <<host, used, valid, pc>>
    BY <2>2, QuietIs
  <2>3. CASE ReadControl
    <3>1. pc = "top"
      BY <2>3 DEF ReadControl, DeviceInv, StreamInv, Correcting, InFlight
    <3> QED
      BY <2>1, <2>3, <3>1 DEF ReadControl, TypeOK, D!Evaluate
  <2>4. CASE Maintain
    BY <2>4 DEF Maintain, MaintenanceReset, pass
  <2>5. CASE RejectGeometry
    BY <2>5 DEF RejectGeometry, Reject, pass, D!Discard
  <2>6. CASE RecoverNonfinite \/ Descend
    <3>1. Accept
      BY <2>6 DEF RecoverNonfinite, Descend
    <3> QED
      BY <3>1 DEF Accept, pass, DeviceInv, FenceInv, D!Decide
  <2>7. CASE SoftRestart
    BY <2>7 DEF SoftRestart, pass
  <2>8. CASE AcceptTrial \/ JudgeRestore
    BY <2>8, AdoptIs DEF D!Reevaluate
  <2> QED
    BY <2>2, <2>3, <2>4, <2>5, <2>6, <2>7, <2>8, DeviceNextIs
<1> QED
  BY <1>1, <1>2, DeviceInductive, PTL DEF DeviceSpec, PassFactorsSpec, D!Spec

-----------------------------------------------------------------------------
(* In a fixed-boundary stage, the loop and its kernels are the loop for      *)
(* which a pass is one step.  The graphs are captured when a pass begins,    *)
(* and count as captured when it has been read.                              *)
RefreshSeen == IF entry = << >> THEN refreshGraphs ELSE entry[1].refresh
NormSeen == IF entry = << >> THEN normGraphs ELSE entry[1].norm

LEMMA LoopQuiet ==
  ASSUME coupling' = "fixed" <=> coupling = "fixed",
         coupling = "fixed" =>
           /\ UNCHANGED <<host, record, used, refreshing, valid, converged, age, pc>>
           /\ UNCHANGED <<RefreshSeen, NormSeen>>
  PROVE  UNCHANGED Loop!vars
<1>1. CASE coupling = "fixed"
  BY <1>1 DEF Replayed, Loop!vars, Loop!pass, RefreshSeen, NormSeen
<1>2. CASE coupling # "fixed"
  <2>1. ~Replayed /\ ~Replayed'
    BY <1>2 DEF Replayed
  <2>2. NoGraphs' = NoGraphs
    BY DEF NoGraphs
  <2> QED
    BY <2>1, <2>2 DEF Loop!vars, Loop!pass
<1> QED
  BY <1>1, <1>2

(* When a pass has been read, its graphs are what the loop captures.         *)
LEMMA SeenIs ==
  ASSUME DeviceInv, kernel = "fence", coupling = "fixed"
  PROVE  /\ Correcting => refreshGraphs = RefreshSeen /\ normGraphs = NormSeen
         /\ ~Correcting /\ schedule.refresh =>
              refreshGraphs = RefreshSeen \cup {schedule.gauge}
              /\ normGraphs = NormSeen
         /\ ~Correcting /\ ~schedule.refresh =>
              /\ refreshGraphs = RefreshSeen
              /\ normGraphs = IF NormSeen[schedule.gauge] = Empty
                              THEN [NormSeen EXCEPT ![schedule.gauge] = host]
                              ELSE NormSeen
              /\ normGraphs[schedule.gauge] = host
<1>1. kernel \in InFlight
  BY DEF InFlight
<1>2. PICK found \in CachesType, refresh \in SUBSET Shapes,
             norm \in [Shapes -> Factors \cup {Empty}] :
        /\ entry = <<[caches |-> found, refresh |-> refresh, norm |-> norm]>>
        /\ GraphsChanged(refresh, norm)
  BY <1>1 DEF DeviceInv, EntryInv
<1>3. RefreshSeen = refresh /\ NormSeen = norm
  BY <1>2 DEF RefreshSeen, NormSeen
<1>4. Correcting => ~schedule.refresh
  BY DEF DeviceInv, ScheduleInv
<1>5. schedule.gauge \in Shapes
  BY DEF DeviceInv, HostTypes, ScheduleType
<1>6. normGraphs[schedule.gauge] \in {Empty, host}
  BY <1>5 DEF DeviceInv, CachesInv, GraphsCurrent
<1> QED
  BY <1>2, <1>3, <1>4, <1>5, <1>6 DEF GraphsChanged

(* The steps of the loop.                                                    *)
LEMMA ReadReplays ==
  ASSUME DeviceInv, DeviceInv', ReadControl, coupling = "fixed"
  PROVE  Loop!Next
<1>1. /\ kernel = "fence" /\ newton.phase = "none" /\ pc' = "fence" /\ entry' = << >>
      /\ record' = control.norms /\ used' = control.used
      /\ (refreshing' <=> schedule.refresh) /\ (valid' <=> control.valid)
      /\ (converged' <=> control.verdict = "converged")
      /\ UNCHANGED <<host, refreshGraphs, normGraphs, age, coupling>>
  BY DEF ReadControl, graphs
<1>2. /\ pc = "top" /\ ~Correcting /\ (schedule.refresh <=> age = 0)
      /\ schedule.gauge \in Shapes
  BY <1>1 DEF DeviceInv, StreamInv, ScheduleInv, HostTypes, ScheduleType, Correcting,
              InFlight
<1>3. valid' \in BOOLEAN /\ converged' \in BOOLEAN /\ refreshing' \in BOOLEAN
  BY DEF DeviceInv, HostTypes, TypeOK
<1>4. Replayed /\ Replayed'
  BY <1>1 DEF Replayed
<1>5. CASE schedule.refresh
  <2>1. IF valid' THEN record' \in Factors \ {Unset} ELSE record' = Unset
    BY <1>1, <1>5, FenceIs, DeviceAssumption DEF Rebuilt
  <2>2. used' = record' /\ (converged' => valid')
    BY <1>1, <1>5, FenceIs
  <2>3. /\ refreshGraphs' = RefreshSeen \cup {schedule.gauge}
        /\ normGraphs' = NormSeen
    BY <1>1, <1>2, <1>5, SeenIs
  <2>4. Loop!ReplayRefresh(schedule.gauge)
    BY <1>1, <1>2, <1>3, <1>4, <1>5, <2>1, <2>2, <2>3
       DEF Loop!ReplayRefresh, Loop!Classify, RefreshSeen, NormSeen
  <2> QED
    BY <1>2, <2>4 DEF Loop!Next
<1>6. CASE ~schedule.refresh
  <2>1. used' = host /\ record' = Unset
    BY <1>1, <1>6, FenceIs DEF Rebuilt
  <2>2. /\ refreshGraphs' = RefreshSeen
        /\ normGraphs' = IF NormSeen[schedule.gauge] = Empty
                         THEN [NormSeen EXCEPT ![schedule.gauge] = host]
                         ELSE NormSeen
        /\ normGraphs'[schedule.gauge] = host
    BY <1>1, <1>2, <1>6, SeenIs
  <2>3. Loop!Captured(schedule.gauge) = normGraphs'
    BY <1>4, <2>2 DEF Loop!Captured, Loop!Empty, Empty, NormSeen
  <2>4. Loop!ReplayNorm(schedule.gauge)
    BY <1>1, <1>2, <1>3, <1>4, <1>6, <2>1, <2>2, <2>3
       DEF Loop!ReplayNorm, Loop!Classify, RefreshSeen
  <2> QED
    BY <1>2, <2>4 DEF Loop!Next
<1> QED
  BY <1>5, <1>6

LEMMA DecideReplays ==
  ASSUME DeviceInv, coupling = "fixed",
         Maintain \/ RejectGeometry \/ RecoverNonfinite \/ Descend
  PROVE  Loop!Next
<1>1. kernel = "idle" /\ kernel' = kernel /\ entry' = entry /\ coupling' = "fixed"
  BY DEF Maintain, RejectGeometry, RecoverNonfinite, Descend, RollBack, Deciding
<1>2. entry = << >> /\ entry' = << >> /\ Replayed /\ Replayed'
  <2>1. "idle" \notin InFlight
    BY OutsideIs DEF Between
  <2> QED
    BY <1>1, <2>1 DEF DeviceInv, StreamInv, Replayed
<1>3. CASE Maintain
  BY <1>2, <1>3 DEF Maintain, MaintenanceReset, pass, Loop!Next,
                    Loop!MaintenanceReset, Loop!pass
<1>4. CASE RejectGeometry
  BY <1>2, <1>4 DEF RejectGeometry, Reject, pass, Loop!Next, Loop!Reject, Loop!pass
<1>5. CASE RecoverNonfinite \/ Descend
  <2>1. Accept
    BY <1>5 DEF RecoverNonfinite, Descend
  <2>2. Loop!Accept
    BY <1>2, <2>1 DEF Accept, pass, NoGraphs, Empty, Loop!Accept, Loop!pass,
                      Loop!NoGraphs, Loop!Empty
  <2> QED
    BY <2>2 DEF Loop!Next
<1> QED
  BY <1>3, <1>4, <1>5

LEMMA CorrectReplays ==
  ASSUME DeviceInv, AcceptTrial \/ JudgeRestore
  PROVE  Loop!Next
<1>1. /\ Correcting /\ pc = "fence" /\ valid /\ ~refreshing /\ ~converged
      /\ coupling = "fixed" /\ used' = host /\ converged' \in BOOLEAN
      /\ UNCHANGED <<host, refreshGraphs, normGraphs, record, refreshing, valid, age,
                     pc, coupling>>
  BY AdoptIs
<1>2. entry' = << >> /\ RefreshSeen = refreshGraphs /\ NormSeen = normGraphs
  <2>1. CASE AcceptTrial
    <3>1. kernel = "judged" /\ entry' = entry
      BY <2>1 DEF AcceptTrial
    <3>2. "judged" \notin InFlight
      BY OutsideIs DEF Between
    <3> QED
      BY <3>1, <3>2 DEF DeviceInv, StreamInv, RefreshSeen, NormSeen
  <2>2. CASE JudgeRestore
    BY <1>1, <2>2, SeenIs DEF JudgeRestore
  <2> QED
    BY <2>1, <2>2
<1>3. Replayed /\ Replayed'
  BY <1>1 DEF Replayed
<1>4. Loop!Correct
  BY <1>1, <1>2, <1>3 DEF Loop!Correct, Loop!Classify, RefreshSeen, NormSeen
<1> QED
  BY <1>4 DEF Loop!Next

LEMMA QuietSeen ==
  ASSUME DeviceInv, NEW gauge \in Shapes, coupling = "fixed",
         \/ Launch(gauge) \/ InStream \/ ThrowInvalidStart \/ Converge
         \/ Prepare \/ Probe \/ CheckProbe \/ ReturnToBase \/ Trial \/ JudgeTrial
         \/ Restore \/ UNCHANGED deviceVars
  PROVE  UNCHANGED <<RefreshSeen, NormSeen>>
<1>1. "idle" \notin InFlight
  BY OutsideIs DEF Between
<1>2. CASE Launch(gauge)
  <2>1. kernel = "idle" /\ entry' = <<Found>>
    BY <1>2 DEF Launch
  <2>2. entry = << >>
    BY <1>1, <2>1 DEF DeviceInv, StreamInv
  <2> QED
    BY <2>1, <2>2 DEF RefreshSeen, NormSeen, Found
<1>3. CASE InStream
  BY <1>3, InStreamIs DEF graphs, RefreshSeen, NormSeen
<1>4. CASE Probe \/ Trial \/ Restore
  <2>1. entry = << >> /\ entry' = <<Found>>
    BY <1>4, EvaluatingIs DEF Evaluating, Evaluates
  <2> QED
    BY <2>1 DEF RefreshSeen, NormSeen, Found
<1>5. CASE CheckProbe \/ JudgeTrial
  <2>1. /\ kernel = "fence" /\ Correcting /\ entry' = << >>
        /\ UNCHANGED <<refreshGraphs, normGraphs>>
    BY <1>5 DEF CheckProbe, JudgeTrial, Correcting, vars
  <2>2. refreshGraphs = RefreshSeen /\ normGraphs = NormSeen
    BY <2>1, SeenIs
  <2>3. RefreshSeen' = refreshGraphs' /\ NormSeen' = normGraphs'
    BY <2>1 DEF RefreshSeen, NormSeen
  <2> QED
    BY <2>1, <2>2, <2>3
<1>6. CASE \/ ThrowInvalidStart \/ Converge \/ Prepare \/ ReturnToBase
           \/ UNCHANGED deviceVars
  BY <1>6 DEF ThrowInvalidStart, Converge, Prepare, ReturnToBase, deviceVars, device,
              vars, RefreshSeen, NormSeen
<1> QED
  BY <1>2, <1>3, <1>4, <1>5, <1>6

(* What the kernels of a pass leave in the control record, and when a host   *)
(* looks at it, is what GraphReplay assumes: its theorems are theorems of    *)
(* the kernels.                                                              *)
THEOREM DeviceReplays == DeviceSpec => ReplaySpec
<1>1. DeviceInit => Loop!Init
  <2> SUFFICES ASSUME DeviceInit PROVE Loop!Init
    OBVIOUS
  <2>1. entry = << >> /\ Init
    BY DEF DeviceInit
  <2>2. Loop!NoGraphs = NoGraphs
    BY DEF NoGraphs, Empty, Loop!NoGraphs, Loop!Empty
  <2> QED
    BY <2>1, <2>2 DEF Init, Loop!Init
<1>2. DeviceInv /\ DeviceInv' /\ [DeviceNext]_deviceVars => [Loop!Next]_Loop!vars
  <2> SUFFICES ASSUME DeviceInv, DeviceInv', [DeviceNext]_deviceVars
               PROVE [Loop!Next]_Loop!vars
    OBVIOUS
  <2>1. ASSUME NEW gauge \in Shapes,
               \/ Launch(gauge) \/ InStream \/ ThrowInvalidStart \/ Converge
               \/ Prepare \/ Probe \/ CheckProbe \/ ReturnToBase \/ Trial \/ JudgeTrial
               \/ Restore \/ UNCHANGED deviceVars
        PROVE  UNCHANGED Loop!vars
    BY <2>1, QuietIs, QuietSeen, LoopQuiet
  <2>2. CASE ReadControl
    <3>1. CASE coupling = "fixed"
      BY <2>2, <3>1, ReadReplays
    <3>2. CASE coupling # "fixed"
      <4>1. coupling' = coupling
        BY <2>2 DEF ReadControl
      <4> QED
        BY <3>2, <4>1, LoopQuiet
    <3> QED
      BY <3>1, <3>2
  <2>3. CASE Maintain \/ RejectGeometry \/ RecoverNonfinite \/ Descend
    <3>1. CASE coupling = "fixed"
      BY <2>3, <3>1, DecideReplays
    <3>2. CASE coupling # "fixed"
      <4>1. coupling' # "fixed"
        BY <2>3, <3>2 DEF Maintain, RejectGeometry, RecoverNonfinite, Descend, RollBack
      <4> QED
        BY <3>2, <4>1, LoopQuiet
    <3> QED
      BY <3>1, <3>2
  <2>4. CASE SoftRestart
    <3>1. coupling = "initialized" /\ coupling' = coupling
      BY <2>4 DEF SoftRestart, SoftDue
    <3> QED
      BY <3>1, LoopQuiet
  <2>5. CASE AcceptTrial \/ JudgeRestore
    BY <2>5, CorrectReplays
  <2> QED
    BY <2>1, <2>2, <2>3, <2>4, <2>5, DeviceNextIs
<1> QED
  BY <1>1, <1>2, DeviceInductive, PTL DEF DeviceSpec, ReplaySpec, Loop!Spec

-----------------------------------------------------------------------------
(* What the device keeps of the promise: between passes the caches are those *)
(* in its buffers, during a pass those it found.                             *)
CachesSeen == IF entry = << >> THEN CachesNow ELSE entry[1].caches
AnswerSeen == IF kernel = "raised" THEN [kind |-> "raised"] ELSE answer

LEMMA CachesSame ==
  ASSUME UNCHANGED <<precon, tcon, reference, vacuum>>,
         (IF pc = "fence" /\ valid /\ refreshing THEN record ELSE host)'
           = IF pc = "fence" /\ valid /\ refreshing THEN record ELSE host
  PROVE  CachesNow' = CachesNow
<1> DEFINE f == IF pc = "fence" /\ valid /\ refreshing THEN record ELSE host
<1>1. f' = f
  OBVIOUS
<1>2. CachesNow = [precon |-> ElementsOf(precon), tcon |-> tcon,
                   reference |-> reference, vacuum |-> vacuum.factors,
                   factors |-> IF f = Unset THEN None ELSE f]
  BY DEF CachesNow
<1>3. CachesNow' = [precon |-> ElementsOf(precon)', tcon |-> tcon',
                    reference |-> reference', vacuum |-> vacuum'.factors,
                    factors |-> IF f' = Unset THEN None ELSE f']
  BY DEF CachesNow
<1>4. ElementsOf(precon)' = ElementsOf(precon)
  BY DEF ElementsOf
<1> HIDE DEF f
<1> QED
  BY <1>1, <1>2, <1>3, <1>4

(* Steps of the device that the host cannot see.                             *)
LEMMA PromiseQuiet ==
  ASSUME UNCHANGED <<state, CachesSeen, AnswerSeen>>
  PROVE  UNCHANGED Promise!evars
BY DEF Promise!evars, CachesSeen, AnswerSeen

(* The caches of an evaluation, component by component.                      *)
IsCaches(c) == c = [precon |-> c.precon, tcon |-> c.tcon, reference |-> c.reference,
                    vacuum |-> c.vacuum, factors |-> c.factors]

RebuiltOf(c, refresh, reset, s) ==
  [c EXCEPT !.precon = IF refresh THEN s ELSE @,
            !.tcon = IF refresh THEN s ELSE @,
            !.factors = IF refresh THEN s ELSE @,
            !.reference = IF reset THEN [of |-> s, decays |-> 0] ELSE @]

FadedOf(c, fade, full, s) ==
  [(IF fade THEN [c EXCEPT !.reference.decays = @ + 1] ELSE c)
     EXCEPT !.vacuum = IF full THEN s ELSE @]

LEMMA RebuiltIs ==
  ASSUME NEW c, IsCaches(c), NEW refresh, NEW reset, NEW s
  PROVE  RebuiltOf(c, refresh, reset, s)
           = [precon |-> IF refresh THEN s ELSE c.precon,
              tcon |-> IF refresh THEN s ELSE c.tcon,
              reference |-> IF reset THEN [of |-> s, decays |-> 0] ELSE c.reference,
              vacuum |-> c.vacuum,
              factors |-> IF refresh THEN s ELSE c.factors]
<1> DEFINE x == IF refresh THEN s ELSE c.precon
           y == IF refresh THEN s ELSE c.tcon
           z == IF refresh THEN s ELSE c.factors
           r == IF reset THEN [of |-> s, decays |-> 0] ELSE c.reference
           a == [c EXCEPT !.precon = x]
           b == [a EXCEPT !.tcon = y]
           d == [b EXCEPT !.factors = z]
           e == [d EXCEPT !.reference = r]
<1>1. RebuiltOf(c, refresh, reset, s)
        = [c EXCEPT !.precon = x, !.tcon = y, !.factors = z, !.reference = r]
  BY DEF IsCaches, RebuiltOf
<1> HIDE DEF x, y, z, r
<1>2. a = [precon |-> x, tcon |-> c.tcon, reference |-> c.reference,
           vacuum |-> c.vacuum, factors |-> c.factors]
  BY DEF IsCaches
<1> HIDE DEF a
<1>3. b = [precon |-> x, tcon |-> y, reference |-> c.reference,
           vacuum |-> c.vacuum, factors |-> c.factors]
  BY <1>2
<1> HIDE DEF b
<1>4. d = [precon |-> x, tcon |-> y, reference |-> c.reference,
           vacuum |-> c.vacuum, factors |-> z]
  BY <1>3
<1> HIDE DEF d
<1>5. e = [precon |-> x, tcon |-> y, reference |-> r,
           vacuum |-> c.vacuum, factors |-> z]
  BY <1>4
<1>6. e = [c EXCEPT !.precon = x, !.tcon = y, !.factors = z, !.reference = r]
  BY DEF e, d, b, a
<1> HIDE DEF e
<1> QED
  BY <1>1, <1>5, <1>6 DEF x, y, z, r

LEMMA FadedIs ==
  ASSUME NEW c, IsCaches(c), NEW fade, NEW full, NEW s,
         c.reference = [of |-> c.reference.of, decays |-> c.reference.decays]
  PROVE  FadedOf(c, fade, full, s)
           = [precon |-> c.precon, tcon |-> c.tcon,
              reference |-> IF fade
                            THEN [of |-> c.reference.of, decays |-> c.reference.decays + 1]
                            ELSE c.reference,
              vacuum |-> IF full THEN s ELSE c.vacuum, factors |-> c.factors]
<1> DEFINE r == IF fade THEN [of |-> c.reference.of, decays |-> c.reference.decays + 1]
                ELSE c.reference
           d == [c EXCEPT !.reference.decays = @ + 1]
           f == IF fade THEN d ELSE c
<1>1. d = [precon |-> c.precon, tcon |-> c.tcon,
           reference |-> [of |-> c.reference.of, decays |-> c.reference.decays + 1],
           vacuum |-> c.vacuum, factors |-> c.factors]
  <2> DEFINE n == [of |-> c.reference.of, decays |-> c.reference.decays + 1]
  <2>1. [c.reference EXCEPT !.decays = @ + 1] = n
    OBVIOUS
  <2>2. d = [c EXCEPT !.reference = [c.reference EXCEPT !.decays = @ + 1]]
    OBVIOUS
  <2> HIDE DEF n, d
  <2>3. d = [c EXCEPT !.reference = n]
    BY <2>1, <2>2
  <2>4. d = [precon |-> c.precon, tcon |-> c.tcon, reference |-> n,
             vacuum |-> c.vacuum, factors |-> c.factors]
    BY <2>3 DEF IsCaches
  <2> QED
    BY <2>4 DEF n
<1> HIDE DEF d
<1>2. f = [precon |-> c.precon, tcon |-> c.tcon, reference |-> r,
           vacuum |-> c.vacuum, factors |-> c.factors]
  BY <1>1 DEF IsCaches
<1>3. [f EXCEPT !.vacuum = IF full THEN s ELSE @]
        = [precon |-> c.precon, tcon |-> c.tcon, reference |-> r,
           vacuum |-> IF full THEN s ELSE c.vacuum, factors |-> c.factors]
  <2> HIDE DEF f, r
  <2> QED
    BY <1>2
<1> QED
  BY <1>3 DEF f, d, r, FadedOf

(* What a pass read at the fence has made of the caches it found.            *)
LEMMA CachesMade ==
  ASSUME DeviceInv, kernel = "fence", entry' = << >>,
         UNCHANGED <<precon, tcon, reference, vacuum>>,
         (IF pc = "fence" /\ valid /\ refreshing THEN record ELSE host)'
           = IF Rebuilt THEN state ELSE host
  PROVE  \E found \in CachesType :
           LET r == IF schedule.reset /\ control.valid
                    THEN [of |-> state, decays |-> 0] ELSE found.reference
               c == [precon |-> IF Rebuilt THEN state ELSE found.precon,
                     tcon |-> IF Rebuilt THEN state ELSE found.tcon,
                     reference |-> IF schedule.decay
                                   THEN [of |-> r.of, decays |-> r.decays + 1] ELSE r,
                     vacuum |-> IF schedule.full THEN state ELSE found.vacuum,
                     factors |-> IF Rebuilt THEN state ELSE found.factors]
           IN  CachesSeen = found /\ CachesSeen' = c /\ c \in CachesType
               /\ c.precon = ElementsOf(precon) /\ c.tcon = tcon
               /\ c.reference = reference /\ c.vacuum = vacuum.factors
               /\ c.factors = IF Rebuilt THEN state ELSE Numbers
<1> USE DEF DeviceInv
<1>1. /\ "fence" \in InFlight \cap PastCaches /\ "fence" \in PastVacuum \cap PastEdge
      /\ "fence" \in PastConstraint
  BY DEF InFlight, PastInverse, PastJacobian, PastField, PastVacuum, PastCaches,
         PastForce, PastEdge, PastConstraint
<1>2. PICK found \in CachesType, refresh \in SUBSET Shapes,
             norm \in [Shapes -> Factors \cup {Empty}] :
        /\ entry = <<[caches |-> found, refresh |-> refresh, norm |-> norm]>>
        /\ CachesChanged(found)
  BY <1>1 DEF EntryInv
<1>3. CachesSeen = found
  BY <1>2 DEF CachesSeen
<1> DEFINE r == IF schedule.reset /\ control.valid
                THEN [of |-> state, decays |-> 0] ELSE found.reference
           faded == IF schedule.decay
                    THEN [of |-> r.of, decays |-> r.decays + 1] ELSE r
           f == IF pc = "fence" /\ valid /\ refreshing THEN record ELSE host
<1>4. r \in References
  BY DEF CachesType, References, HostTypes
<1>5. faded \in References /\ reference = faded
  <2>1. reference = IF schedule.decay THEN [r EXCEPT !.decays = @ + 1] ELSE r
    BY <1>1, <1>2 DEF CachesChanged, Faded
  <2> HIDE DEF r
  <2> QED
    BY <1>4, <2>1 DEF References
<1>6. /\ ElementsOf(precon) = IF Rebuilt THEN state ELSE found.precon
      /\ tcon = IF Rebuilt THEN state ELSE found.tcon
      /\ vacuum.factors = IF schedule.full THEN state ELSE found.vacuum
      /\ found.factors = Numbers
  BY <1>1, <1>2 DEF CachesChanged
<1>7. Rebuilt => state \in Oriented /\ state # Unset /\ state \in Accurate
  BY FenceIs, DeviceAssumption DEF Rebuilt, Accurate
<1>8. (IF f' = Unset THEN None ELSE f') = IF Rebuilt THEN state ELSE Numbers
  BY <1>7 DEF Numbers
<1>9. CachesSeen' = [precon |-> ElementsOf(precon), tcon |-> tcon,
                     reference |-> reference, vacuum |-> vacuum.factors,
                     factors |-> IF f' = Unset THEN None ELSE f']
  <2>1. ElementsOf(precon)' = ElementsOf(precon)
    BY DEF ElementsOf
  <2>2. CachesSeen' = CachesNow'
    BY DEF CachesSeen
  <2>3. CachesNow' = [precon |-> ElementsOf(precon)', tcon |-> tcon',
                      reference |-> reference', vacuum |-> vacuum'.factors,
                      factors |-> IF f' = Unset THEN None ELSE f']
    BY DEF CachesNow
  <2> QED
    BY <2>1, <2>2, <2>3
<1> HIDE DEF f
<1> DEFINE c == [precon |-> IF Rebuilt THEN state ELSE found.precon,
                 tcon |-> IF Rebuilt THEN state ELSE found.tcon,
                 reference |-> faded,
                 vacuum |-> IF schedule.full THEN state ELSE found.vacuum,
                 factors |-> IF Rebuilt THEN state ELSE found.factors]
<1>10. CachesSeen' = c
  BY <1>5, <1>6, <1>8, <1>9
<1>11. c \in CachesType
  <2>1. state \in States
    BY DEF HostTypes
  <2> HIDE DEF faded
  <2> QED
    BY <1>5, <1>7, <2>1 DEF CachesType
<1>12. /\ c.precon = ElementsOf(precon) /\ c.tcon = tcon /\ c.reference = reference
       /\ c.vacuum = vacuum.factors /\ c.factors = IF Rebuilt THEN state ELSE Numbers
  BY <1>5, <1>6
<1> QED
  BY <1>3, <1>10, <1>11, <1>12

CachesAs(refresh, reset, fade, full) ==
  [Promise!Faded(Promise!Rebuilt(refresh, reset), fade)
     EXCEPT !.vacuum = IF full THEN state ELSE @]

EvaluatedWith(c) ==
  /\ CachesSeen' = c
  /\ {c.precon, c.tcon, c.factors} \subseteq Oriented
  /\ \E pushed, applied \in BOOLEAN, gauge \in Shapes :
       /\ pushed => c.vacuum \in Oriented
       /\ applied \/ state \in Terminal
       /\ AnswerSeen' = [kind |-> "residual",
                         residual |-> Promise!Result(c, gauge, pushed, applied),
                         factors |-> c.factors]

LEMMA EvaluatedIs ==
  ASSUME DeviceInv, kernel = "fence", entry' = << >>, answer' = Answered,
         kernel' # "raised", UNCHANGED <<state, precon, tcon, reference, vacuum>>,
         (IF pc = "fence" /\ valid /\ refreshing THEN record ELSE host)'
           = IF Rebuilt THEN state ELSE host
  PROVE  Promise!Evaluate \/ Promise!Refuse
<1> USE DEF DeviceInv
<1> DEFINE R(found) == IF schedule.reset /\ control.valid
                       THEN [of |-> state, decays |-> 0] ELSE found.reference
           Made(found) ==
             [precon |-> IF Rebuilt THEN state ELSE found.precon,
              tcon |-> IF Rebuilt THEN state ELSE found.tcon,
              reference |-> IF schedule.decay
                            THEN [of |-> R(found).of, decays |-> R(found).decays + 1]
                            ELSE R(found),
              vacuum |-> IF schedule.full THEN state ELSE found.vacuum,
              factors |-> IF Rebuilt THEN state ELSE found.factors]
<1>1. PICK found \in CachesType :
        /\ CachesSeen = found /\ CachesSeen' = Made(found)
        /\ Made(found).precon = ElementsOf(precon) /\ Made(found).tcon = tcon
        /\ Made(found).reference = reference /\ Made(found).vacuum = vacuum.factors
        /\ Made(found).factors = IF Rebuilt THEN state ELSE Numbers
  BY CachesMade
<1> DEFINE c == Made(found)
<1>2. /\ schedule.refresh \in BOOLEAN /\ schedule.reset \in BOOLEAN
      /\ schedule.decay \in BOOLEAN /\ schedule.full \in BOOLEAN
      /\ schedule.edge \in BOOLEAN /\ schedule.gauge \in Shapes
      /\ control.valid \in BOOLEAN /\ state \in States
  BY DEF HostTypes, ScheduleType, BufferTypes
<1>3. IsCaches(found) /\ found.reference = [of |-> found.reference.of,
                                            decays |-> found.reference.decays]
  BY DEF CachesType, References, IsCaches
<1>4. AnswerSeen' = Answered
  BY DEF AnswerSeen
<1>5. CASE control.valid
  <2>1. /\ state \in Oriented /\ Rebuilt = schedule.refresh /\ ResidualOfState
        /\ HasCaches
        /\ Preconditioned(residual) = IF control.verdict = "none"
                                      THEN ElementsOf(precon) ELSE None
        /\ control.verdict # "none" => state \in Terminal
        /\ control.used = IF schedule.refresh THEN state ELSE host
        /\ ~schedule.refresh => host \in Oriented
    BY <1>2, <1>5, FenceIs DEF Rebuilt
  <2> DEFINE m == [precon |-> IF schedule.refresh THEN state ELSE found.precon,
                   tcon |-> IF schedule.refresh THEN state ELSE found.tcon,
                   reference |-> IF schedule.reset THEN [of |-> state, decays |-> 0]
                                 ELSE found.reference,
                   vacuum |-> found.vacuum,
                   factors |-> IF schedule.refresh THEN state ELSE found.factors]
  <2>2. Promise!Rebuilt(schedule.refresh, schedule.reset) = m
    <3>1. Promise!Rebuilt(schedule.refresh, schedule.reset)
            = RebuiltOf(CachesSeen, schedule.refresh, schedule.reset, state)
      BY DEF Promise!Rebuilt, CachesSeen, RebuiltOf
    <3>2. RebuiltOf(found, schedule.refresh, schedule.reset, state) = m
      BY <1>3, RebuiltIs
    <3> QED
      BY <1>1, <3>1, <3>2
  <2>3. IsCaches(m) /\ m.reference = [of |-> m.reference.of,
                                      decays |-> m.reference.decays]
    BY <1>3 DEF IsCaches
  <2>4. FadedOf(m, schedule.decay, schedule.full, state) = c
    <3>1. /\ m.precon = c.precon /\ m.tcon = c.tcon /\ m.factors = c.factors
          /\ m.reference = R(found) /\ m.vacuum = found.vacuum
      BY <1>5, <2>1
    <3>2. c = [precon |-> c.precon, tcon |-> c.tcon,
               reference |-> IF schedule.decay
                             THEN [of |-> R(found).of, decays |-> R(found).decays + 1]
                             ELSE R(found),
               vacuum |-> IF schedule.full THEN state ELSE found.vacuum,
               factors |-> c.factors]
      OBVIOUS
    <3> HIDE DEF c, m, R
    <3> QED
      BY <2>3, <3>1, <3>2, FadedIs
  <2> HIDE DEF m
  <2>5. [Promise!Faded(Promise!Rebuilt(schedule.refresh, schedule.reset), schedule.decay)
           EXCEPT !.vacuum = IF schedule.full THEN state ELSE @] = c
    BY <2>2, <2>4 DEF Promise!Faded, FadedOf
  <2>6. {c.precon, c.tcon, c.factors} \subseteq Oriented
    <3>1. c.factors \in Oriented
      <4>1. ~schedule.refresh => Numbers = host
        BY <2>1, DeviceAssumption DEF Numbers
      <4> QED
        BY <1>1, <2>1, <4>1
    <3> QED
      BY <1>1, <2>1, <3>1 DEF HasCaches
  <2>7. schedule.edge =>
          c.vacuum \in Oriented
          /\ Pushed = [pressure |-> [boundary |-> state, currents |-> state,
                                     factors |-> c.vacuum],
                       on |-> state]
    <3> SUFFICES ASSUME schedule.edge
                 PROVE c.vacuum \in Oriented
                       /\ Pushed = [pressure |-> [boundary |-> state,
                                                  currents |-> state,
                                                  factors |-> c.vacuum],
                                    on |-> state]
      OBVIOUS
    <3>1. "fence" \in PastVacuum
      BY DEF InFlight, PastInverse, PastJacobian, PastField, PastVacuum
    <3>2. /\ vacuum.boundary = state /\ vacuum.currents = state
          /\ vacuum.factors \in Oriented
      BY <1>5, <3>1 DEF BufferInv
    <3>3. vacuum = [boundary |-> vacuum.boundary, currents |-> vacuum.currents,
                    factors |-> vacuum.factors]
      BY DEF BufferTypes
    <3>4. c.vacuum = vacuum.factors
      BY <1>1
    <3> HIDE DEF c
    <3> QED
      BY <3>2, <3>3, <3>4 DEF Pushed
  <2>8. ~schedule.edge => Pushed = None
    BY DEF Pushed
  <2>9. Constrained = [gCon |-> [eff |-> [geometry |-> state,
                                          reference |-> c.reference],
                                 tcon |-> c.tcon],
                       geometry |-> state, reference |-> c.reference]
    BY <1>1 DEF Constrained, ConstraintOf, Filtered
  <2>10. control.used = c.factors /\ c.precon = ElementsOf(precon)
    <3>1. ~schedule.refresh => Numbers = host
      BY <2>1, DeviceAssumption DEF Numbers
    <3> QED
      BY <1>1, <2>1, <3>1
  <2> DEFINE applied == control.verdict = "none"
  <2>11. Slab = Promise!Result(c, schedule.gauge, schedule.edge, applied)
    <3>1. Slab = [mhd |-> state, edge |-> Pushed, constraint |-> Constrained,
                  odd |-> "scaled", gauge |-> schedule.gauge,
                  precon |-> IF applied THEN ElementsOf(precon) ELSE None]
      BY <2>1 DEF Slab, ResidualOfState
    <3> HIDE DEF c, applied
    <3> QED
      BY <2>7, <2>8, <2>9, <2>10, <3>1 DEF Promise!Result
  <2>12. AnswerSeen' = [kind |-> "residual",
                        residual |-> Promise!Result(c, schedule.gauge, schedule.edge,
                                                    applied),
                        factors |-> c.factors]
    BY <1>4, <1>5, <2>10, <2>11 DEF Answered
  <2>13. applied \in BOOLEAN /\ (applied \/ state \in Terminal)
    BY <2>1
  <2>14. CachesSeen' = c
    BY <1>1
  <2> HIDE DEF c, applied
  <2>15. Promise!Evaluate
    <3>1. EvaluatedWith(c)
      BY <1>2, <2>6, <2>7, <2>12, <2>13, <2>14 DEF EvaluatedWith
    <3>2. CachesAs(schedule.refresh, schedule.reset, schedule.decay, schedule.full) = c
      BY <2>5 DEF CachesAs
    <3>3. EvaluatedWith(CachesAs(schedule.refresh, schedule.reset, schedule.decay,
                                 schedule.full))
      BY <3>1, <3>2
    <3>4. \E refresh, reset, fade, full \in BOOLEAN :
            EvaluatedWith(CachesAs(refresh, reset, fade, full))
      BY <1>2, <3>3
    <3> QED
      BY <2>1, <3>4
         DEF Promise!Evaluate, CachesSeen, AnswerSeen, CachesAs, EvaluatedWith
  <2> QED
    BY <2>15
<1>6. CASE ~control.valid
  <2>1. state \notin Oriented /\ ~Rebuilt
    BY <1>6, FenceIs DEF Rebuilt
  <2>2. FadedOf(found, schedule.decay, schedule.full, state) = c
    <3>1. c = [precon |-> found.precon, tcon |-> found.tcon,
               reference |-> IF schedule.decay
                             THEN [of |-> found.reference.of,
                                   decays |-> found.reference.decays + 1]
                             ELSE found.reference,
               vacuum |-> IF schedule.full THEN state ELSE found.vacuum,
               factors |-> found.factors]
      BY <1>6, <2>1
    <3> HIDE DEF c
    <3> QED
      BY <1>3, <3>1, FadedIs
  <2>3. CachesSeen' = c /\ CachesSeen = found
    BY <1>1
  <2> HIDE DEF c
  <2>4. CachesSeen' = [Promise!Faded(CachesSeen, schedule.decay)
                         EXCEPT !.vacuum = IF schedule.full THEN state ELSE @]
    BY <2>2, <2>3 DEF Promise!Faded, FadedOf
  <2>5. AnswerSeen' = [kind |-> "refused"]
    BY <1>4, <1>6 DEF Answered
  <2>6. Promise!Refuse
    BY <1>2, <2>1, <2>4, <2>5 DEF Promise!Refuse, CachesSeen, AnswerSeen
  <2> QED
    BY <2>6
<1> QED
  BY <1>2, <1>5, <1>6

(* The host reads a pass, or an evaluation of a Newton step.                 *)
LEMMA ReadPromised ==
  ASSUME DeviceInv, ReadControl \/ CheckProbe \/ JudgeTrial \/ JudgeRestore
  PROVE  Promise!Next
<1>1. kernel = "fence" /\ entry' = << >> /\ answer' = Answered
  BY DEF ReadControl, CheckProbe, JudgeTrial, JudgeRestore
<1>2. /\ UNCHANGED <<state, precon, tcon, reference, vacuum>> /\ kernel' # "raised"
      /\ (IF pc = "fence" /\ valid /\ refreshing THEN record ELSE host)'
           = IF Rebuilt THEN state ELSE host
  <2>1. CASE ReadControl
    <3>1. /\ pc' = "fence" /\ (valid' = control.valid) /\ (refreshing' = schedule.refresh)
          /\ record' = control.norms /\ host' = host /\ kernel' = "idle"
          /\ UNCHANGED <<state, precon, tcon, reference, vacuum>>
      BY <2>1 DEF ReadControl, deviceCaches
    <3>2. control.norms = IF Rebuilt THEN state ELSE Unset
      BY <1>1, FenceIs
    <3> QED
      BY <3>1, <3>2 DEF Rebuilt
  <2>2. CASE CheckProbe \/ JudgeTrial
    <3>1. /\ Correcting /\ kernel' # "raised"
          /\ UNCHANGED <<host, record, refreshing, valid, pc, state, precon, tcon,
                         reference, vacuum>>
      BY <2>2 DEF CheckProbe, JudgeTrial, Correcting, vars, pass, deviceCaches
    <3>2. ~refreshing /\ ~schedule.refresh
      BY <3>1 DEF DeviceInv, StreamInv, FenceInv, ScheduleInv
    <3> QED
      BY <3>1, <3>2 DEF Rebuilt
  <2>3. CASE JudgeRestore
    <3>1. /\ Adopt /\ Correcting /\ ~refreshing
          /\ UNCHANGED <<host, record, refreshing, valid, pc, state, precon, tcon,
                         reference, vacuum>>
      BY <2>3, AdoptIs
    <3>2. ~schedule.refresh
      BY <3>1 DEF DeviceInv, ScheduleInv
    <3> QED
      BY <3>1, <3>2 DEF Rebuilt, Adopt
  <2> QED
    BY <2>1, <2>2, <2>3
<1> QED
  BY <1>1, <1>2, EvaluatedIs DEF Promise!Next

(* Between passes, with the numbers of the pass at the fence.                *)
NumbersKept ==
  /\ UNCHANGED <<precon, tcon, reference, vacuum, entry>>
  /\ entry = << >> /\ kernel' # "raised"
  /\ (IF pc = "fence" /\ valid /\ refreshing THEN record ELSE host)'
       = IF pc = "fence" /\ valid /\ refreshing THEN record ELSE host

LEMMA KeptSeen ==
  ASSUME NumbersKept PROVE CachesSeen' = CachesSeen /\ AnswerSeen' = answer'
<1>1. CachesNow' = CachesNow
  BY CachesSame DEF NumbersKept
<1> QED
  BY <1>1 DEF NumbersKept, CachesSeen, AnswerSeen

LEMMA NumbersAre ==
  ASSUME DeviceInv, DeviceInv',
         \/ Maintain \/ RejectGeometry \/ RecoverNonfinite \/ SoftRestart \/ Descend
         \/ ReturnToBase \/ AcceptTrial
  PROVE  NumbersKept
<1>1. entry = << >> /\ entry' = entry
  <2>1. "idle" \notin InFlight /\ "probed" \notin InFlight /\ "judged" \notin InFlight
    BY OutsideIs DEF Between
  <2>2. kernel \in {"idle", "probed", "judged"} /\ entry' = entry
    BY DEF Maintain, RejectGeometry, RecoverNonfinite, SoftRestart, Descend,
           ReturnToBase, AcceptTrial, RollBack, Deciding
  <2> QED
    BY <2>1, <2>2 DEF DeviceInv, StreamInv
<1>2. kernel' # "raised"
  BY DEF DeviceInv, HostTypes, InFlight, Between
<1>3. UNCHANGED <<precon, tcon, reference, vacuum>>
  BY DEF Maintain, RejectGeometry, RecoverNonfinite, SoftRestart, Descend,
         ReturnToBase, AcceptTrial, Adopt, RollBack, deviceCaches
<1>4. (IF pc = "fence" /\ valid /\ refreshing THEN record ELSE host)'
        = IF pc = "fence" /\ valid /\ refreshing THEN record ELSE host
  <2>1. CASE Maintain
    BY <2>1 DEF Maintain, MaintenanceReset
  <2>2. CASE RejectGeometry
    BY <2>2 DEF RejectGeometry, Reject
  <2>3. CASE RecoverNonfinite \/ Descend
    <3>1. Accept
      BY <2>3 DEF RecoverNonfinite, Descend
    <3> QED
      BY <3>1 DEF Accept
  <2>4. CASE SoftRestart
    BY <2>4 DEF SoftRestart, pass
  <2>5. CASE ReturnToBase
    BY <2>5 DEF ReturnToBase, vars, pass
  <2>6. CASE AcceptTrial
    BY <2>6, AdoptIs
  <2> QED
    BY <2>1, <2>2, <2>3, <2>4, <2>5, <2>6
<1> QED
  BY <1>1, <1>2, <1>3, <1>4 DEF NumbersKept

(* Another state takes the place of the one that was evaluated.              *)
LEMMA ReplacePromised ==
  ASSUME DeviceInv, DeviceInv',
         \/ Maintain \/ RejectGeometry \/ RecoverNonfinite \/ ReturnToBase
         \/ Probe \/ Trial \/ Restore
  PROVE  Promise!Next
<1>1. state' \in States
  BY DEF DeviceInv, HostTypes
<1>2. answer' = [kind |-> "unknown"]
  <2>1. CASE Maintain \/ RejectGeometry \/ RecoverNonfinite \/ ReturnToBase
    BY <2>1 DEF Maintain, RejectGeometry, RecoverNonfinite, ReturnToBase, RollBack,
                Unknown
  <2>2. CASE Probe \/ Trial \/ Restore
    BY <2>2, EvaluatingIs DEF Evaluating, Evaluates, Unknown
  <2> QED
    BY <2>1, <2>2
<1>3. CachesSeen' = CachesSeen /\ AnswerSeen' = answer'
  <2>1. CASE Maintain \/ RejectGeometry \/ RecoverNonfinite \/ ReturnToBase
    BY <2>1, NumbersAre, KeptSeen
  <2>2. CASE Probe \/ Trial \/ Restore
    <3>1. entry = << >> /\ entry' = <<Found>> /\ kernel' = "inverse"
      BY <2>2, EvaluatingIs DEF Evaluating, Evaluates
    <3> QED
      BY <3>1 DEF CachesSeen, AnswerSeen, Found
  <2> QED
    BY <2>1, <2>2
<1>4. Promise!Replace
  BY <1>1, <1>2, <1>3 DEF Promise!Replace, CachesSeen, AnswerSeen
<1> QED
  BY <1>4 DEF Promise!Next

(* Descent and the soft restart use the residual the host has read.          *)
LEMMA AnswerIs ==
  ASSUME DeviceInv, Deciding, valid
  PROVE  /\ AnswerSeen = answer /\ answer.residual = Slab
         /\ answer.kind = "residual" \/ answer.kind = "soft"
         /\ answer.kind = "residual" => residual.mhd = state
         /\ control.verdict = "none" => Slab.precon # None
         /\ coupling = "initialized" => Slab.edge # None
<1>1. pc = "fence" /\ kernel = "idle" /\ newton.phase \in {"none", "done"}
  BY DEF Deciding
<1>2. AnswerSeen = answer
  BY <1>1 DEF AnswerSeen
<1>3. /\ answer = [kind |-> "residual", residual |-> Slab, factors |-> control.used]
         \/ answer = [kind |-> "soft", residual |-> Slab]
      /\ ~Softened => ResidualOfState
      /\ control.verdict = "none" => Preconditioned(residual) \in Oriented
      /\ coupling = "initialized" => residual.edge # None
  BY <1>1 DEF DeviceInv, DecisionInv
<1>4. Slab.precon = Preconditioned(residual) /\ Slab.edge = residual.edge
  BY DEF Slab
<1>5. answer.kind = "residual" => residual.mhd = state
  BY <1>3 DEF Softened, ResidualOfState
<1> HIDE DEF Slab
<1>6. answer.residual = Slab /\ (answer.kind = "residual" \/ answer.kind = "soft")
  BY <1>3
<1> QED
  BY <1>2, <1>3, <1>4, <1>5, <1>6, DeviceAssumption

LEMMA DescendPromised ==
  ASSUME DeviceInv, DeviceInv', SoftRestart \/ Descend
  PROVE  Promise!Next
<1>1. state' \in States
  BY DEF DeviceInv, HostTypes
<1>2. CachesSeen' = CachesSeen /\ AnswerSeen' = answer'
  BY NumbersAre, KeptSeen
<1>3. Deciding /\ valid
  BY DEF SoftRestart, Descend, Accept
<1>4. Slab.mhd = residual.mhd
  BY DEF Slab
<1>5. CASE SoftRestart
  <2>1. /\ coupling = "initialized" /\ answer.kind = "residual"
        /\ answer' = [kind |-> "soft", residual |-> Slab]
    BY <1>5 DEF SoftRestart, SoftDue
  <2>2. Promise!SoftRestart
    BY <1>1, <1>2, <1>3, <2>1, AnswerIs
       DEF Promise!SoftRestart, CachesSeen, AnswerSeen
  <2> QED
    BY <2>2 DEF Promise!Next
<1>6. CASE Descend
  <2>1. /\ control.verdict = "none"
        /\ answer' = [kind |-> "descended", from |-> state, along |-> Slab]
    BY <1>6 DEF Descend, DescentStep
  <2>2. CASE answer.kind = "residual"
    <3>1. Promise!Descend
      BY <1>1, <1>2, <1>3, <1>4, <2>1, <2>2, AnswerIs
         DEF Promise!Descend, CachesSeen, AnswerSeen
    <3> QED
      BY <3>1 DEF Promise!Next
  <2>3. CASE answer.kind = "soft"
    <3>1. Promise!DescendSoftly
      BY <1>1, <1>2, <1>3, <2>1, <2>3, AnswerIs
         DEF Promise!DescendSoftly, CachesSeen, AnswerSeen
    <3> QED
      BY <3>1 DEF Promise!Next
  <2> QED
    BY <1>3, <2>2, <2>3, AnswerIs
<1> QED
  BY <1>5, <1>6

LEMMA QuietPromised ==
  ASSUME DeviceInv, DeviceInv', NEW gauge \in Shapes,
         \/ Launch(gauge) \/ InStream \/ ThrowInvalidStart \/ Converge \/ Prepare
         \/ AcceptTrial \/ UNCHANGED deviceVars
  PROVE  UNCHANGED <<state, CachesSeen, AnswerSeen>>
<1>1. "idle" \notin InFlight
  BY OutsideIs DEF Between
<1>2. kernel # "raised" /\ kernel' # "raised"
  BY DEF DeviceInv, HostTypes, InFlight, Between
<1>3. CASE Launch(gauge)
  <2>1. kernel = "idle" /\ entry' = <<Found>> /\ UNCHANGED <<state, answer>>
    BY <1>3 DEF Launch
  <2>2. entry = << >>
    BY <1>1, <2>1 DEF DeviceInv, StreamInv
  <2> QED
    BY <1>2, <2>1, <2>2 DEF CachesSeen, AnswerSeen, Found
<1>4. CASE InStream
  <2>1. kernel \in InFlight /\ UNCHANGED <<state, answer, entry>>
    BY <1>4, InStreamIs
  <2>2. entry # << >>
    BY <2>1 DEF DeviceInv, StreamInv
  <2> QED
    BY <1>2, <2>1, <2>2 DEF CachesSeen, AnswerSeen
<1>5. CASE AcceptTrial
  <2>1. UNCHANGED <<state, answer>>
    BY <1>5 DEF AcceptTrial, Adopt
  <2> QED
    BY <1>2, <1>5, <2>1, NumbersAre, KeptSeen DEF AnswerSeen
<1>6. CASE ThrowInvalidStart \/ Converge \/ Prepare \/ UNCHANGED deviceVars
  <2>1. UNCHANGED <<host, record, refreshing, valid, pc, state, precon, tcon, reference,
                    vacuum, answer, entry>>
    BY <1>6 DEF ThrowInvalidStart, Converge, Prepare, deviceVars, device, vars, pass,
                deviceCaches
  <2>2. CachesNow' = CachesNow
    BY <2>1, CachesSame
  <2> QED
    BY <1>2, <2>1, <2>2 DEF CachesSeen, AnswerSeen
<1> QED
  BY <1>3, <1>4, <1>5, <1>6

(* What the host reads is the residual of the stored state, made from the    *)
(* caches the pass found or rebuilt from that very state, whatever the       *)
(* buffers held before, however passes, probes, trials and rollbacks have    *)
(* followed each other.                                                      *)
THEOREM DeviceKeepsThePromise == DeviceSpec => EvaluationSpec
<1>1. DeviceInit => Promise!Init
  <2> SUFFICES ASSUME DeviceInit PROVE Promise!Init
    OBVIOUS
  <2>1. /\ state \in States /\ entry = << >> /\ kernel = "idle"
        /\ answer = [kind |-> "unknown"] /\ pc = "top" /\ host = Unset
        /\ precon = NoPrecon /\ tcon = None /\ reference = [of |-> None, decays |-> 0]
        /\ vacuum.factors = None
    BY DEF DeviceInit, Init, NoReference
  <2>2. CachesNow = [precon |-> None, tcon |-> None, factors |-> None,
                     reference |-> [of |-> None, decays |-> 0], vacuum |-> None]
    BY <2>1, ElementsIs DEF CachesNow
  <2> QED
    BY <2>1, <2>2 DEF Promise!Init
<1>2. DeviceInv /\ DeviceInv' /\ [DeviceNext]_deviceVars
        => [Promise!Next]_Promise!evars
  <2> SUFFICES ASSUME DeviceInv, DeviceInv', [DeviceNext]_deviceVars
               PROVE [Promise!Next]_Promise!evars
    OBVIOUS
  <2>1. ASSUME NEW gauge \in Shapes,
               \/ Launch(gauge) \/ InStream \/ ThrowInvalidStart \/ Converge \/ Prepare
               \/ AcceptTrial \/ UNCHANGED deviceVars
        PROVE  UNCHANGED Promise!evars
    BY <2>1, QuietPromised, PromiseQuiet
  <2>2. CASE ReadControl \/ CheckProbe \/ JudgeTrial \/ JudgeRestore
    BY <2>2, ReadPromised
  <2>3. CASE \/ Maintain \/ RejectGeometry \/ RecoverNonfinite \/ ReturnToBase
             \/ Probe \/ Trial \/ Restore
    BY <2>3, ReplacePromised
  <2>4. CASE SoftRestart \/ Descend
    BY <2>4, DescendPromised
  <2>5. AcceptTrial => UNCHANGED Promise!evars
    BY <2>1, DeviceAssumption
  <2> QED
    BY <2>1, <2>2, <2>3, <2>4, <2>5, DeviceNextIs
<1> QED
  BY <1>1, <1>2, DeviceInductive, PTL DEF DeviceSpec, EvaluationSpec, Promise!Spec

=============================================================================
