------------------------- MODULE BrowserPass_proofs -------------------------
(* What a pass of the browser solver leaves in its buffers, and what the     *)
(* host may believe of it, proved for any states, gauges and cadence.        *)
EXTENDS BrowserPass, TLAPS

-----------------------------------------------------------------------------
(* The inductive invariant.  Types first; what is in a buffer is said where  *)
(* it matters.                                                               *)
Spectral == [of : States, axis : BOOLEAN]
References == [of : States \cup {None}, decays : Nat]
Accurate == Oriented \cup {None}
StateHandles == {NoHandle, "descentState", "newtonTrial", "newtonBase"}

HostType ==
  [state : Spectral, velocity : {"zero", "unread"}, checkpoint : States,
   tcon : Accurate, reference : References, factors : Accurate,
   profiles : States \cup {None},
   vacuum : [boundary : Accurate, currents : Accurate, factors : Accurate]]

HandleType ==
  [iteration : StateHandles, descent : StateHandles,
   velocity : {NoHandle, "descentVelocity"}, residual : {NoHandle, "applied"},
   elements : {NoHandle, "acceptedElements"},
   matrix : {NoHandle, "acceptedMatrix"},
   reference : {NoHandle, "acceptedReference"}]

TypeOK ==
  /\ DOMAIN gpu = Labels /\ DOMAIN read = Readbacks
  /\ host \in HostType /\ handle \in HandleType
  /\ deferred \in {NoDeferred} \cup
                    [of : States, keep : BOOLEAN, refresh : BOOLEAN]
  /\ epoch \in [first : BOOLEAN, fresh : BOOLEAN, age : Nat]
  /\ vac \in [run : BOOLEAN, full : BOOLEAN, decay : BOOLEAN, edge : BOOLEAN,
              resident : BOOLEAN]
  /\ coupling \in {"fixed", "off", "initializing", "initialized", "active"}
  /\ ~Free => ~vac.run /\ ~vac.decay /\ ~vac.edge
  /\ pc \in {"run", "mapped", "geometry", "accept", "classify", "decide",
             "solve", "trial", "tried", "rejected", "stopped", "failed"}

(* The state that the next evaluation starts from.                           *)
Current == Transferred(gpu, handle.iteration, host.state).of

(* Where the state and its momentum are.                                     *)
CopiesInv ==
  /\ deferred # NoDeferred => pc \in {"run", "mapped"}
  /\ deferred # NoDeferred /\ deferred.keep =>
       /\ handle.iteration = "descentState" /\ handle.descent = "descentState"
       /\ handle.velocity = "descentVelocity" /\ ~epoch.first
       /\ gpu["descentState"] = [of |-> deferred.of, axis |-> FALSE]
  /\ deferred # NoDeferred /\ ~deferred.keep =>
       /\ handle.iteration = NoHandle /\ handle.descent = NoHandle
       /\ host.velocity = "zero" /\ host.state.of = host.checkpoint
  /\ deferred = NoDeferred =>
       /\ handle.iteration \in {NoHandle, handle.descent}
       /\ handle.descent # NoHandle => gpu[handle.descent].of = host.state.of
       /\ pc \in {"run", "mapped", "solve", "trial", "tried"} \/ ~newton.tried
            => /\ handle.iteration = NoHandle
               /\ handle.descent \in {NoHandle, "descentState"}
  /\ handle.velocity # NoHandle =>
       /\ handle.descent # NoHandle
       /\ gpu["descentVelocity"] = gpu[handle.descent].of
  /\ handle.velocity = NoHandle => host.velocity = "zero"
  /\ pc = "mapped" => ~newton.tried

(* What was accepted.                                                        *)
CachesInv ==
  /\ handle.elements # NoHandle =>
       /\ handle.matrix = "acceptedMatrix"
       /\ gpu["acceptedElements"] \in Oriented
       /\ gpu["acceptedMatrix"] = gpu["acceptedElements"]
       /\ host.tcon \in Oriented /\ host.factors \in Oriented
  /\ handle.elements = NoHandle => handle.matrix = NoHandle
  /\ handle.reference # NoHandle => gpu["acceptedReference"] \in References

(* The case in flight is made of what the host had.                          *)
CaseFields ==
  {"state", "device", "refresh", "reset", "gauge", "lcfs", "readback", "rows",
   "elements", "matrix", "reference", "deviceReference", "tcon"}

CaseInv ==
  pc \in {"mapped", "geometry", "accept", "solve", "trial", "tried"} =>
    /\ DOMAIN case = CaseFields
    /\ case.elements = handle.elements /\ case.matrix = handle.matrix
    /\ case.tcon = host.tcon /\ case.reference = FadedReference(vac)
    /\ case.deviceReference = IF Free THEN NoHandle ELSE handle.reference
    /\ case.readback = IF Free THEN "slices" ELSE "finite"
    /\ case.rows = (Free /\ ~vac.resident)
    /\ pc # "geometry" => case.lcfs = (Free /\ vac.edge)
    /\ ~Free => ~case.lcfs
    /\ case.refresh \in BOOLEAN /\ case.reset \in BOOLEAN /\ case.gauge \in Gauges
    /\ ~case.refresh => handle.elements # NoHandle
    /\ Free => case.refresh = Refreshing

-----------------------------------------------------------------------------
(* What an evaluation of a state leaves in the buffers and in what is read.  *)
FieldOf(s) ==
  LET once == IF EvolveCurrent THEN s ELSE None
  IN  [bsup |-> [of |-> s, chi |-> once], bsub |-> once]

Forces(s, edge) == [mhd |-> s, edge |-> edge, constraint |-> None]

Measure(s, reference, tcon, edge, gauge) ==
  [mhd |-> s, edge |-> edge,
   constraint |-> [gCon |-> [eff |-> [geometry |-> s, reference |-> reference],
                             tcon |-> tcon],
                   geometry |-> s, reference |-> reference],
   odd |-> "scaled", gauge |-> gauge, precon |-> None]

Solved(residual, precon) == [residual EXCEPT !.precon = precon]

EvaluatedPrefix(g, r, in, s) ==
  /\ g["inverse"] = s /\ g["base"] = s /\ g["field"] = FieldOf(s)
  /\ r["validity"] = s
  /\ r["profiles"] = IF EvolveCurrent THEN s ELSE None
  /\ in.refresh => r["base"] = s
  /\ in.refresh \/ in.readback # "finite" => r["field"] = s
  /\ in.readback # "finite" => r["inverse"] = s

ReferenceOf(g, in, s) ==
  IF in.reset THEN [of |-> s, decays |-> 0]
  ELSE Transferred(g, in.deviceReference, in.reference)

MultiplierOf(in, s) == IF in.refresh THEN s ELSE in.tcon

PreconOf(g, in, s) == IF in.refresh THEN s ELSE g["acceptedElements"]

ResidualOf(g, in, s, edge) ==
  Measure(s, ReferenceOf(g, in, s), MultiplierOf(in, s), edge, in.gauge)

EvaluatedSuffix(g, r, in, s, edge) ==
  /\ g["head"].reference = ReferenceOf(g, in, s)
  /\ g["applied"] = Solved(ResidualOf(g, in, s, edge), PreconOf(g, in, s))
  /\ in.refresh => g["elements"] = s /\ g["matrix"] = s
  /\ r["invariant"] = ResidualOf(g, in, s, edge)
  /\ r["applied"] = g["applied"]
  /\ r["tcon"] = MultiplierOf(in, s)
  /\ IF in.readback # "finite" THEN r["reference"] = ReferenceOf(g, in, s)
     ELSE r["reference"] \in {ReferenceOf(g, in, s), None}

Edge(s) == IF Free /\ vac.edge THEN [pressure |-> host.vacuum, on |-> s] ELSE None

EvaluatedInv ==
  /\ pc \in {"mapped", "geometry"} =>
       /\ EvaluatedPrefix(gpu, read, case, Current)
       /\ IF Free THEN /\ gpu["force"] = Forces(Current, None)
                       /\ case.rows => read["force"] = Forces(Current, None)
          ELSE EvaluatedSuffix(gpu, read, case, Current, None)
  /\ pc = "accept" =>
       /\ Free /\ Current \in Oriented
       /\ EvaluatedPrefix(gpu, read, case, Current)
       /\ EvaluatedSuffix(gpu, read, case, Current, Edge(Current))

-----------------------------------------------------------------------------
(* What the host has made of it.                                             *)
AnswerInv ==
  /\ pc = "classify" =>
       /\ answer = [kind |-> "residual", residual |-> gpu["applied"],
                    factors |-> host.factors]
       /\ gpu["applied"].mhd = host.state.of /\ host.state.of \in Oriented
       /\ gpu["applied"].precon \in Oriented
       /\ coupling = "initialized" => gpu["applied"].edge # None
       /\ handle.elements # NoHandle /\ case.gauge \in Gauges
       /\ ~Free =>
            /\ handle.reference # NoHandle
            /\ read["invariant"] =
                 Measure(host.state.of, gpu["acceptedReference"], host.tcon,
                         None, case.gauge)
  /\ pc = "decide" =>
       /\ answer = [kind |-> "soft", residual |-> gpu["applied"]]
       /\ gpu["applied"].precon \in Oriented
       /\ Free
  /\ pc \in {"classify", "stopped"} /\ EvolveCurrent /\ answer.kind = "residual"
       => host.profiles = host.state.of

(* A Newton step has the base, on both sides, and the residual to come back  *)
(* to; a trial has been evaluated like any other state.                      *)
NewtonInv ==
  /\ pc \in {"solve", "trial", "tried"} =>
       /\ ~Free /\ ~case.refresh /\ ~case.reset /\ case.gauge = "fixed"
       /\ newton \in [tried : {TRUE}, trial : Nat, before : {newton.before}]
       /\ newton.before = Measure(host.state.of, gpu["acceptedReference"],
                                  host.tcon, None, "fixed")
       /\ handle.reference # NoHandle
       /\ host.state.of \in Oriented
       /\ gpu["newtonBase"] = [of |-> host.state.of, axis |-> host.state.axis]
  /\ pc = "tried" =>
       /\ gpu[TrialHandle] \in Spectral
       /\ EvaluatedPrefix(gpu, read, case, gpu[TrialHandle].of)
       /\ EvaluatedSuffix(gpu, read, case, gpu[TrialHandle].of, None)

(* Nothing moves before the first descent; a pressure that is pushed again   *)
(* without an update of the vacuum is that of the same boundary.             *)
VacuumInv ==
  Free =>
    /\ epoch.first =>
         /\ host.state.of = host.checkpoint
         /\ handle.iteration = NoHandle /\ handle.descent = NoHandle
         /\ coupling # "initializing"
    /\ epoch.first /\ vac.edge =>
         host.vacuum \in [boundary : {host.state.of}, currents : {host.state.of},
                          factors : Oriented]
    /\ pc \in {"mapped", "geometry"} =>
         /\ vac.run /\ ~vac.full => host.vacuum.factors # None
         /\ coupling = "initialized" => vac.run
         /\ ~vac.run => epoch.first
    /\ pc \in {"accept", "classify"} /\ coupling = "initialized" => vac.edge

(* The vacuum update of this pass is all that separates the caches from what *)
(* they were when it began.                                                  *)
EntryInv ==
  /\ pc # "accept" /\ pc # "failed" => entry = <<>>
  /\ pc = "accept" =>
       \E before \in Accurate :
         /\ entry = <<[CachesNow EXCEPT !.vacuum = before]>>
         /\ host.vacuum.factors \in {before, host.state.of}
         /\ vac.edge => host.vacuum = [boundary |-> host.state.of,
                                       currents |-> host.state.of,
                                       factors |-> host.vacuum.factors]
                        /\ host.vacuum.factors \in Oriented

IInv ==
  /\ TypeOK /\ CopiesInv /\ CachesInv /\ CaseInv /\ EvaluatedInv /\ AnswerInv
  /\ NewtonInv /\ VacuumInv /\ EntryInv

-----------------------------------------------------------------------------
(* What the operators write and read back.                                   *)
IsQueue(q) ==
  /\ q = [gpu |-> q.gpu, read |-> q.read]
  /\ DOMAIN q.gpu = Labels /\ DOMAIN q.read = Readbacks

LEMMA WroteIs ==
  ASSUME NEW q, IsQueue(q), NEW label \in Labels, NEW content
  PROVE  /\ IsQueue(Wrote(q, label, content))
         /\ Wrote(q, label, content).read = q.read
         /\ Wrote(q, label, content).gpu[label] = content
         /\ \A other \in Labels \ {label} :
              Wrote(q, label, content).gpu[other] = q.gpu[other]
<1> DEFINE g == [q.gpu EXCEPT ![label] = content]
<1>1. Wrote(q, label, content) = [gpu |-> g, read |-> q.read]
  BY DEF Wrote, IsQueue
<1>2. DOMAIN g = Labels /\ g[label] = content
  BY DEF IsQueue
<1>3. \A other \in Labels \ {label} : g[other] = q.gpu[other]
  BY DEF IsQueue
<1> QED
  BY <1>1, <1>2, <1>3 DEF IsQueue

LEMMA AppendedIs ==
  ASSUME NEW q, IsQueue(q), NEW name \in Readbacks, NEW content
  PROVE  /\ IsQueue(Appended(q, name, content))
         /\ Appended(q, name, content).gpu = q.gpu
         /\ Appended(q, name, content).read[name] = content
         /\ \A other \in Readbacks \ {name} :
              Appended(q, name, content).read[other] = q.read[other]
<1> DEFINE r == [q.read EXCEPT ![name] = content]
<1>1. Appended(q, name, content) = [gpu |-> q.gpu, read |-> r]
  BY DEF Appended, IsQueue
<1>2. DOMAIN r = Readbacks /\ r[name] = content
  BY DEF IsQueue
<1>3. \A other \in Readbacks \ {name} : r[other] = q.read[other]
  BY DEF IsQueue
<1> QED
  BY <1>1, <1>2, <1>3 DEF IsQueue

LEMMA QueueIs ==
  ASSUME NEW g, DOMAIN g = Labels
  PROVE  /\ IsQueue(Queue(g)) /\ Queue(g).gpu = g
         /\ \A name \in Readbacks : Queue(g).read[name] = None
  BY DEF Queue, IsQueue

(* Several sources that are the same one.                                    *)
LEMMA FromOne ==
  ASSUME NEW s
  PROVE  From({s}) = s /\ From({s, s}) = s /\ From({s, s, s}) = s
<1>1. ASSUME NEW S, S = {s} PROVE From(S) = s
  BY <1>1 DEF From
<1> QED
  BY <1>1

(* The spectral state, synthesized on the collocation planes.                *)
LEMMA InverseIs ==
  ASSUME NEW q, IsQueue(q), NEW label, NEW state, NEW readback
  PROVE  LET p == EnqueueToroidalInverse(q, label, state, readback)
         IN  /\ IsQueue(p)
             /\ p.gpu["inverse"] = InverseInput(q.gpu, label, state)
             /\ \A l \in Labels \ Inverse : p.gpu[l] = q.gpu[l]
             /\ readback # "finite" => p.read["inverse"] = p.gpu["inverse"]
             /\ \A n \in Readbacks \ {"inverse"} : p.read[n] = q.read[n]
<1> DEFINE coeff == InverseInput(q.gpu, label, state)
           a == ToroidalStage(q, coeff)
           b == PoloidalStage(a)
           p == InverseReadback(b, readback)
<1>1. {"spectra", "inverse"} \subseteq Labels /\ "inverse" \in Readbacks
  BY DEF Labels, Inverse, Readbacks
<1> HIDE DEF coeff
<1>2. /\ IsQueue(a) /\ a.read = q.read /\ a.gpu["spectra"] = coeff
      /\ \A l \in Labels \ {"spectra"} : a.gpu[l] = q.gpu[l]
  BY <1>1, WroteIs DEF ToroidalStage
<1> HIDE DEF a
<1>3. /\ IsQueue(b) /\ b.read = a.read /\ b.gpu["inverse"] = coeff
      /\ \A l \in Labels \ {"inverse"} : b.gpu[l] = a.gpu[l]
  BY <1>1, <1>2, WroteIs DEF PoloidalStage
<1> HIDE DEF b
<1>4. /\ IsQueue(p) /\ p.gpu = b.gpu
      /\ readback # "finite" => p.read["inverse"] = p.gpu["inverse"]
      /\ \A n \in Readbacks \ {"inverse"} : p.read[n] = b.read[n]
  BY <1>1, <1>3, AppendedIs DEF InverseReadback
<1>5. \A l \in Labels \ Inverse : p.gpu[l] = q.gpu[l]
  BY <1>2, <1>3, <1>4 DEF Inverse
<1>6. p = EnqueueToroidalInverse(q, label, state, readback)
  BY DEF EnqueueToroidalInverse, a, b, coeff
<1> HIDE DEF p
<1> QED
  BY <1>2, <1>3, <1>4, <1>5, <1>6 DEF coeff

(* The geometry on the half grid, and what the gate reads of it.             *)
LEMMA GeometryIs ==
  ASSUME NEW q, IsQueue(q), NEW readback
  PROVE  LET p == EnqueueBaseGeometry(q, readback)
         IN  /\ IsQueue(p) /\ p.gpu["base"] = q.gpu["inverse"]
             /\ \A l \in Labels \ {"base"} : p.gpu[l] = q.gpu[l]
             /\ p.read["validity"] = q.gpu["inverse"]
             /\ readback = "full" => p.read["base"] = q.gpu["inverse"]
             /\ \A n \in Readbacks \ {"validity", "base"} : p.read[n] = q.read[n]
<1> DEFINE a == BaseGeometryPass(q)
           b == Appended(a, "validity", a.gpu["base"])
           p == IF readback = "full" THEN Appended(b, "base", a.gpu["base"]) ELSE b
<1>1. "base" \in Labels /\ {"validity", "base"} \subseteq Readbacks
  BY DEF Labels, Fields, Readbacks
<1>2. /\ IsQueue(a) /\ a.gpu["base"] = q.gpu["inverse"] /\ a.read = q.read
      /\ \A l \in Labels \ {"base"} : a.gpu[l] = q.gpu[l]
  BY <1>1, WroteIs DEF BaseGeometryPass
<1> HIDE DEF a
<1>3. /\ IsQueue(b) /\ b.gpu = a.gpu /\ b.read["validity"] = a.gpu["base"]
      /\ \A n \in Readbacks \ {"validity"} : b.read[n] = a.read[n]
  BY <1>1, <1>2, AppendedIs
<1> HIDE DEF b
<1>4. /\ IsQueue(p) /\ p.gpu = a.gpu
      /\ readback = "full" => p.read["base"] = a.gpu["base"]
      /\ \A n \in Readbacks \ {"base"} : p.read[n] = b.read[n]
  BY <1>1, <1>3, AppendedIs
<1>5. p = EnqueueBaseGeometry(q, readback)
  BY <1>2, <1>3 DEF EnqueueBaseGeometry, GeometryReadback, a, b
<1> HIDE DEF p
<1> QED
  BY <1>1, <1>2, <1>3, <1>4, <1>5

(* The field, found consistently where geometry and state are of one source. *)
LEMMA FieldIs ==
  ASSUME NEW q, IsQueue(q), NEW readback, NEW s,
         q.gpu["inverse"] = s, q.gpu["base"] = s
  PROVE  LET p == EnqueueMagneticField(q, readback)
         IN  /\ IsQueue(p) /\ p.gpu["field"] = FieldOf(s)
             /\ \A l \in Labels \ {"field"} : p.gpu[l] = q.gpu[l]
             /\ p.read["profiles"] = IF EvolveCurrent THEN s ELSE None
             /\ readback # "finite" => p.read["field"] = s
             /\ \A n \in Readbacks \ {"profiles", "field"} : p.read[n] = q.read[n]
<1> DEFINE first == FieldPass(q.gpu)
           field == IF EvolveCurrent THEN FinalizeFields(q.gpu, first) ELSE first
           a == Wrote(q, "field", field)
           b == Appended(a, "profiles", a.gpu["field"].bsup.chi)
           p == IF readback = "finite" THEN b
                ELSE Appended(b, "field", WholeField(a.gpu["field"]))
<1>1. "field" \in Labels /\ {"profiles", "field"} \subseteq Readbacks
  BY DEF Labels, Fields, Readbacks
<1>2. first = [bsup |-> [of |-> s, chi |-> None], bsub |-> None]
  BY FromOne DEF FieldPass
<1>3. first.bsup = [of |-> s, chi |-> None] /\ first.bsup.of = s
  BY <1>2
<1> HIDE DEF first
<1>4. FinalizeFields(q.gpu, first)
        = [bsup |-> [of |-> s, chi |-> s], bsub |-> s]
  <2>1. FinalizeCurrent(q.gpu, first) = s
    BY <1>3, FromOne DEF FinalizeCurrent
  <2>2. From({first.bsup.of, s, q.gpu.base}) = s
    BY <1>3, FromOne
  <2>3. [first.bsup EXCEPT !.chi = Added(@, s)] = [of |-> s, chi |-> s]
    BY <1>3 DEF Added
  <2> QED
    BY <2>1, <2>2, <2>3 DEF FinalizeFields
<1>5. field = FieldOf(s)
  BY <1>2, <1>4 DEF FieldOf
<1>6. WholeField(FieldOf(s)) = s
  BY FromOne DEF WholeField, FieldOf
<1> HIDE DEF first, field
<1>7. /\ IsQueue(a) /\ a.gpu["field"] = FieldOf(s) /\ a.read = q.read
      /\ \A l \in Labels \ {"field"} : a.gpu[l] = q.gpu[l]
  BY <1>1, <1>5, WroteIs
<1>8. p = EnqueueMagneticField(q, readback)
  <2>1. b.gpu = a.gpu
    BY <1>1, <1>7, AppendedIs
  <2> QED
    BY <2>1 DEF EnqueueMagneticField, MagneticReadback, first, field
<1> HIDE DEF a
<1>9. /\ IsQueue(b) /\ b.gpu = a.gpu
      /\ b.read["profiles"] = IF EvolveCurrent THEN s ELSE None
      /\ \A n \in Readbacks \ {"profiles"} : b.read[n] = a.read[n]
  <2>1. a.gpu["field"].bsup.chi = IF EvolveCurrent THEN s ELSE None
    BY <1>7 DEF FieldOf
  <2> QED
    BY <1>1, <1>7, <2>1, AppendedIs
<1> HIDE DEF b
<1>10. /\ IsQueue(p) /\ p.gpu = a.gpu
       /\ readback # "finite" => p.read["field"] = s
       /\ \A n \in Readbacks \ {"field"} : p.read[n] = b.read[n]
  BY <1>1, <1>6, <1>7, <1>9, AppendedIs
<1> HIDE DEF p
<1> QED
  BY <1>1, <1>7, <1>8, <1>9, <1>10

LEMMA ForceIs ==
  ASSUME NEW q, IsQueue(q), NEW rows, NEW s,
         q.gpu["inverse"] = s, q.gpu["base"] = s, q.gpu["field"] = FieldOf(s)
  PROVE  LET p == EnqueueForce(q, rows)
         IN  /\ IsQueue(p) /\ p.gpu["force"] = Forces(s, None)
             /\ \A l \in Labels \ {"force"} : p.gpu[l] = q.gpu[l]
             /\ rows => p.read["force"] = Forces(s, None)
             /\ \A n \in Readbacks \ {"force"} : p.read[n] = q.read[n]
<1> DEFINE a == ForcePass(q)
           p == IF rows THEN Appended(a, "force", a.gpu["force"]) ELSE a
<1>1. "force" \in Labels /\ "force" \in Readbacks
  BY DEF Labels, Fields, Readbacks
<1>2. From({q.gpu.inverse, q.gpu.base, WholeField(q.gpu.field)}) = s
  <2>1. WholeField(FieldOf(s)) = s
    BY FromOne DEF WholeField, FieldOf
  <2> QED
    BY <2>1, FromOne
<1>3. /\ IsQueue(a) /\ a.gpu["force"] = Forces(s, None) /\ a.read = q.read
      /\ \A l \in Labels \ {"force"} : a.gpu[l] = q.gpu[l]
  BY <1>1, <1>2, WroteIs DEF ForcePass, Forces
<1>4. p = EnqueueForce(q, rows)
  BY DEF EnqueueForce, ForceReadback
<1> HIDE DEF a
<1>5. /\ IsQueue(p) /\ p.gpu = a.gpu
      /\ rows => p.read["force"] = Forces(s, None)
      /\ \A n \in Readbacks \ {"force"} : p.read[n] = q.read[n]
  BY <1>1, <1>3, AppendedIs
<1> HIDE DEF p
<1> QED
  BY <1>3, <1>4, <1>5

(* Up to the forces, an evaluation is of the state it starts from.           *)
Scratch == Projections \cup Constraints \cup Preconditioners
SuffixReads == {"projection", "invariant", "tcon", "reference", "applied"}

PrefixDone(p, q, in, s) ==
  /\ IsQueue(p) /\ EvaluatedPrefix(p.gpu, p.read, in, s)
  /\ p.gpu["force"] = Forces(s, None)
  /\ in.rows => p.read["force"] = Forces(s, None)
  /\ \A l \in Labels \ (Inverse \cup Fields) : p.gpu[l] = q.gpu[l]
  /\ \A n \in Readbacks \ PrefixReadbacks : p.read[n] = q.read[n]

LEMMA PrefixIs ==
  ASSUME NEW q, IsQueue(q), NEW in, NEW s,
         s = InverseInput(q.gpu, in.device, in.state)
  PROVE  PrefixDone(Prefix(q, in), q, in, s)
<1> DEFINE a == Start(q, in)
           b == Geometry(a, in)
           c == Magnetic(b, in)
           p == EnqueueForce(c, in.rows)
<1>1. /\ {"inverse", "base", "field", "force"} \subseteq Labels
      /\ "inverse" \notin {"base", "field", "force"}
  BY DEF Labels, Inverse, Fields
<1>2. /\ IsQueue(a) /\ a.gpu["inverse"] = s
      /\ \A l \in Labels \ Inverse : a.gpu[l] = q.gpu[l]
      /\ in.readback # "finite" => a.read["inverse"] = s
      /\ \A n \in Readbacks \ {"inverse"} : a.read[n] = q.read[n]
  BY InverseIs DEF Start
<1> HIDE DEF a
<1>3. /\ IsQueue(b) /\ b.gpu["base"] = s
      /\ \A l \in Labels \ {"base"} : b.gpu[l] = a.gpu[l]
      /\ b.read["validity"] = s
      /\ Compact(in) = "full" => b.read["base"] = s
      /\ \A n \in Readbacks \ {"validity", "base"} : b.read[n] = a.read[n]
  BY <1>2, GeometryIs DEF Geometry
<1> HIDE DEF b
<1>4. b.gpu["inverse"] = s
  BY <1>1, <1>2, <1>3
<1>5. /\ IsQueue(c) /\ c.gpu["field"] = FieldOf(s)
      /\ \A l \in Labels \ {"field"} : c.gpu[l] = b.gpu[l]
      /\ c.read["profiles"] = IF EvolveCurrent THEN s ELSE None
      /\ Compact(in) # "finite" => c.read["field"] = s
      /\ \A n \in Readbacks \ {"profiles", "field"} : c.read[n] = b.read[n]
  BY <1>3, <1>4, FieldIs DEF Magnetic
<1> HIDE DEF c
<1>6. c.gpu["inverse"] = s /\ c.gpu["base"] = s
  BY <1>1, <1>3, <1>4, <1>5
<1>7. /\ IsQueue(p) /\ p.gpu["force"] = Forces(s, None)
      /\ \A l \in Labels \ {"force"} : p.gpu[l] = c.gpu[l]
      /\ in.rows => p.read["force"] = Forces(s, None)
      /\ \A n \in Readbacks \ {"force"} : p.read[n] = c.read[n]
  BY <1>5, <1>6, ForceIs
<1> HIDE DEF p
<1>8. p.gpu["inverse"] = s /\ p.gpu["base"] = s /\ p.gpu["field"] = FieldOf(s)
  BY <1>1, <1>5, <1>6, <1>7
<1>9. /\ p.read["validity"] = s
      /\ p.read["profiles"] = IF EvolveCurrent THEN s ELSE None
      /\ Compact(in) = "full" => p.read["base"] = s
      /\ Compact(in) # "finite" => p.read["field"] = s
      /\ in.readback # "finite" => p.read["inverse"] = s
  <2>1. /\ {"validity", "profiles", "base", "field", "inverse"} \subseteq Readbacks
    BY DEF Readbacks
  <2> QED
    BY <1>2, <1>3, <1>5, <1>7, <2>1
<1>10. EvaluatedPrefix(p.gpu, p.read, in, s)
  BY <1>8, <1>9 DEF EvaluatedPrefix, Compact
<1>11. \A l \in Labels \ (Inverse \cup Fields) : p.gpu[l] = q.gpu[l]
  BY <1>2, <1>3, <1>5, <1>7 DEF Inverse, Fields
<1>13. \A n \in Readbacks \ PrefixReadbacks : p.read[n] = q.read[n]
  BY <1>2, <1>3, <1>5, <1>7 DEF PrefixReadbacks
<1>12. p = Prefix(q, in)
  BY DEF Prefix, p, c, b, a
<1> QED
  BY <1>7, <1>10, <1>11, <1>12, <1>13 DEF PrefixDone

-----------------------------------------------------------------------------
(* The projections of the forces, without the constraint or with it.         *)
Projected(in, force) ==
  [mhd |-> force.mhd, edge |-> IF in.lcfs THEN force.edge ELSE None,
   constraint |-> force.constraint, odd |-> None, gauge |-> None, precon |-> None]

Decomposed(residual, gauge) ==
  [residual EXCEPT !.odd = Added(@, "scaled"), !.gauge = Added(@, gauge)]

LEMMA ForwardIs ==
  ASSUME NEW q, IsQueue(q), NEW source, NEW in
  PROVE  LET p == ForwardPhase(q, in, source)
         IN  /\ IsQueue(p) /\ p.read = q.read
             /\ p.gpu["residual"] =
                  Projected(in, q.gpu[source])
             /\ \A l \in Labels \ {"forwardSpectra", "residual"} :
                  p.gpu[l] = q.gpu[l]
<1> DEFINE a == ForwardToroidal(q, source)
           p == ForwardPoloidal(a, in.lcfs)
<1>1. {"forwardSpectra", "residual"} \subseteq Labels
  BY DEF Labels, Projections
<1>2. /\ IsQueue(a) /\ a.read = q.read /\ a.gpu["forwardSpectra"] = q.gpu[source]
      /\ \A l \in Labels \ {"forwardSpectra"} : a.gpu[l] = q.gpu[l]
  BY <1>1, WroteIs DEF ForwardToroidal
<1> HIDE DEF a
<1>3. /\ IsQueue(p) /\ p.read = a.read
      /\ p.gpu["residual"] =
                  Projected(in, a.gpu["forwardSpectra"])
      /\ \A l \in Labels \ {"residual"} : p.gpu[l] = a.gpu[l]
  BY <1>1, <1>2, WroteIs DEF ForwardPoloidal, Projected
<1>4. p = ForwardPhase(q, in, source)
  BY DEF ForwardPhase, EnqueueToroidalForward, a
<1> HIDE DEF p
<1> QED
  BY <1>2, <1>3, <1>4

LEMMA DecompositionIs ==
  ASSUME NEW q, IsQueue(q), NEW phase \in Readbacks, NEW gauge, NEW in
  PROVE  LET p == EnqueueDecomposition(q, phase, gauge, HostNorms(in))
         IN  /\ IsQueue(p)
             /\ p.gpu["decomposed"] =
                  Decomposed(q.gpu["residual"], gauge)
             /\ \A l \in Labels \ {"decomposed"} : p.gpu[l] = q.gpu[l]
             /\ HostNorms(in) => p.read[phase] = p.gpu["decomposed"]
             /\ \A n \in Readbacks \ {phase} : p.read[n] = q.read[n]
<1> DEFINE a == DecompositionPass(q, gauge)
           p == IF HostNorms(in) THEN Appended(a, phase, a.gpu["decomposed"]) ELSE a
<1>1. "decomposed" \in Labels
  BY DEF Labels, Projections
<1>2. /\ IsQueue(a) /\ a.read = q.read
      /\ a.gpu["decomposed"] =
                  Decomposed(q.gpu["residual"], gauge)
      /\ \A l \in Labels \ {"decomposed"} : a.gpu[l] = q.gpu[l]
  BY <1>1, WroteIs DEF DecompositionPass, Decomposed
<1>3. p = EnqueueDecomposition(q, phase, gauge, HostNorms(in))
  BY DEF EnqueueDecomposition, DecompositionReadback
<1> HIDE DEF a
<1>4. /\ IsQueue(p) /\ p.gpu = a.gpu
      /\ HostNorms(in) => p.read[phase] = a.gpu["decomposed"]
      /\ \A n \in Readbacks \ {phase} : p.read[n] = a.read[n]
  BY <1>2, AppendedIs
<1> HIDE DEF p
<1> QED
  BY <1>2, <1>3, <1>4

LEMMA NormIs ==
  ASSUME NEW q, IsQueue(q), NEW in, NEW source,NEW phase \in Readbacks,
         source # "norm", source \in Labels
  PROVE  LET p == Norm(q, in, source, phase)
         IN  /\ IsQueue(p)
             /\ \A l \in Labels \ {"norm"} : p.gpu[l] = q.gpu[l]
             /\ p.read[phase] = IF in.readback = "slices" THEN q.read[phase] ELSE q.gpu[source]
             /\ \A n \in Readbacks \ {phase} : p.read[n] = q.read[n]
<1> DEFINE a == Wrote(q, "norm", q.gpu[source])
           p == Appended(a, phase, q.gpu[source])
<1>1. "norm" \in Labels
  BY DEF Labels, Projections
<1>2. /\ IsQueue(a) /\ a.read = q.read
      /\ \A l \in Labels \ {"norm"} : a.gpu[l] = q.gpu[l]
  BY <1>1, WroteIs
<1>3. p = EnqueueResidualNorm(q, source, phase)
  BY DEF EnqueueResidualNorm
<1> HIDE DEF a
<1>4. /\ IsQueue(p) /\ p.gpu = a.gpu /\ p.read[phase] = q.gpu[source]
      /\ \A n \in Readbacks \ {phase} : p.read[n] = a.read[n]
  BY <1>2, AppendedIs
<1> HIDE DEF p
<1> QED
  BY <1>2, <1>3, <1>4 DEF Norm, HostNorms

(* The phase that only measures the forces leaves what the rest needs.       *)
LEMMA ForcePhaseIs ==
  ASSUME NEW q, IsQueue(q), NEW in
  PROVE  LET p == ForcePhase(q, in)
         IN  /\ IsQueue(p)
             /\ \A l \in Labels \ Projections : p.gpu[l] = q.gpu[l]
             /\ \A n \in Readbacks \ {"projection"} : p.read[n] = q.read[n]
<1> DEFINE a == ForwardPhase(q, in, "force")
           b == EnqueueDecomposition(a, "projection", "fixed", HostNorms(in))
           p == Norm(b, in, "decomposed", "projection")
<1>1. /\ "decomposed" \in Labels /\ "projection" \in Readbacks
      /\ {"forwardSpectra", "residual", "decomposed", "norm"} \subseteq Projections
      /\ "decomposed" # "norm"
  BY DEF Labels, Projections, Readbacks
<1>2. /\ IsQueue(a) /\ a.read = q.read
      /\ \A l \in Labels \ Projections : a.gpu[l] = q.gpu[l]
  BY <1>1, ForwardIs
<1> HIDE DEF a
<1>3. /\ IsQueue(b)
      /\ \A l \in Labels \ Projections : b.gpu[l] = a.gpu[l]
      /\ \A n \in Readbacks \ {"projection"} : b.read[n] = a.read[n]
  BY <1>1, <1>2, DecompositionIs
<1>4. p = ForcePhase(q, in)
  BY DEF ForcePhase, a
<1> HIDE DEF b
<1>5. /\ IsQueue(p)
      /\ \A l \in Labels \ Projections : p.gpu[l] = b.gpu[l]
      /\ \A n \in Readbacks \ {"projection"} : p.read[n] = b.read[n]
  <2>1. /\ IsQueue(p)
        /\ \A l \in Labels \ {"norm"} : p.gpu[l] = b.gpu[l]
        /\ \A n \in Readbacks \ {"projection"} : p.read[n] = b.read[n]
    BY <1>1, <1>3, NormIs
  <2> HIDE DEF p
  <2> QED
    BY <1>1, <2>1
<1> HIDE DEF p
<1> QED
  BY <1>2, <1>3, <1>4, <1>5

-----------------------------------------------------------------------------
(* The caches: rebuilt from what this pass has computed, or the ones that    *)
(* were accepted, which no operator touches.                                 *)
AcceptedOnes(g, in) ==
  /\ in.elements = "acceptedElements" /\ in.matrix = "acceptedMatrix"
  /\ g["acceptedMatrix"] = g["acceptedElements"]

LEMMA PreconditionerIs ==
  ASSUME NEW q, IsQueue(q), NEW in, NEW s,
         q.gpu["inverse"] = s, q.gpu["base"] = s, q.gpu["field"] = FieldOf(s)
  PROVE  LET p == Preconditioner(q, in)
         IN  /\ IsQueue(p) /\ p.read = q.read
             /\ \A l \in Labels \ {"elements", "matrix"} : p.gpu[l] = q.gpu[l]
             /\ in.refresh => p.gpu["elements"] = s /\ p.gpu["matrix"] = s
<1> DEFINE a == EnqueueElements(q)
           b == EnqueueMatrix(a, "elements")
<1>1. {"elements", "matrix", "base"} \subseteq Labels
  BY DEF Labels, Preconditioners, Fields
<1>2. From({q.gpu.inverse, q.gpu.base, WholeField(q.gpu.field)}) = s
  <2>1. WholeField(FieldOf(s)) = s
    BY FromOne DEF WholeField, FieldOf
  <2> QED
    BY <2>1, FromOne
<1>3. /\ IsQueue(a) /\ a.read = q.read /\ a.gpu["elements"] = s
      /\ \A l \in Labels \ {"elements"} : a.gpu[l] = q.gpu[l]
  BY <1>1, <1>2, WroteIs DEF EnqueueElements
<1> HIDE DEF a
<1>4. From({a.gpu["elements"], a.gpu.base}) = s
  BY <1>1, <1>3, FromOne
<1>5. /\ IsQueue(b) /\ b.read = a.read /\ b.gpu["matrix"] = s
      /\ \A l \in Labels \ {"matrix"} : b.gpu[l] = a.gpu[l]
  BY <1>1, <1>3, <1>4, WroteIs DEF EnqueueMatrix
<1>6. Preconditioner(q, in) = IF in.refresh THEN b ELSE q
  BY DEF Preconditioner, a
<1> HIDE DEF b
<1> QED
  BY <1>1, <1>3, <1>5, <1>6

-----------------------------------------------------------------------------
(* The constraint, filtered, and added to a copy of the forces.              *)
HeadOf(s, reference, tcon) ==
  [eff |-> [geometry |-> s, reference |-> reference],
   reference |-> reference, tcon |-> tcon]

Constraint(s, reference, tcon) ==
  [gCon |-> [eff |-> [geometry |-> s, reference |-> reference], tcon |-> tcon],
   geometry |-> s, reference |-> reference]

Constrained(force, constraint) == [force EXCEPT !.constraint = Added(@, constraint)]

LEMMA HeadIs ==
  ASSUME NEW q, IsQueue(q), NEW in, NEW s, NEW elements,
         q.gpu["inverse"] = s, in.refresh => q.gpu[elements] = s
  PROVE  LET p == ConstraintHead(q, in, elements)
         IN  /\ IsQueue(p)
             /\ p.gpu["head"] = HeadOf(s, ReferenceOf(q.gpu, in, s),
                                       MultiplierOf(in, s))
             /\ \A l \in Labels \ {"head"} : p.gpu[l] = q.gpu[l]
             /\ p.read["tcon"] = MultiplierOf(in, s)
             /\ p.read["reference"] = IF in.readback = "finite" THEN q.read["reference"]
                                      ELSE ReferenceOf(q.gpu, in, s)
             /\ \A n \in Readbacks \ {"tcon", "reference"} : p.read[n] = q.read[n]
<1> DEFINE R == ReferenceOf(q.gpu, in, s)
           T == MultiplierOf(in, s)
           a == HeadPass(q, in, elements)
           b == Appended(a, "tcon", a.gpu["head"].tcon)
           p == IF in.readback = "finite" THEN b
                ELSE Appended(b, "reference", b.gpu["head"].reference)
<1>1. /\ "head" \in Labels /\ {"tcon", "reference"} \subseteq Readbacks
      /\ "tcon" # "reference"
  BY DEF Labels, Constraints, Readbacks
<1>2. a = Wrote(q, "head", HeadOf(s, R, T))
  <2>1. (IF in.reset THEN [of |-> q.gpu.inverse, decays |-> 0]
         ELSE ReferencePlanes(q.gpu, in)) = R
    BY DEF ReferenceOf, ReferencePlanes
  <2>2. in.refresh => From({q.gpu.inverse, q.gpu[elements]}) = s
    BY FromOne
  <2>3. (IF in.refresh THEN From({q.gpu.inverse, q.gpu[elements]}) ELSE in.tcon) = T
    BY <2>2 DEF MultiplierOf
  <2> HIDE DEF R, T
  <2> QED
    BY <2>1, <2>3 DEF HeadPass, HeadOf
<1> HIDE DEF R, T
<1>3. HeadOf(s, R, T).tcon = T /\ HeadOf(s, R, T).reference = R
  BY DEF HeadOf
<1>4. /\ IsQueue(a) /\ a.read = q.read /\ a.gpu["head"] = HeadOf(s, R, T)
      /\ \A l \in Labels \ {"head"} : a.gpu[l] = q.gpu[l]
  BY <1>1, <1>2, WroteIs
<1> HIDE DEF a
<1>5. /\ IsQueue(b) /\ b.gpu = a.gpu /\ b.read["tcon"] = T
      /\ \A n \in Readbacks \ {"tcon"} : b.read[n] = a.read[n]
  BY <1>1, <1>3, <1>4, AppendedIs
<1>6. p = ConstraintHead(q, in, elements)
  BY <1>5 DEF ConstraintHead, HeadReadback, a, b
<1> HIDE DEF b
<1>7. /\ IsQueue(p) /\ p.gpu = a.gpu
      /\ p.read["reference"] = IF in.readback = "finite" THEN b.read["reference"] ELSE R
      /\ \A n \in Readbacks \ {"reference"} : p.read[n] = b.read[n]
  BY <1>1, <1>3, <1>4, <1>5, AppendedIs
<1> HIDE DEF p
<1>8. p.read["tcon"] = T /\ b.read["reference"] = q.read["reference"]
  BY <1>1, <1>4, <1>5, <1>7
<1> QED
  BY <1>1, <1>4, <1>5, <1>6, <1>7, <1>8 DEF R, T

ConstraintOf(g) ==
  [gCon |-> [eff |-> g["head"].eff, tcon |-> g["head"].tcon],
   geometry |-> g["inverse"], reference |-> g["head"].reference]

LEMMA TailIs ==
  ASSUME NEW q, IsQueue(q)
  PROVE  LET p == ConstraintTail(EnqueueToroidalDealias(q))
         IN  /\ IsQueue(p) /\ p.read = q.read
             /\ p.gpu["constrained"] = Constrained(q.gpu["force"], ConstraintOf(q.gpu))
             /\ \A l \in Labels \ {"filtered", "constrained"} : p.gpu[l] = q.gpu[l]
<1> DEFINE a == EnqueueToroidalDealias(q)
           p == ConstraintTail(a)
<1>1. /\ {"filtered", "constrained", "head", "inverse", "force"} \subseteq Labels
      /\ "filtered" \notin {"head", "inverse", "force"}
  BY DEF Labels, Constraints, Inverse, Fields
<1>2. /\ IsQueue(a) /\ a.read = q.read
      /\ a.gpu["filtered"] = [eff |-> q.gpu["head"].eff, tcon |-> q.gpu["head"].tcon]
      /\ \A l \in Labels \ {"filtered"} : a.gpu[l] = q.gpu[l]
  BY <1>1, WroteIs DEF EnqueueToroidalDealias, Multiplier
<1> HIDE DEF a
<1>3. /\ a.gpu["inverse"] = q.gpu["inverse"] /\ a.gpu["force"] = q.gpu["force"]
      /\ a.gpu["head"] = q.gpu["head"]
  BY <1>1, <1>2
<1>4. p = Wrote(a, "constrained", Constrained(q.gpu["force"], ConstraintOf(q.gpu)))
  BY <1>2, <1>3 DEF ConstraintTail, Constrained, ConstraintOf
<1> HIDE DEF p
<1>5. /\ IsQueue(p) /\ p.read = a.read
      /\ p.gpu["constrained"] = Constrained(q.gpu["force"], ConstraintOf(q.gpu))
      /\ \A l \in Labels \ {"constrained"} : p.gpu[l] = a.gpu[l]
  BY <1>1, <1>2, <1>4, WroteIs
<1>6. p = ConstraintTail(EnqueueToroidalDealias(q))
  BY DEF p, a
<1> QED
  BY <1>2, <1>5, <1>6

(* What is projected of the constrained forces is the residual.              *)
LEMMA ResidualIs ==
  ASSUME NEW in, NEW s, NEW edge, NEW g
  PROVE  Decomposed(Projected(in, Constrained(Forces(s, edge),
                      Constraint(s, ReferenceOf(g, in, s), MultiplierOf(in, s)))),
                    in.gauge)
           = ResidualOf(g, in, s, IF in.lcfs THEN edge ELSE None)
<1> DEFINE constraint == Constraint(s, ReferenceOf(g, in, s), MultiplierOf(in, s))
           pushed == IF in.lcfs THEN edge ELSE None
<1>1. Constrained(Forces(s, edge), constraint)
        = [mhd |-> s, edge |-> edge, constraint |-> constraint]
  BY DEF Constrained, Forces, Added
<1>2. Projected(in, Constrained(Forces(s, edge), constraint))
        = [mhd |-> s, edge |-> pushed, constraint |-> constraint,
           odd |-> None, gauge |-> None, precon |-> None]
  BY <1>1 DEF Projected
<1> DEFINE raw == [mhd |-> s, edge |-> pushed, constraint |-> constraint,
                   odd |-> None, gauge |-> None, precon |-> None]
<1> HIDE DEF pushed, constraint
<1>a. raw.odd = None /\ raw.gauge = None
  OBVIOUS
<1>b. [raw EXCEPT !.odd = "scaled", !.gauge = in.gauge]
        = [mhd |-> s, edge |-> pushed, constraint |-> constraint,
           odd |-> "scaled", gauge |-> in.gauge, precon |-> None]
  <2> DEFINE once == [raw EXCEPT !.odd = "scaled"]
  <2>1. once = [mhd |-> s, edge |-> pushed, constraint |-> constraint,
                odd |-> "scaled", gauge |-> None, precon |-> None]
    OBVIOUS
  <2>2. [raw EXCEPT !.odd = "scaled", !.gauge = in.gauge]
          = [once EXCEPT !.gauge = in.gauge]
    OBVIOUS
  <2> HIDE DEF once, raw
  <2> QED
    BY <2>1, <2>2
<1>3. Decomposed(Projected(in, Constrained(Forces(s, edge), constraint)), in.gauge)
        = [mhd |-> s, edge |-> pushed, constraint |-> constraint,
           odd |-> "scaled", gauge |-> in.gauge, precon |-> None]
  <2>1. Decomposed(raw, in.gauge)
          = [raw EXCEPT !.odd = "scaled", !.gauge = in.gauge]
    BY <1>a DEF Decomposed, Added
  <2> QED
    BY <1>2, <1>b, <2>1
<1> QED
  BY <1>3 DEF ResidualOf, Measure, Constraint, pushed, constraint

(* Head, filter, tail and projection of the constrained forces.              *)
LEMMA ConstraintPhaseIs ==
  ASSUME NEW q, IsQueue(q), NEW in, NEW s, NEW edge,
         q.gpu["inverse"] = s, q.gpu["force"] = Forces(s, edge),
         in.refresh => q.gpu["elements"] = s
  PROVE  LET p == ConstraintPhase(q, in)
             residual == ResidualOf(q.gpu, in, s, IF in.lcfs THEN edge ELSE None)
         IN  /\ IsQueue(p)
             /\ p.gpu["head"].reference = ReferenceOf(q.gpu, in, s)
             /\ p.gpu["decomposed"] = residual
             /\ \A l \in Labels \ (Projections \cup Constraints) : p.gpu[l] = q.gpu[l]
             /\ p.read["invariant"] = residual
             /\ p.read["tcon"] = MultiplierOf(in, s)
             /\ p.read["reference"] = IF in.readback = "finite" THEN q.read["reference"]
                                      ELSE ReferenceOf(q.gpu, in, s)
             /\ \A n \in Readbacks \ {"invariant", "tcon", "reference"} :
                  p.read[n] = q.read[n]
<1> DEFINE elements == Elements(in)
           R == ReferenceOf(q.gpu, in, s)
           T == MultiplierOf(in, s)
           residual == ResidualOf(q.gpu, in, s, IF in.lcfs THEN edge ELSE None)
           a == ConstraintHead(q, in, elements)
           b == ConstraintTail(EnqueueToroidalDealias(a))
           c == ForwardPhase(b, in, "constrained")
           d == EnqueueDecomposition(c, "invariant", in.gauge, HostNorms(in))
           p == Norm(d, in, "decomposed", "invariant")
<1>1. /\ {"head", "inverse", "force", "residual", "decomposed", "constrained"}
            \subseteq Labels
      /\ "inverse" \notin {"head"} /\ "force" \notin {"head"}
      /\ "decomposed" # "norm" /\ "head" \notin {"filtered", "constrained"}
      /\ "head" \notin {"forwardSpectra", "residual", "decomposed", "norm"}
      /\ {"head", "filtered", "constrained", "forwardSpectra", "residual",
          "decomposed", "norm"} \subseteq Projections \cup Constraints
      /\ {"invariant", "tcon", "reference"} \subseteq Readbacks
      /\ "invariant" \notin {"tcon", "reference"}
  BY DEF Labels, Projections, Constraints, Inverse, Fields, Readbacks
<1>2. in.refresh => q.gpu[elements] = s
  BY DEF Elements
<1> HIDE DEF elements, R, T
<1>3. /\ IsQueue(a) /\ a.gpu["head"] = HeadOf(s, R, T)
      /\ \A l \in Labels \ {"head"} : a.gpu[l] = q.gpu[l]
      /\ a.read["tcon"] = T
      /\ a.read["reference"] = IF in.readback = "finite" THEN q.read["reference"]
                               ELSE R
      /\ \A n \in Readbacks \ {"tcon", "reference"} : a.read[n] = q.read[n]
  BY <1>2, HeadIs DEF R, T
<1> HIDE DEF a
<1>4. a.gpu["inverse"] = s /\ a.gpu["force"] = Forces(s, edge)
  BY <1>1, <1>3
<1>5. /\ IsQueue(b) /\ b.read = a.read
      /\ b.gpu["constrained"] = Constrained(Forces(s, edge), Constraint(s, R, T))
      /\ \A l \in Labels \ {"filtered", "constrained"} : b.gpu[l] = a.gpu[l]
  <2>1. /\ IsQueue(b) /\ b.read = a.read
        /\ b.gpu["constrained"] = Constrained(a.gpu["force"], ConstraintOf(a.gpu))
        /\ \A l \in Labels \ {"filtered", "constrained"} : b.gpu[l] = a.gpu[l]
    BY <1>3, TailIs
  <2>2. ConstraintOf(a.gpu) = Constraint(s, R, T)
    BY <1>3, <1>4 DEF ConstraintOf, Constraint, HeadOf
  <2> QED
    BY <1>4, <2>1, <2>2
<1> HIDE DEF b
<1>6. /\ IsQueue(c) /\ c.read = b.read
      /\ c.gpu["residual"] = Projected(in, b.gpu["constrained"])
      /\ \A l \in Labels \ {"forwardSpectra", "residual"} : c.gpu[l] = b.gpu[l]
  BY <1>5, ForwardIs
<1> HIDE DEF c
<1>7. /\ IsQueue(d)
      /\ d.gpu["decomposed"] = Decomposed(c.gpu["residual"], in.gauge)
      /\ \A l \in Labels \ {"decomposed"} : d.gpu[l] = c.gpu[l]
      /\ HostNorms(in) => d.read["invariant"] = d.gpu["decomposed"]
      /\ \A n \in Readbacks \ {"invariant"} : d.read[n] = c.read[n]
  BY <1>1, <1>6, DecompositionIs
<1>8. d.gpu["decomposed"] = residual
  BY <1>5, <1>6, <1>7, ResidualIs DEF R, T
<1> HIDE DEF d, residual
<1>9. /\ IsQueue(p)
      /\ \A l \in Labels \ {"norm"} : p.gpu[l] = d.gpu[l]
      /\ p.read["invariant"] = IF in.readback = "slices" THEN d.read["invariant"]
                               ELSE d.gpu["decomposed"]
      /\ \A n \in Readbacks \ {"invariant"} : p.read[n] = d.read[n]
  BY <1>1, <1>7, NormIs
<1>10. p = ConstraintPhase(q, in)
  BY DEF ConstraintPhase, d, c, b, a, elements, EnqueueConstraint
<1> HIDE DEF p
<1>11. p.read["invariant"] = residual
  BY <1>7, <1>8, <1>9 DEF HostNorms
<1>12. /\ p.gpu["head"] = HeadOf(s, R, T) /\ p.gpu["decomposed"] = residual
  <2>1. p.gpu["head"] = d.gpu["head"] /\ d.gpu["head"] = c.gpu["head"]
        /\ c.gpu["head"] = b.gpu["head"] /\ b.gpu["head"] = a.gpu["head"]
    BY <1>1, <1>5, <1>6, <1>7, <1>9
  <2> QED
    BY <1>1, <1>3, <1>8, <1>9, <2>1
<1>13. \A l \in Labels \ (Projections \cup Constraints) : p.gpu[l] = q.gpu[l]
  BY <1>1, <1>3, <1>5, <1>6, <1>7, <1>9
<1>14. \A n \in Readbacks \ {"invariant"} : p.read[n] = a.read[n]
  BY <1>5, <1>6, <1>7, <1>9
<1>15. HeadOf(s, R, T).reference = R
  BY DEF HeadOf
<1>16. /\ p.read["tcon"] = T
       /\ p.read["reference"] = IF in.readback = "finite" THEN q.read["reference"] ELSE R
       /\ \A n \in Readbacks \ {"invariant", "tcon", "reference"} : p.read[n] = q.read[n]
  BY <1>1, <1>3, <1>14
<1> QED
  BY <1>9, <1>10, <1>11, <1>12, <1>13, <1>15, <1>16 DEF R, T, residual

(* The residual is copied, solved for and read, and measured once more.      *)
LEMMA ApplyPhaseIs ==
  ASSUME NEW q, IsQueue(q), NEW in, NEW s, NEW precon,
         q.gpu[Elements(in)] = precon, q.gpu[Matrix(in)] = precon,
         q.gpu["decomposed"].precon = None
  PROVE  LET p == ApplyPhase(q, in)
         IN  /\ IsQueue(p)
             /\ p.gpu["applied"] = Solved(q.gpu["decomposed"], precon)
             /\ \A l \in Labels \ {"applied", "norm"} : p.gpu[l] = q.gpu[l]
             /\ p.read["applied"] = p.gpu["applied"]
             /\ \A n \in Readbacks \ {"applied"} : p.read[n] = q.read[n]
<1> DEFINE solved == Solved(q.gpu["decomposed"], precon)
           a == ApplyPass(q, Elements(in), Matrix(in))
           b == Appended(a, "applied", a.gpu["applied"])
           p == Norm(b, in, "applied", "applied")
<1>1. {"applied"} \subseteq Labels /\ "applied" \in Readbacks /\ "applied" # "norm"
  BY DEF Labels, Preconditioners, Readbacks
<1>2. a = Wrote(q, "applied", solved)
  <2>1. From({q.gpu[Elements(in)], q.gpu[Matrix(in)]}) = precon
    BY FromOne
  <2> QED
    BY <2>1 DEF ApplyPass, Solved, Added
<1> HIDE DEF solved
<1>3. /\ IsQueue(a) /\ a.read = q.read /\ a.gpu["applied"] = solved
      /\ \A l \in Labels \ {"applied"} : a.gpu[l] = q.gpu[l]
  BY <1>1, <1>2, WroteIs
<1> HIDE DEF a
<1>4. /\ IsQueue(b) /\ b.gpu = a.gpu /\ b.read["applied"] = solved
      /\ \A n \in Readbacks \ {"applied"} : b.read[n] = a.read[n]
  BY <1>1, <1>3, AppendedIs
<1>5. p = ApplyPhase(q, in)
  BY DEF ApplyPhase, EnqueueApply, a, b
<1> HIDE DEF b
<1>6. /\ IsQueue(p)
      /\ \A l \in Labels \ {"norm"} : p.gpu[l] = b.gpu[l]
      /\ p.read["applied"] = IF in.readback = "slices" THEN b.read["applied"]
                             ELSE b.gpu["applied"]
      /\ \A n \in Readbacks \ {"applied"} : p.read[n] = b.read[n]
  BY <1>1, <1>4, NormIs
<1> HIDE DEF p
<1> QED
  BY <1>1, <1>3, <1>4, <1>5, <1>6 DEF solved

(* What an evaluation reads of the caches is not what it writes.             *)
LEMMA CachesKept ==
  ASSUME NEW g, NEW h, NEW in, NEW s,
         h["acceptedElements"] = g["acceptedElements"],
         h["acceptedReference"] = g["acceptedReference"],
         in.deviceReference \in {NoHandle, "acceptedReference"}
  PROVE  /\ ReferenceOf(h, in, s) = ReferenceOf(g, in, s)
         /\ PreconOf(h, in, s) = PreconOf(g, in, s)
         /\ \A edge : ResidualOf(h, in, s, edge) = ResidualOf(g, in, s, edge)
BY DEF ReferenceOf, PreconOf, ResidualOf, Transferred

LEMMA SuffixIs ==
  ASSUME NEW q, IsQueue(q), NEW in, NEW s, NEW edge,
         q.gpu["inverse"] = s, q.gpu["base"] = s, q.gpu["field"] = FieldOf(s),
         q.gpu["force"] = Forces(s, edge), q.read["reference"] = None,
         ~in.refresh => AcceptedOnes(q.gpu, in),
         in.deviceReference \in {NoHandle, "acceptedReference"}
  PROVE  LET p == Suffix(q, in)
         IN  /\ IsQueue(p)
             /\ EvaluatedSuffix(p.gpu, p.read, in, s, IF in.lcfs THEN edge ELSE None)
             /\ \A l \in Labels \ Scratch : p.gpu[l] = q.gpu[l]
             /\ \A n \in Readbacks \ SuffixReads : p.read[n] = q.read[n]
<1> DEFINE pushed == IF in.lcfs THEN edge ELSE None
           R == ReferenceOf(q.gpu, in, s)
           residual == ResidualOf(q.gpu, in, s, pushed)
           precon == PreconOf(q.gpu, in, s)
           a == ForcePhase(q, in)
           b == Preconditioner(a, in)
           c == ConstraintPhase(b, in)
           p == ApplyPhase(c, in)
<1>1. /\ {"inverse", "base", "field", "force", "acceptedElements", "acceptedMatrix",
          "acceptedReference"} \subseteq Labels \ Scratch
      /\ Projections \subseteq Scratch /\ Constraints \subseteq Scratch
      /\ {"elements", "matrix", "applied", "norm", "head", "decomposed"}
            \subseteq Scratch
      /\ {"elements", "matrix", "applied"} \cap (Projections \cup Constraints) = {}
      /\ {"elements", "matrix", "applied", "head", "decomposed"} \subseteq Labels
      /\ {"head", "decomposed", "elements", "matrix"} \cap {"applied", "norm"} = {}
      /\ {"projection", "invariant", "tcon", "reference", "applied"} \subseteq Readbacks
      /\ {"projection", "invariant", "tcon", "reference", "applied"} \subseteq SuffixReads
      /\ "reference" # "projection" /\ {"invariant", "tcon", "reference"} \cap {"applied"} = {}
  BY DEF Labels, Scratch, Projections, Constraints, Preconditioners, Inverse, Fields,
         Snapshots, Readbacks, SuffixReads
<1> HIDE DEF R, residual, precon, pushed
<1>2. /\ IsQueue(a)
      /\ \A l \in Labels \ Projections : a.gpu[l] = q.gpu[l]
      /\ \A n \in Readbacks \ {"projection"} : a.read[n] = q.read[n]
  BY ForcePhaseIs
<1> HIDE DEF a
<1>3. a.gpu["inverse"] = s /\ a.gpu["base"] = s /\ a.gpu["field"] = FieldOf(s)
  BY <1>1, <1>2
<1>4. /\ IsQueue(b) /\ b.read = a.read
      /\ \A l \in Labels \ {"elements", "matrix"} : b.gpu[l] = a.gpu[l]
      /\ in.refresh => b.gpu["elements"] = s /\ b.gpu["matrix"] = s
  BY <1>2, <1>3, PreconditionerIs
<1> HIDE DEF b
<1>5. \A l \in Labels \ Scratch : b.gpu[l] = q.gpu[l]
  BY <1>1, <1>2, <1>4
<1>6. /\ ReferenceOf(b.gpu, in, s) = R
      /\ ResidualOf(b.gpu, in, s, pushed) = residual
  BY <1>1, <1>5, CachesKept DEF R, residual
<1>7. b.gpu["inverse"] = s /\ b.gpu["force"] = Forces(s, edge)
  BY <1>1, <1>5
<1>8. /\ IsQueue(c)
      /\ c.gpu["head"].reference = R
      /\ c.gpu["decomposed"] = residual
      /\ \A l \in Labels \ (Projections \cup Constraints) : c.gpu[l] = b.gpu[l]
      /\ c.read["invariant"] = residual
      /\ c.read["tcon"] = MultiplierOf(in, s)
      /\ c.read["reference"] = IF in.readback = "finite" THEN b.read["reference"] ELSE R
      /\ \A n \in Readbacks \ {"invariant", "tcon", "reference"} : c.read[n] = b.read[n]
  BY <1>4, <1>6, <1>7, ConstraintPhaseIs DEF pushed
<1> HIDE DEF c
<1>9. c.gpu[Elements(in)] = precon /\ c.gpu[Matrix(in)] = precon
  <2>1. CASE in.refresh
    BY <1>1, <1>4, <1>8, <2>1 DEF Elements, Matrix, precon, PreconOf
  <2>2. CASE ~in.refresh
    <3>1. /\ c.gpu["acceptedElements"] = q.gpu["acceptedElements"]
          /\ c.gpu["acceptedMatrix"] = q.gpu["acceptedMatrix"]
      BY <1>1, <1>5, <1>8 DEF Scratch
    <3> QED
      BY <2>2, <3>1 DEF Elements, Matrix, precon, PreconOf, AcceptedOnes
  <2> QED
    BY <2>1, <2>2
<1>10. residual.precon = None
  BY DEF residual, ResidualOf, Measure
<1>11. /\ IsQueue(p)
       /\ p.gpu["applied"] = Solved(residual, precon)
       /\ \A l \in Labels \ {"applied", "norm"} : p.gpu[l] = c.gpu[l]
       /\ p.read["applied"] = p.gpu["applied"]
       /\ \A n \in Readbacks \ {"applied"} : p.read[n] = c.read[n]
  BY <1>8, <1>9, <1>10, ApplyPhaseIs
<1>12. p = Suffix(q, in)
  BY DEF Suffix, a, b, c
<1> HIDE DEF p
<1>13. \A l \in Labels \ Scratch : p.gpu[l] = q.gpu[l]
  BY <1>1, <1>5, <1>8, <1>11
<1>14. \A n \in Readbacks \ SuffixReads : p.read[n] = q.read[n]
  BY <1>1, <1>2, <1>4, <1>8, <1>11
<1>15. /\ ReferenceOf(p.gpu, in, s) = R
       /\ ResidualOf(p.gpu, in, s, pushed) = residual
       /\ PreconOf(p.gpu, in, s) = precon
  BY <1>1, <1>13, CachesKept DEF R, residual, precon
<1>16. /\ p.gpu["head"].reference = R
       /\ in.refresh => p.gpu["elements"] = s /\ p.gpu["matrix"] = s
       /\ p.read["invariant"] = residual /\ p.read["tcon"] = MultiplierOf(in, s)
  BY <1>1, <1>4, <1>8, <1>11
<1>17. p.read["reference"] = IF in.readback = "finite" THEN None ELSE R
  BY <1>1, <1>2, <1>4, <1>8, <1>11
<1>18. EvaluatedSuffix(p.gpu, p.read, in, s, pushed)
  BY <1>11, <1>15, <1>16, <1>17 DEF EvaluatedSuffix
<1> QED
  BY <1>11, <1>12, <1>13, <1>14, <1>18 DEF pushed

-----------------------------------------------------------------------------
(* A whole evaluation, without a vacuum: what it reads is of one state, and  *)
(* what outlives a pass is left alone.                                       *)
Lasting == Descents \cup Snapshots \cup Corrections

LEMMA EvaluationIs ==
  ASSUME NEW q, IsQueue(q), NEW in, NEW s,
         s = InverseInput(q.gpu, in.device, in.state),
         q.read["reference"] = None,
         ~in.refresh => AcceptedOnes(q.gpu, in),
         in.deviceReference \in {NoHandle, "acceptedReference"}
  PROVE  LET p == EnqueueIteration(q, in)
         IN  /\ IsQueue(p)
             /\ EvaluatedPrefix(p.gpu, p.read, in, s)
             /\ EvaluatedSuffix(p.gpu, p.read, in, s, None)
             /\ \A l \in Lasting : p.gpu[l] = q.gpu[l]
<1> DEFINE a == Prefix(q, in)
           p == Suffix(a, in)
<1>1. /\ {"inverse", "base", "field"} \subseteq Labels \ Scratch
      /\ Lasting \subseteq Labels
      /\ Lasting \cap (Inverse \cup Fields) = {} /\ Lasting \cap Scratch = {}
      /\ {"acceptedElements", "acceptedMatrix"} \subseteq Lasting
      /\ PrefixReadbacks \subseteq Readbacks \ SuffixReads
      /\ {"inverse", "validity", "base", "profiles", "field"} \subseteq PrefixReadbacks
      /\ "reference" \in Readbacks \ PrefixReadbacks
  BY DEF Labels, Scratch, Projections, Constraints, Preconditioners, Inverse, Fields,
         Snapshots, Corrections, Descents, Lasting, Readbacks, SuffixReads,
         PrefixReadbacks
<1>2. /\ IsQueue(a) /\ EvaluatedPrefix(a.gpu, a.read, in, s)
      /\ a.gpu["force"] = Forces(s, None)
      /\ \A l \in Labels \ (Inverse \cup Fields) : a.gpu[l] = q.gpu[l]
      /\ \A n \in Readbacks \ PrefixReadbacks : a.read[n] = q.read[n]
  <2>1. PrefixDone(a, q, in, s)
    BY PrefixIs
  <2> QED
    BY <2>1 DEF PrefixDone
<1> HIDE DEF a
<1>3. /\ \A l \in Lasting : a.gpu[l] = q.gpu[l]
      /\ a.read["reference"] = None
  BY <1>1, <1>2
<1>4. ~in.refresh => AcceptedOnes(a.gpu, in)
  BY <1>1, <1>3 DEF AcceptedOnes
<1>5. a.gpu["inverse"] = s /\ a.gpu["base"] = s /\ a.gpu["field"] = FieldOf(s)
  BY <1>2 DEF EvaluatedPrefix
<1>6. /\ IsQueue(p)
      /\ EvaluatedSuffix(p.gpu, p.read, in, s, IF in.lcfs THEN None ELSE None)
      /\ \A l \in Labels \ Scratch : p.gpu[l] = a.gpu[l]
      /\ \A n \in Readbacks \ SuffixReads : p.read[n] = a.read[n]
  BY <1>2, <1>3, <1>4, <1>5, SuffixIs
<1>7. p = EnqueueIteration(q, in)
  BY DEF EnqueueIteration, a
<1> HIDE DEF p
<1>8. EvaluatedPrefix(p.gpu, p.read, in, s)
  BY <1>1, <1>2, <1>6 DEF EvaluatedPrefix
<1>9. \A l \in Lasting : p.gpu[l] = q.gpu[l]
  BY <1>1, <1>3, <1>6
<1> QED
  BY <1>6, <1>7, <1>8, <1>9

(* What an evaluation finds depends on a case only in these respects.        *)
SameCase(in, at) ==
  /\ at.refresh = in.refresh /\ at.reset = in.reset /\ at.gauge = in.gauge
  /\ at.deviceReference = in.deviceReference /\ at.reference = in.reference
  /\ at.tcon = in.tcon
  /\ at.readback = in.readback \/ in.readback = "finite"

LEMMA EvaluatedAlike ==
  ASSUME NEW g, NEW r, NEW in, NEW at, NEW s, NEW edge, SameCase(in, at),
         EvaluatedPrefix(g, r, at, s), EvaluatedSuffix(g, r, at, s, edge)
  PROVE  EvaluatedPrefix(g, r, in, s) /\ EvaluatedSuffix(g, r, in, s, edge)
<1>1. EvaluatedPrefix(g, r, in, s)
  BY DEF SameCase, EvaluatedPrefix
<1>2. /\ ReferenceOf(g, at, s) = ReferenceOf(g, in, s)
      /\ MultiplierOf(at, s) = MultiplierOf(in, s)
      /\ PreconOf(g, at, s) = PreconOf(g, in, s)
  BY DEF SameCase, ReferenceOf, MultiplierOf, PreconOf
<1>3. ResidualOf(g, at, s, edge) = ResidualOf(g, in, s, edge)
  BY <1>2 DEF ResidualOf, SameCase
<1>4. EvaluatedSuffix(g, r, in, s, edge)
  BY <1>2, <1>3 DEF SameCase, EvaluatedSuffix
<1> QED
  BY <1>1, <1>4

(* A probe or a trial of a Newton step is such an evaluation, of what its    *)
(* label holds.                                                              *)
TrialDone(p, q, in, label) ==
  /\ IsQueue(p)
  /\ EvaluatedPrefix(p.gpu, p.read, in, q.gpu[label].of)
  /\ EvaluatedSuffix(p.gpu, p.read, in, q.gpu[label].of, None)
  /\ \A l \in Lasting : p.gpu[l] = q.gpu[l]

LEMMA TrialIs ==
  ASSUME NEW q, IsQueue(q), NEW in, NEW at, NEW label, label \in Labels,
         DOMAIN at = CaseFields, SameCase(in, at),
         q.read["reference"] = None,
         ~in.refresh => AcceptedOnes(q.gpu, at),
         in.deviceReference \in {NoHandle, "acceptedReference"}
  PROVE  TrialDone(EvaluateAt(q, at, label), q, in, label)
<1> DEFINE s == q.gpu[label].of
           there == [at EXCEPT !.device = label]
           p == EnqueueIteration(q, there)
<1>1. \A f \in CaseFields \ {"device"} : there[f] = at[f]
  OBVIOUS
<1>2. there.device = label
  BY DEF CaseFields
<1>3. /\ there.refresh = at.refresh /\ there.reset = at.reset
      /\ there.gauge = at.gauge /\ there.tcon = at.tcon
      /\ there.deviceReference = at.deviceReference
      /\ there.reference = at.reference /\ there.readback = at.readback
      /\ there.elements = at.elements /\ there.matrix = at.matrix
  BY <1>1 DEF CaseFields
<1>4. EvaluateAt(q, at, label) = p
  BY DEF EvaluateAt
<1> HIDE DEF there
<1>5. SameCase(in, there)
  BY <1>3 DEF SameCase
<1>6. ~there.refresh => AcceptedOnes(q.gpu, there)
  BY <1>3, <1>5 DEF AcceptedOnes, SameCase
<1>7. s = InverseInput(q.gpu, there.device, there.state)
  BY <1>2, BrowserPassAssumption DEF InverseInput
<1>8. there.deviceReference \in {NoHandle, "acceptedReference"}
  BY <1>5 DEF SameCase
<1>9. /\ IsQueue(p)
      /\ EvaluatedPrefix(p.gpu, p.read, there, s)
      /\ EvaluatedSuffix(p.gpu, p.read, there, s, None)
      /\ \A l \in Lasting : p.gpu[l] = q.gpu[l]
  BY <1>6, <1>7, <1>8, EvaluationIs
<1> HIDE DEF p
<1> QED
  BY <1>4, <1>5, <1>9, EvaluatedAlike DEF TrialDone

-----------------------------------------------------------------------------
(* The labels of what outlives a pass, and the empty handle.                 *)
LEMMA LabelFacts ==
  /\ Lasting \subseteq Labels
  /\ {"descentState", "descentVelocity", "newtonInput", "newtonBase", "newtonRhs",
      "newtonTrial", "acceptedElements", "acceptedMatrix", "acceptedReference"}
        \subseteq Lasting
  /\ {"head", "elements", "matrix", "applied", "force", "inverse", "base", "field"}
        \subseteq Labels \ Lasting
  /\ Readbacks = PrefixReadbacks \cup SuffixReads \cup {"moved"}
  /\ PrefixReadbacks \cap SuffixReads = {}
BY DEF Labels, Lasting, Inverse, Fields, Projections, Constraints, Preconditioners,
       Descents, Snapshots, Corrections, Readbacks, PrefixReadbacks, SuffixReads

LEMMA NoHandleFacts ==
  NoHandle \notin {"descentState", "descentVelocity", "newtonInput", "newtonBase",
                   "newtonTrial", "acceptedElements", "acceptedMatrix",
                   "acceptedReference", "applied"}
BY LabelFacts, BrowserPassAssumption

(* The host's copy of the state, wherever it is the device's too.            *)
LEMMA CurrentIs ==
  ASSUME TypeOK, CopiesInv, deferred = NoDeferred
  PROVE  /\ Current = host.state.of /\ host.state.of \in States
         /\ handle.iteration # NoHandle => gpu[handle.iteration].of = host.state.of
BY DEF TypeOK, CopiesInv, Current, Transferred, HostType, Spectral

(* A case is made of the host's caches and handles.                          *)
VacuumType == [run : BOOLEAN, full : BOOLEAN, decay : BOOLEAN, edge : BOOLEAN,
               resident : BOOLEAN]

Made(in, h, v, gauge) ==
  /\ DOMAIN in = CaseFields
  /\ in.state = h.state /\ in.device = handle.iteration
  /\ in.refresh = Refreshing /\ in.reset = (epoch.fresh /\ ~(Free /\ v.edge))
  /\ in.gauge = gauge /\ in.lcfs = (Free /\ v.edge)
  /\ in.readback = IF Free THEN "slices" ELSE "finite"
  /\ in.rows = (Free /\ ~v.resident)
  /\ in.elements = handle.elements /\ in.matrix = handle.matrix
  /\ in.reference = FadedReference(v)
  /\ in.deviceReference = IF Free THEN NoHandle ELSE handle.reference
  /\ in.tcon = host.tcon

LEMMA CaseMade ==
  ASSUME NEW h, NEW v, NEW gauge
  PROVE  Made(MakeIterationCase(h, v, gauge), h, v, gauge)
BY DEF MakeIterationCase, Made, CaseFields

(* What is not rebuilt was accepted.                                         *)
LEMMA MadeIsReady ==
  ASSUME TypeOK, CachesInv, NEW h, NEW v, NEW gauge, NEW in, Made(in, h, v, gauge)
  PROVE  /\ in.refresh \in BOOLEAN /\ in.reset \in BOOLEAN
         /\ ~in.refresh => handle.elements # NoHandle /\ AcceptedOnes(gpu, in)
         /\ in.deviceReference \in {NoHandle, "acceptedReference"}
<1>1. in.refresh \in BOOLEAN /\ in.reset \in BOOLEAN
  BY DEF Made, Refreshing
<1>2. ~in.refresh => handle.elements # NoHandle
  BY DEF Made, Refreshing
<1>3. handle.elements # NoHandle => AcceptedOnes(gpu, in)
  BY DEF Made, TypeOK, HandleType, CachesInv, AcceptedOnes
<1>4. in.deviceReference \in {NoHandle, "acceptedReference"}
  BY DEF Made, TypeOK, HandleType
<1> QED
  BY <1>1, <1>2, <1>3, <1>4

(* The host's copy, extended, restored or committed.                         *)
SameCaches(k, h) ==
  /\ k.tcon = h.tcon /\ k.reference = h.reference /\ k.factors = h.factors
  /\ k.vacuum = h.vacuum /\ k.profiles = h.profiles

LEMMA HostTypes ==
  ASSUME NEW h \in HostType
  PROVE  /\ Extended(h) \in HostType /\ SameCaches(Extended(h), h)
         /\ Extended(h).state.of = h.state.of /\ Extended(h).state.axis
         /\ Extended(h).velocity = h.velocity
         /\ Extended(h).checkpoint = h.checkpoint
         /\ Restored(h) \in HostType /\ SameCaches(Restored(h), h)
         /\ Restored(h).state.of = h.checkpoint
         /\ Restored(h).velocity = "zero"
         /\ Restored(h).checkpoint = h.checkpoint
BY DEF HostType, Spectral, Extended, Restored, SameCaches

LEMMA HandleTypes ==
  ASSUME NEW h \in HandleType
  PROVE  /\ Forgotten(h) \in HandleType
         /\ Forgotten(h).iteration = NoHandle /\ Forgotten(h).descent = NoHandle
         /\ Forgotten(h).velocity = NoHandle
         /\ Forgotten(h).residual = h.residual /\ Forgotten(h).elements = h.elements
         /\ Forgotten(h).matrix = h.matrix /\ Forgotten(h).reference = h.reference
BY DEF HandleType, StateHandles, Forgotten

(* What an abstract evaluation sees: the state, and the caches.              *)
Undisturbed == Current' = Current /\ CachesNow' = CachesNow
Replaced == Current' \in States /\ CachesNow' = CachesNow

LEMMA CachesSame ==
  ASSUME TypeOK, CachesInv, Free' = Free, SameCaches(host', host),
         handle'.elements = handle.elements, handle'.matrix = handle.matrix,
         handle'.reference = handle.reference,
         gpu'["acceptedElements"] = gpu["acceptedElements"],
         gpu'["acceptedMatrix"] = gpu["acceptedMatrix"],
         gpu'["acceptedReference"] = gpu["acceptedReference"]
  PROVE  CachesNow' = CachesNow
<1>1. handle.elements # NoHandle =>
        /\ gpu'[handle.elements] = gpu[handle.elements]
        /\ gpu'[handle.matrix] = gpu[handle.matrix]
  BY DEF TypeOK, HandleType, CachesInv
<1>2. handle.reference # NoHandle => gpu'[handle.reference] = gpu[handle.reference]
  BY DEF TypeOK, HandleType
<1>3. Transferred(gpu', IF Free THEN NoHandle ELSE handle.reference, host'.reference)
        = Transferred(gpu, IF Free THEN NoHandle ELSE handle.reference, host.reference)
  BY <1>2 DEF Transferred, SameCaches
<1> QED
  BY <1>1, <1>3 DEF CachesNow, SameCaches

LEMMA InitInv == Init => IInv
<1> SUFFICES ASSUME Init PROVE IInv
  OBVIOUS
<1>1. PICK s \in States :
        host = [state |-> [of |-> s, axis |-> FALSE], velocity |-> "zero",
                checkpoint |-> s, tcon |-> None, reference |-> NoReference,
                factors |-> None, profiles |-> None,
                vacuum |-> [boundary |-> None, currents |-> None, factors |-> None]]
  BY DEF Init
<1>2. /\ handle = NoHandles /\ deferred = NoDeferred /\ pc = "run" /\ entry = <<>>
      /\ epoch = [first |-> TRUE, fresh |-> TRUE, age |-> 0]
      /\ coupling \in {"fixed", "off", "initialized"} /\ newton = NoNewton
  BY DEF Init
<1>3. DOMAIN gpu = Labels /\ DOMAIN read = Readbacks
  BY DEF Init, NoBuffers, Queue
<1>4. vac \in VacuumType /\ ~vac.run /\ ~vac.decay /\ ~vac.edge
  <2>1. PICK resident \in BOOLEAN :
          vac = [run |-> FALSE, full |-> FALSE, decay |-> FALSE, edge |-> FALSE,
                 resident |-> resident]
    BY DEF Init
  <2> QED
    BY <2>1 DEF VacuumType
<1>5. host \in HostType
  BY <1>1 DEF HostType, Spectral, References, Accurate, NoReference
<1>6. handle \in HandleType
  BY <1>2 DEF NoHandles, HandleType, StateHandles
<1>7. TypeOK
  BY <1>2, <1>3, <1>4, <1>5, <1>6 DEF TypeOK, VacuumType
<1>8. CopiesInv
  BY <1>1, <1>2 DEF CopiesInv, NoHandles, NoNewton
<1>9. CachesInv
  BY <1>2 DEF CachesInv, NoHandles
<1>10. CaseInv /\ EvaluatedInv /\ AnswerInv /\ NewtonInv /\ EntryInv
  BY <1>2 DEF CaseInv, EvaluatedInv, AnswerInv, NewtonInv, EntryInv
<1>11. VacuumInv
  BY <1>1, <1>2, <1>4 DEF VacuumInv, NoHandles
<1> QED
  BY <1>7, <1>8, <1>9, <1>10, <1>11 DEF IInv

-----------------------------------------------------------------------------
(* The pass begins: the vacuum advances, the state is evaluated up to where  *)
(* the vacuum has its say.                                                   *)
LEMMA AdvanceIs ==
  ASSUME TypeOK, VacuumInv, Advances
  PROVE  /\ vac' \in VacuumType
         /\ coupling' \in {"fixed", "off", "initializing", "initialized", "active"}
         /\ Free' = Free
         /\ ~Free => UNCHANGED <<vac, coupling>>
         /\ vac'.edge = vac.edge /\ vac'.resident = vac.resident
         /\ Free => /\ vac'.run /\ ~vac'.full => host.vacuum.factors # None
                    /\ coupling' = "initialized" => vac'.run
                    /\ ~vac'.run => epoch.first
                    /\ epoch.first => coupling' # "initializing"
<1>1. CASE ~Free
  BY <1>1 DEF Advances, TypeOK, VacuumType, Free
<1>2. CASE Free
  <2>1. coupling' \in IF epoch.first /\ coupling = "off" THEN {"off"} ELSE Ramped
    BY <1>2 DEF Advances
  <2>2. coupling' \in {"off", "initializing", "initialized", "active"}
    BY <1>2, <2>1 DEF Ramped, TypeOK, Free
  <2>3. epoch.first => coupling' = coupling /\ coupling' # "initializing"
    BY <1>2, <2>1 DEF Ramped, VacuumInv
  <2>4. ~epoch.first => TRUE
    OBVIOUS
  <2> DEFINE run == ~epoch.first \/ coupling = "initialized"
             due == epoch.fresh \/ coupling' # coupling \/ host.vacuum.factors = None
  <2>5. PICK full \in IF due THEN {TRUE} ELSE BOOLEAN :
          vac' = [vac EXCEPT !.run = run, !.full = run /\ full,
                             !.decay = run /\ coupling' # "off"]
    BY <1>2 DEF Advances
  <2>6. vac' \in VacuumType /\ vac'.run = run /\ vac'.full = (run /\ full)
        /\ vac'.edge = vac.edge /\ vac'.resident = vac.resident
    BY <2>5 DEF TypeOK, VacuumType
  <2>7. coupling' = "initialized" => run
    BY <2>1, <2>3 DEF Ramped
  <2> QED
    BY <1>2, <2>2, <2>3, <2>5, <2>6, <2>7 DEF Free
<1> QED
  BY <1>1, <1>2

LEMMA RunStep == IInv /\ RunStageInverse => IInv' /\ Undisturbed
<1> SUFFICES ASSUME IInv, RunStageInverse PROVE IInv' /\ Undisturbed
  OBVIOUS
<1> USE DEF IInv
<1>1. /\ pc = "run" /\ pc' = "mapped" /\ newton' = NoNewton
      /\ UNCHANGED <<handle, deferred, epoch, answer, entry>>
      /\ host' = IF handle.iteration = NoHandle THEN Extended(host) ELSE host
  BY DEF RunStageInverse
<1>2. /\ vac' \in VacuumType
      /\ coupling' \in {"fixed", "off", "initializing", "initialized", "active"}
      /\ Free' = Free /\ vac'.edge = vac.edge /\ vac'.resident = vac.resident
      /\ ~Free => UNCHANGED <<vac, coupling>>
      /\ Free => /\ vac'.run /\ ~vac'.full => host.vacuum.factors # None
                 /\ coupling' = "initialized" => vac'.run
                 /\ ~vac'.run => epoch.first
                 /\ epoch.first => coupling' # "initializing"
  BY AdvanceIs DEF RunStageInverse
<1>3. /\ host' \in HostType /\ host'.state.of = host.state.of
      /\ host'.velocity = host.velocity /\ host'.checkpoint = host.checkpoint
      /\ SameCaches(host', host)
      /\ handle.iteration = NoHandle => host'.state.axis
  <2>1. host \in HostType /\ SameCaches(host, host)
    BY DEF TypeOK, SameCaches
  <2>2. CASE handle.iteration = NoHandle
    BY <1>1, <2>1, <2>2, HostTypes
  <2>3. CASE handle.iteration # NoHandle
    BY <1>1, <2>1, <2>3
  <2> QED
    BY <2>2, <2>3
<1>4. /\ host'.tcon = host.tcon /\ host'.reference = host.reference
      /\ host'.factors = host.factors /\ host'.vacuum = host.vacuum
  BY <1>3 DEF SameCaches
<1>5. PICK gauge \in Gauges :
        LET in == MakeIterationCase(host', vac', gauge)
            q == IF Free THEN Prefix(Queue(gpu), in)
                 ELSE EnqueueIteration(Queue(gpu), in)
        IN  case' = in /\ gpu' = q.gpu /\ read' = q.read
  BY BrowserPassAssumption DEF RunStageInverse
<1> DEFINE q == Queue(gpu)
           s == InverseInput(gpu, handle.iteration, host'.state)
<1>6. IsQueue(q) /\ q.gpu = gpu /\ \A name \in Readbacks : q.read[name] = None
  BY QueueIs DEF TypeOK
<1>7. Made(case', host', vac', gauge)
  BY <1>5, CaseMade
<1> HIDE DEF q
<1>8. /\ case'.refresh \in BOOLEAN /\ case'.reset \in BOOLEAN
      /\ ~case'.refresh => handle.elements # NoHandle /\ AcceptedOnes(gpu, case')
      /\ case'.deviceReference \in {NoHandle, "acceptedReference"}
  BY <1>7, MadeIsReady
<1>9. s = Transferred(gpu, handle.iteration, host'.state).of
  BY <1>3 DEF InverseInput, Transferred, HostCoefficients
<1>10. s = InverseInput(q.gpu, case'.device, case'.state)
  BY <1>6, <1>7 DEF Made
<1> HIDE DEF s
<1>11. "reference" \in Readbacks
  BY DEF Readbacks
<1>12. /\ DOMAIN gpu' = Labels /\ DOMAIN read' = Readbacks
       /\ \A l \in Lasting : gpu'[l] = gpu[l]
       /\ EvaluatedPrefix(gpu', read', case', s)
       /\ IF Free THEN /\ gpu'["force"] = Forces(s, None)
                       /\ case'.rows => read'["force"] = Forces(s, None)
          ELSE EvaluatedSuffix(gpu', read', case', s, None)
  <2>1. CASE Free
    <3>1. gpu' = Prefix(q, case').gpu /\ read' = Prefix(q, case').read
      BY <1>5, <2>1 DEF q
    <3>2. PrefixDone(Prefix(q, case'), q, case', s)
      BY <1>6, <1>10, PrefixIs
    <3>3. Lasting \cap (Inverse \cup Fields) = {} /\ Lasting \subseteq Labels
      BY DEF Labels, Lasting, Inverse, Fields, Descents, Snapshots, Corrections
    <3> QED
      BY <1>6, <2>1, <3>1, <3>2, <3>3 DEF PrefixDone, IsQueue
  <2>2. CASE ~Free
    <3>1. gpu' = EnqueueIteration(q, case').gpu /\ read' = EnqueueIteration(q, case').read
      BY <1>5, <2>2 DEF q
    <3>2. q.read["reference"] = None
      BY <1>6, <1>11
    <3>3. LET p == EnqueueIteration(q, case')
          IN  /\ IsQueue(p)
              /\ EvaluatedPrefix(p.gpu, p.read, case', s)
              /\ EvaluatedSuffix(p.gpu, p.read, case', s, None)
              /\ \A l \in Lasting : p.gpu[l] = q.gpu[l]
      BY <1>6, <1>8, <1>10, <3>2, EvaluationIs
    <3> QED
      BY <1>6, <2>2, <3>1, <3>3 DEF IsQueue
  <2> QED
    BY <2>1, <2>2
<1>13. Transferred(gpu', handle.iteration, host'.state).of = s
  BY <1>9, <1>12, LabelFacts DEF Transferred, TypeOK, HandleType, StateHandles
<1>14. TypeOK'
  BY <1>1, <1>2, <1>3, <1>12 DEF TypeOK, VacuumType
<1>15. CopiesInv'
  <2>1. /\ gpu'["descentState"] = gpu["descentState"]
        /\ gpu'["descentVelocity"] = gpu["descentVelocity"]
        /\ handle.descent # NoHandle => gpu'[handle.descent] = gpu[handle.descent]
    BY <1>12, LabelFacts DEF TypeOK, HandleType, StateHandles
  <2>2. ~newton'.tried
    BY <1>1 DEF NoNewton
  <2> QED
    BY <1>1, <1>3, <1>4, <2>1, <2>2 DEF CopiesInv
<1>16. CachesInv'
  <2>1. /\ gpu'["acceptedElements"] = gpu["acceptedElements"]
        /\ gpu'["acceptedMatrix"] = gpu["acceptedMatrix"]
        /\ gpu'["acceptedReference"] = gpu["acceptedReference"]
    BY <1>12, LabelFacts
  <2> QED
    BY <1>1, <1>4, <2>1 DEF CachesInv
<1>17. CaseInv'
  <2>1. FadedReference(vac)' = FadedReference(vac')
    BY <1>4 DEF FadedReference
  <2>2. Refreshing' = Refreshing
    BY <1>1 DEF Refreshing
  <2> QED
    BY <1>1, <1>2, <1>4, <1>7, <1>8, <2>1, <2>2 DEF CaseInv, Made
<1>18. EvaluatedInv'
  <2>1. Current' = s
    BY <1>1, <1>13 DEF Current
  <2> QED
    BY <1>1, <1>2, <1>12, <2>1 DEF EvaluatedInv
<1>19. AnswerInv' /\ NewtonInv' /\ EntryInv'
  BY <1>1 DEF AnswerInv, NewtonInv, EntryInv
<1>20. VacuumInv'
  BY <1>1, <1>2, <1>3, <1>4 DEF VacuumInv
<1>21. CachesNow' = CachesNow
  BY <1>1, <1>2, <1>3, <1>12, LabelFacts, CachesSame
<1>22. Current' = Current
  BY <1>1, <1>3, <1>9, <1>13 DEF Current, Transferred
<1> QED
  BY <1>21, <1>22, <1>14, <1>15, <1>16, <1>17, <1>18, <1>19, <1>20 DEF Undisturbed

(* The map comes back; a commit moves the state to the host, where it is     *)
(* what the device has evaluated.                                            *)
LEMMA ReceiveStep == IInv /\ Receive => IInv' /\ Undisturbed
<1> SUFFICES ASSUME IInv, Receive PROVE IInv' /\ Undisturbed
  OBVIOUS
<1> USE DEF IInv
<1>1. /\ pc = "mapped" /\ pc' = "geometry" /\ deferred' = NoDeferred /\ ~newton.tried
      /\ UNCHANGED <<gpu, read, epoch, vac, coupling, case, newton, answer, entry>>
      /\ host \in HostType /\ handle \in HandleType
  BY DEF Receive, CopiesInv, TypeOK
<1>2. /\ host' \in HostType /\ handle' \in HandleType
      /\ host'.tcon = host.tcon /\ host'.reference = host.reference
      /\ host'.factors = host.factors /\ host'.vacuum = host.vacuum
      /\ handle'.elements = handle.elements /\ handle'.matrix = handle.matrix
      /\ handle'.reference = handle.reference
      /\ handle'.iteration = NoHandle /\ handle'.descent \in {NoHandle, "descentState"}
      /\ host'.state.of = Current
      /\ handle'.descent # NoHandle => gpu[handle'.descent].of = host'.state.of
      /\ handle'.velocity # NoHandle =>
           /\ handle'.descent # NoHandle
           /\ gpu["descentVelocity"] = gpu[handle'.descent].of
      /\ handle'.velocity = NoHandle => host'.velocity = "zero"
      /\ Free /\ epoch.first =>
           /\ host'.state.of = host'.checkpoint /\ host'.state.of = host.state.of
           /\ handle'.descent = NoHandle
  <2>1. CASE deferred = NoDeferred
    <3>1. host' = host /\ handle' = handle
      BY <2>1 DEF Receive
    <3> QED
      BY <1>1, <2>1, <3>1, CurrentIs DEF CopiesInv, VacuumInv
  <2>2. CASE deferred # NoDeferred /\ deferred.keep
    <3> DEFINE moved == [host EXCEPT
                          !.state = [of |-> deferred.of, axis |-> FALSE],
                          !.velocity = "unread",
                          !.checkpoint = IF deferred.refresh THEN deferred.of ELSE @]
    <3>1. host' = Extended(moved) /\ handle' = [handle EXCEPT !.iteration = NoHandle]
      BY <2>2 DEF Receive, Committed
    <3>2. deferred.of \in States
      BY <2>2 DEF TypeOK
    <3>3. /\ moved \in HostType /\ moved.state.of = deferred.of
          /\ moved.tcon = host.tcon /\ moved.reference = host.reference
          /\ moved.factors = host.factors /\ moved.vacuum = host.vacuum
      BY <1>1, <3>2 DEF HostType, Spectral
    <3> HIDE DEF moved
    <3>4. /\ host' \in HostType /\ host'.state.of = deferred.of
          /\ host'.tcon = host.tcon /\ host'.reference = host.reference
          /\ host'.factors = host.factors /\ host'.vacuum = host.vacuum
      BY <3>1, <3>3, HostTypes DEF SameCaches
    <3>5. /\ handle.iteration = "descentState" /\ handle.descent = "descentState"
          /\ handle.velocity = "descentVelocity" /\ ~epoch.first
          /\ gpu["descentState"] = [of |-> deferred.of, axis |-> FALSE]
          /\ gpu["descentVelocity"] = gpu[handle.descent].of
      BY <2>2, NoHandleFacts DEF CopiesInv
    <3>6. Current = deferred.of
      BY <3>5, NoHandleFacts DEF Current, Transferred
    <3>7. /\ handle' \in HandleType /\ handle'.iteration = NoHandle
          /\ handle'.descent = handle.descent /\ handle'.velocity = handle.velocity
          /\ handle'.elements = handle.elements /\ handle'.matrix = handle.matrix
          /\ handle'.reference = handle.reference
      BY <1>1, <3>1 DEF HandleType, StateHandles
    <3> QED
      BY <3>4, <3>5, <3>6, <3>7, NoHandleFacts
  <2>3. CASE deferred # NoDeferred /\ ~deferred.keep
    <3>1. host' = Extended(Restored(host)) /\ handle' = Forgotten(handle)
      BY <2>3 DEF Receive, Committed
    <3>2. /\ handle.iteration = NoHandle /\ host.state.of = host.checkpoint
      BY <2>3 DEF CopiesInv
    <3>3. Current = host.checkpoint
      BY <3>2 DEF Current, Transferred
    <3>4. /\ Restored(host) \in HostType /\ Restored(host).state.of = host.checkpoint
          /\ Restored(host).velocity = "zero"
          /\ Restored(host).tcon = host.tcon /\ Restored(host).reference = host.reference
          /\ Restored(host).factors = host.factors /\ Restored(host).vacuum = host.vacuum
          /\ Restored(host).checkpoint = host.checkpoint
      BY <1>1, HostTypes DEF SameCaches
    <3>5. /\ host' \in HostType /\ host'.state.of = host.checkpoint
          /\ host'.velocity = "zero"
          /\ host'.tcon = host.tcon /\ host'.reference = host.reference
          /\ host'.factors = host.factors /\ host'.vacuum = host.vacuum
          /\ host'.checkpoint = host.checkpoint
      BY <3>1, <3>4, HostTypes DEF SameCaches
    <3> QED
      BY <1>1, <3>1, <3>2, <3>3, <3>5, HandleTypes
  <2> QED
    BY <2>1, <2>2, <2>3
<1>3. Current' = Current /\ Free' = Free
  BY <1>1, <1>2 DEF Current, Transferred, Free
<1>4. TypeOK'
  BY <1>1, <1>2 DEF TypeOK, Free
<1>5. CopiesInv'
  BY <1>1, <1>2 DEF CopiesInv
<1>6. CachesInv'
  BY <1>1, <1>2 DEF CachesInv
<1>7. CaseInv'
  BY <1>1, <1>2, <1>3 DEF CaseInv, FadedReference, Refreshing
<1>8. EvaluatedInv'
  BY <1>1, <1>3 DEF EvaluatedInv
<1>9. AnswerInv' /\ NewtonInv' /\ EntryInv'
  BY <1>1 DEF AnswerInv, NewtonInv, EntryInv
<1>10. VacuumInv'
  BY <1>1, <1>2, <1>3 DEF VacuumInv
<1>11. host'.profiles = host.profiles
  BY <1>1 DEF Receive, Extended, Committed, Restored, HostType
<1>12. CachesNow' = CachesNow
  BY <1>1, <1>2, <1>3, <1>11, CachesSame DEF SameCaches
<1> QED
  BY <1>3, <1>4, <1>5, <1>6, <1>7, <1>8, <1>9, <1>10, <1>12 DEF Undisturbed

LEMMA FallBackStep == IInv /\ FallBack => IInv'
<1> SUFFICES ASSUME IInv, FallBack PROVE IInv'
  OBVIOUS
<1> USE DEF IInv
<1>1. /\ pc = "mapped" /\ ~Free
      /\ read' = [read EXCEPT !.validity = gpu.base, !.base = gpu.base]
      /\ UNCHANGED <<gpu, host, handle, deferred, epoch, vac, coupling, case, newton,
                     pc, answer, entry>>
  BY DEF FallBack
<1>2. /\ DOMAIN read' = Readbacks
      /\ read'["validity"] = gpu["base"] /\ read'["base"] = gpu["base"]
      /\ \A n \in Readbacks \ {"validity", "base"} : read'[n] = read[n]
  BY <1>1 DEF TypeOK, Readbacks
<1>3. {"profiles", "field", "inverse", "invariant", "applied", "tcon", "reference"}
        \subseteq Readbacks \ {"validity", "base"}
  BY DEF Readbacks
<1>4. Current' = Current /\ Free' = Free
  BY <1>1 DEF Current, Free
<1>5. EvaluatedPrefix(gpu, read, case, Current) /\ EvaluatedSuffix(gpu, read, case, Current, None)
  BY <1>1 DEF EvaluatedInv
<1>6. EvaluatedPrefix(gpu, read', case, Current)
  BY <1>2, <1>3, <1>5 DEF EvaluatedPrefix
<1>7. EvaluatedSuffix(gpu, read', case, Current, None)
  BY <1>2, <1>3, <1>5 DEF EvaluatedSuffix
<1>8. EvaluatedInv'
  BY <1>1, <1>4, <1>6, <1>7 DEF EvaluatedInv
<1>9. TypeOK'
  BY <1>1, <1>2, <1>4 DEF TypeOK
<1>10. CopiesInv' /\ CachesInv'
  BY <1>1 DEF CopiesInv, CachesInv
<1>11. CaseInv'
  BY <1>1, <1>4 DEF CaseInv, FadedReference, Refreshing
<1>12. AnswerInv' /\ NewtonInv' /\ EntryInv' /\ VacuumInv'
  BY <1>1, <1>4 DEF AnswerInv, NewtonInv, EntryInv, VacuumInv
<1> QED
  BY <1>8, <1>9, <1>10, <1>11, <1>12

-----------------------------------------------------------------------------
(* Steps that only decide.                                                   *)
LEMMA QuietStep ==
  ASSUME IInv, pc \in {"geometry", "accept", "classify", "decide"},
         pc' \in {"failed", "rejected", "stopped"},
         pc = "accept" => pc' = "failed",
         UNCHANGED <<gpu, read, host, handle, deferred, epoch, vac, coupling, case,
                     newton, entry>>,
         AnswerInv'
  PROVE  IInv'
<1> USE DEF IInv
<1>1. Free' = Free /\ Current' = Current
  BY DEF Free, Current
<1>2. TypeOK'
  BY <1>1 DEF TypeOK
<1>3. CopiesInv' /\ CachesInv'
  BY DEF CopiesInv, CachesInv
<1>4. CaseInv' /\ EvaluatedInv' /\ NewtonInv'
  BY DEF CaseInv, EvaluatedInv, NewtonInv
<1>5. VacuumInv' /\ EntryInv'
  BY <1>1 DEF VacuumInv, EntryInv
<1> QED
  BY <1>2, <1>3, <1>4, <1>5

LEMMA QuietSteps ==
  IInv /\ (RejectGeometry \/ FailFields \/ FailAcceptance \/ Converge) => IInv'
<1> SUFFICES ASSUME IInv, RejectGeometry \/ FailFields \/ FailAcceptance \/ Converge
             PROVE  IInv'
  OBVIOUS
<1>1. CASE RejectGeometry
  <2>1. AnswerInv'
    BY <1>1 DEF RejectGeometry, AnswerInv
  <2> QED
    BY <1>1, <2>1, QuietStep DEF RejectGeometry
<1>2. CASE FailFields
  <2>1. AnswerInv'
    BY <1>2 DEF FailFields, AnswerInv
  <2> QED
    BY <1>2, <2>1, QuietStep DEF FailFields
<1>3. CASE FailAcceptance
  <2>1. AnswerInv'
    BY <1>3 DEF FailAcceptance, AnswerInv
  <2> QED
    BY <1>3, <2>1, QuietStep DEF FailAcceptance, Accepting
<1>4. CASE Converge
  <2>1. pc \in {"classify", "decide"} /\ pc' = "stopped" /\ UNCHANGED <<host, answer>>
    BY <1>4 DEF Converge, Deciding
  <2>2. pc = "decide" => answer.kind # "residual"
    BY DEF IInv, AnswerInv
  <2>3. AnswerInv'
    BY <2>1, <2>2 DEF IInv, AnswerInv
  <2> QED
    BY <1>4, <2>1, <2>3, QuietStep DEF Converge
<1> QED
  BY <1>1, <1>2, <1>3, <1>4

(* A rollback: one state, one momentum, one epoch.                           *)
LEMMA RestoreStep ==
  ASSUME IInv, RestoreCheckpoint, NewEpoch,
         pc \in {"rejected", "classify", "decide"}, pc' \in {"run", "decide"},
         UNCHANGED <<gpu, read, deferred, vac, coupling, case, newton, entry>>,
         AnswerInv'
  PROVE  IInv' /\ Replaced
<1> USE DEF IInv
<1>1. /\ host \in HostType /\ handle \in HandleType
      /\ epoch \in [first : BOOLEAN, fresh : BOOLEAN, age : Nat]
      /\ deferred = NoDeferred
  BY DEF TypeOK, CopiesInv
<1>2. /\ host' \in HostType /\ SameCaches(host', host)
      /\ host'.state.of = host.checkpoint /\ host'.checkpoint = host.checkpoint
      /\ host'.velocity = "zero"
  BY <1>1, HostTypes DEF RestoreCheckpoint
<1>3. /\ handle' \in HandleType
      /\ handle'.iteration = NoHandle /\ handle'.descent = NoHandle
      /\ handle'.velocity = NoHandle
      /\ handle'.elements = handle.elements /\ handle'.matrix = handle.matrix
      /\ handle'.reference = handle.reference
  BY <1>1, HandleTypes DEF RestoreCheckpoint
<1>4. epoch' \in [first : BOOLEAN, fresh : BOOLEAN, age : Nat]
      /\ epoch'.first = epoch.first
  BY <1>1 DEF NewEpoch
<1>5. Free' = Free
  BY DEF Free
<1>6. TypeOK'
  BY <1>2, <1>3, <1>4, <1>5 DEF TypeOK
<1>7. CopiesInv'
  BY <1>1, <1>2, <1>3 DEF CopiesInv
<1>8. CachesInv'
  BY <1>2, <1>3 DEF CachesInv, SameCaches
<1>9. CaseInv' /\ EvaluatedInv' /\ NewtonInv' /\ EntryInv'
  BY DEF CaseInv, EvaluatedInv, NewtonInv, EntryInv
<1>10. VacuumInv'
  BY <1>2, <1>3, <1>4, <1>5 DEF VacuumInv, SameCaches
<1>11. CachesNow' = CachesNow
  BY <1>2, <1>3, <1>5, CachesSame
<1>12. Current' \in States
  BY <1>2, <1>3 DEF Current, Transferred, HostType, Spectral
<1> QED
  BY <1>6, <1>7, <1>8, <1>9, <1>10, <1>11, <1>12 DEF Replaced

LEMMA RestoreSteps ==
  IInv /\ (RestoreRejected \/ SoftRestart \/ RecoverNonfinite) => IInv' /\ Replaced
<1> SUFFICES ASSUME IInv, RestoreRejected \/ SoftRestart \/ RecoverNonfinite
             PROVE  IInv' /\ Replaced
  OBVIOUS
<1>1. CASE RestoreRejected
  <2>1. AnswerInv'
    BY <1>1 DEF RestoreRejected, AnswerInv
  <2> QED
    BY <1>1, <2>1, RestoreStep DEF RestoreRejected
<1>2. CASE SoftRestart
  <2>1. /\ pc = "classify" /\ pc' = "decide" /\ Free /\ UNCHANGED <<gpu, coupling>>
        /\ answer' = [kind |-> "soft", residual |-> answer.residual]
    BY <1>2 DEF SoftRestart, Free
  <2>2. answer.residual = gpu["applied"] /\ gpu["applied"].precon \in Oriented
    BY <2>1 DEF IInv, AnswerInv
  <2>3. AnswerInv'
    BY <2>1, <2>2 DEF AnswerInv, Free
  <2> QED
    BY <1>2, <2>1, <2>3, RestoreStep DEF SoftRestart
<1>3. CASE RecoverNonfinite
  <2>1. AnswerInv'
    BY <1>3 DEF RecoverNonfinite, AnswerInv
  <2> QED
    BY <1>3, <2>1, RestoreStep DEF RecoverNonfinite, Deciding
<1> QED
  BY <1>1, <1>2, <1>3

-----------------------------------------------------------------------------
(* The pressure of the vacuum is pushed on the device, or by the host on what *)
(* it has read: the force is the same.                                       *)
PushedBy(p, q, s, pressure) ==
  /\ IsQueue(p) /\ p.read = q.read
  /\ p.gpu["force"] = Forces(s, [pressure |-> pressure, on |-> s])
  /\ \A l \in Labels \ {"force"} : p.gpu[l] = q.gpu[l]

LEMMA PushedIs ==
  ASSUME NEW q, IsQueue(q), NEW s, NEW pressure, NEW r,
         q.gpu["inverse"] = s, q.gpu["field"] = FieldOf(s),
         q.gpu["force"] = Forces(s, None)
  PROVE  /\ PushedBy(EnqueueVacuumForce(q, pressure), q, s, pressure)
         /\ r["force"] = Forces(s, None) /\ r["inverse"] = s /\ r["field"] = s
              => PushedBy(ApplyVacuumForce(q, r, pressure), q, s, pressure)
<1> DEFINE edge == [pressure |-> pressure, on |-> s]
<1>1. "force" \in Labels
  BY DEF Labels, Fields
<1>2. WholeField(FieldOf(s)) = s
  BY FromOne DEF WholeField, FieldOf
<1>3. Pushed(Forces(s, None), pressure, s) = Forces(s, edge)
  BY DEF Pushed, Added, Forces
<1>4. [Forces(s, None) EXCEPT !.edge = Forces(s, edge).edge] = Forces(s, edge)
  BY DEF Forces
<1>5. EnqueueVacuumForce(q, pressure) = Wrote(q, "force", Forces(s, edge))
  <2>1. From({q.gpu.inverse, WholeField(q.gpu.field)}) = s
    BY <1>2, FromOne
  <2> QED
    BY <1>3, <2>1 DEF EnqueueVacuumForce
<1>6. ASSUME r["force"] = Forces(s, None), r["inverse"] = s, r["field"] = s
      PROVE  ApplyVacuumForce(q, r, pressure) = Wrote(q, "force", Forces(s, edge))
  <2>1. From({r.inverse, r.field}) = s
    BY <1>6, FromOne
  <2> QED
    BY <1>3, <1>4, <1>6, <2>1 DEF ApplyVacuumForce
<1>7. PushedBy(Wrote(q, "force", Forces(s, edge)), q, s, pressure)
  BY <1>1, WroteIs DEF PushedBy
<1> QED
  BY <1>5, <1>6, <1>7

(* What the host makes of the boundary, which is that of the state.          *)
VacuumOf(s, factors) == [boundary |-> s, currents |-> s, factors |-> factors]

LEMMA UpdatedIs ==
  ASSUME IInv, UpdateVacuum
  PROVE  /\ Current = host.state.of /\ host.state.of \in Oriented
         /\ deferred = NoDeferred
         /\ host' \in HostType /\ vac' \in VacuumType
         /\ coupling' \in {"off", "initializing", "initialized", "active"}
         /\ host'.state = host.state /\ host'.velocity = host.velocity
         /\ host'.checkpoint = host.checkpoint /\ host'.tcon = host.tcon
         /\ host'.reference = host.reference /\ host'.factors = host.factors
         /\ host'.vacuum.factors \in {host.vacuum.factors, host.state.of}
         /\ vac'.edge => /\ host'.vacuum = VacuumOf(host.state.of, host'.vacuum.factors)
                         /\ host'.vacuum.factors \in Oriented
         /\ vac'.run = vac.run /\ vac'.full = vac.full /\ vac'.decay = vac.decay
         /\ vac'.resident = vac.resident
         /\ epoch.first => coupling' # "initializing"
         /\ coupling' = "initialized" => vac'.edge
<1> USE DEF IInv
<1> DEFINE s == host.state.of
<1>1. /\ pc = "geometry" /\ Free /\ read["validity"] \in Oriented
      /\ host' = IF vac.run
                 THEN [AcceptMagnetic(host) EXCEPT !.vacuum = UpdatedPressure]
                 ELSE AcceptMagnetic(host)
      /\ coupling' = IF vac.run THEN Promoted(coupling) ELSE coupling
      /\ vac' = IF vac.run THEN [vac EXCEPT !.edge = coupling' # "off"] ELSE vac
  BY DEF UpdateVacuum, ValidJacobian
<1>2. deferred = NoDeferred /\ host \in HostType /\ vac \in VacuumType
  BY <1>1 DEF CopiesInv, TypeOK, VacuumType
<1>3. Current = s
  BY <1>2, CurrentIs
<1>4. /\ EvaluatedPrefix(gpu, read, case, s) /\ case.readback = "slices"
  BY <1>1, <1>3 DEF EvaluatedInv, CaseInv
<1>5. /\ s \in Oriented /\ read["inverse"] = s /\ read["field"] = s
      /\ read["profiles"] \in States \cup {None}
  BY <1>1, <1>4, BrowserPassAssumption DEF EvaluatedPrefix
<1>6. UpdatedPressure = VacuumOf(s, IF vac.full THEN s ELSE host.vacuum.factors)
  <2>1. From({host.state.of, read.inverse}) = s
    BY <1>5, FromOne
  <2> QED
    BY <1>5, <2>1 DEF UpdatedPressure, VacuumOf
<1>7. UpdatedPressure \in [boundary : Accurate, currents : Accurate, factors : Accurate]
  BY <1>2, <1>5, <1>6 DEF VacuumOf, HostType, Accurate
<1>8. /\ AcceptMagnetic(host) \in HostType
      /\ AcceptMagnetic(host).state = host.state
      /\ AcceptMagnetic(host).velocity = host.velocity
      /\ AcceptMagnetic(host).checkpoint = host.checkpoint
      /\ AcceptMagnetic(host).tcon = host.tcon
      /\ AcceptMagnetic(host).reference = host.reference
      /\ AcceptMagnetic(host).factors = host.factors
      /\ AcceptMagnetic(host).vacuum = host.vacuum
  BY <1>2, <1>5 DEF AcceptMagnetic, HostType
<1>9. /\ host' \in HostType
      /\ host'.state = host.state /\ host'.velocity = host.velocity
      /\ host'.checkpoint = host.checkpoint /\ host'.tcon = host.tcon
      /\ host'.reference = host.reference /\ host'.factors = host.factors
      /\ host'.vacuum = IF vac.run THEN UpdatedPressure ELSE host.vacuum
  <2>1. CASE vac.run
    BY <1>1, <1>7, <1>8, <2>1 DEF HostType
  <2>2. CASE ~vac.run
    BY <1>1, <1>8, <2>2
  <2> QED
    BY <2>1, <2>2
<1>10. /\ vac' \in VacuumType
       /\ vac'.run = vac.run /\ vac'.full = vac.full /\ vac'.decay = vac.decay
       /\ vac'.resident = vac.resident
       /\ vac.run => vac'.edge = (coupling' # "off")
       /\ ~vac.run => vac'.edge = vac.edge
  BY <1>1, <1>2 DEF VacuumType
<1>11. /\ coupling' \in {"off", "initializing", "initialized", "active"}
       /\ epoch.first => coupling' # "initializing"
       /\ coupling' = "initialized" => vac'.edge
  BY <1>1, <1>10 DEF Promoted, TypeOK, Free, VacuumInv
<1>12. /\ host'.vacuum.factors \in {host.vacuum.factors, s}
       /\ vac'.edge => /\ host'.vacuum = VacuumOf(s, host'.vacuum.factors)
                       /\ host'.vacuum.factors \in Oriented
  <2>1. CASE vac.run
    <3>1. host.vacuum.factors \in Oriented \cup {None}
      BY <1>2 DEF HostType, Accurate
    <3>2. ~vac.full => host.vacuum.factors \in Oriented
      BY <1>1, <2>1, <3>1 DEF VacuumInv
    <3> QED
      BY <1>5, <1>6, <1>9, <2>1, <3>2 DEF VacuumOf
  <2>2. CASE ~vac.run
    <3>1. epoch.first /\ host'.vacuum = host.vacuum /\ vac'.edge = vac.edge
      BY <1>1, <1>9, <1>10, <2>2 DEF VacuumInv
    <3>2. vac.edge => host.vacuum \in [boundary : {s}, currents : {s},
                                       factors : Oriented]
      BY <1>1, <3>1 DEF VacuumInv
    <3> QED
      BY <3>1, <3>2 DEF VacuumOf
  <2> QED
    BY <2>1, <2>2
<1> QED
  BY <1>2, <1>3, <1>5, <1>9, <1>10, <1>11, <1>12

LEMMA UpdateStep == IInv /\ UpdateVacuum => IInv' /\ Current' = Current
<1> SUFFICES ASSUME IInv, UpdateVacuum PROVE IInv' /\ Current' = Current
  OBVIOUS
<1> USE DEF IInv
<1> DEFINE s == host.state.of
           before == Queue(gpu)
           forced == IF ~vac'.edge THEN before
                     ELSE IF vac.resident
                          THEN EnqueueVacuumForce(before, host'.vacuum)
                          ELSE ApplyVacuumForce(before, read, host'.vacuum)
           q == Suffix(forced, case')
           edge == IF vac'.edge THEN [pressure |-> host'.vacuum, on |-> s] ELSE None
<1>1. /\ pc = "geometry" /\ Free /\ pc' = "accept" /\ entry' = <<CachesNow>>
      /\ UNCHANGED <<handle, deferred, epoch, newton, answer>>
      /\ case' = MakeIterationCase(host', vac', case.gauge)
      /\ gpu' = q.gpu
      /\ read' = [name \in Readbacks |->
                    IF name \in PrefixReadbacks THEN read[name] ELSE q.read[name]]
  BY DEF UpdateVacuum
<1>2. /\ Current = s /\ s \in Oriented /\ deferred = NoDeferred
      /\ host' \in HostType /\ vac' \in VacuumType
      /\ coupling' \in {"off", "initializing", "initialized", "active"}
      /\ host'.state = host.state /\ host'.velocity = host.velocity
      /\ host'.checkpoint = host.checkpoint /\ host'.tcon = host.tcon
      /\ host'.reference = host.reference /\ host'.factors = host.factors
      /\ host'.vacuum.factors \in {host.vacuum.factors, s}
      /\ vac'.edge => /\ host'.vacuum = VacuumOf(s, host'.vacuum.factors)
                      /\ host'.vacuum.factors \in Oriented
      /\ vac'.run = vac.run /\ vac'.full = vac.full /\ vac'.decay = vac.decay
      /\ vac'.resident = vac.resident
      /\ epoch.first => coupling' # "initializing"
      /\ coupling' = "initialized" => vac'.edge
  BY UpdatedIs
<1>3. Free'
  BY <1>2 DEF Free
<1>4. Made(case', host', vac', case.gauge)
  BY <1>1, CaseMade
<1>5. /\ case'.refresh \in BOOLEAN /\ case'.reset \in BOOLEAN
      /\ ~case'.refresh => handle.elements # NoHandle /\ AcceptedOnes(gpu, case')
      /\ case'.deviceReference \in {NoHandle, "acceptedReference"}
  BY <1>4, MadeIsReady
<1>6. /\ EvaluatedPrefix(gpu, read, case, s) /\ gpu["force"] = Forces(s, None)
      /\ ~vac.resident => read["force"] = Forces(s, None)
      /\ read["inverse"] = s /\ read["field"] = s
      /\ case.refresh = Refreshing /\ case.readback = "slices" /\ case.gauge \in Gauges
  BY <1>1, <1>2 DEF EvaluatedInv, CaseInv, EvaluatedPrefix
<1>7. IsQueue(before) /\ before.gpu = gpu /\ before.read["reference"] = None
  BY QueueIs DEF TypeOK, Readbacks
<1> HIDE DEF before
<1>8. /\ IsQueue(forced) /\ forced.read["reference"] = None
      /\ forced.gpu["force"] = Forces(s, edge)
      /\ \A l \in Labels \ {"force"} : forced.gpu[l] = gpu[l]
  <2>1. before.gpu["inverse"] = s /\ before.gpu["field"] = FieldOf(s)
        /\ before.gpu["force"] = Forces(s, None)
    BY <1>6, <1>7 DEF EvaluatedPrefix
  <2>2. vac'.edge => PushedBy(forced, before, s, host'.vacuum)
    BY <1>6, <1>7, <2>1, PushedIs
  <2> QED
    BY <1>6, <1>7, <2>2 DEF PushedBy
<1> HIDE DEF forced
<1>9. /\ forced.gpu["inverse"] = s /\ forced.gpu["base"] = s
      /\ forced.gpu["field"] = FieldOf(s)
      /\ forced.gpu["acceptedElements"] = gpu["acceptedElements"]
      /\ forced.gpu["acceptedMatrix"] = gpu["acceptedMatrix"]
  BY <1>6, <1>8 DEF EvaluatedPrefix, Labels, Inverse, Fields, Snapshots
<1>10. ~case'.refresh => AcceptedOnes(forced.gpu, case')
  BY <1>5, <1>9 DEF AcceptedOnes
<1>11. /\ IsQueue(q)
       /\ EvaluatedSuffix(q.gpu, q.read, case', s, IF case'.lcfs THEN edge ELSE None)
       /\ \A l \in Labels \ Scratch : q.gpu[l] = forced.gpu[l]
  BY <1>5, <1>8, <1>9, <1>10, SuffixIs
<1> HIDE DEF q
<1>12. /\ DOMAIN gpu' = Labels /\ DOMAIN read' = Readbacks
       /\ \A n \in PrefixReadbacks : read'[n] = read[n]
       /\ \A n \in SuffixReads : read'[n] = q.read[n]
  BY <1>1, <1>11, LabelFacts DEF IsQueue
<1>13. /\ \A l \in Lasting : gpu'[l] = gpu[l]
       /\ gpu'["inverse"] = gpu["inverse"] /\ gpu'["base"] = gpu["base"]
       /\ gpu'["field"] = gpu["field"]
  <2>1. Lasting \cap Scratch = {} /\ Lasting \cap {"force"} = {}
        /\ {"inverse", "base", "field"} \subseteq Labels \ Scratch
    BY DEF Labels, Lasting, Scratch, Inverse, Fields, Projections, Constraints,
           Preconditioners, Descents, Snapshots, Corrections
  <2> QED
    BY <1>1, <1>8, <1>11, <2>1, LabelFacts
<1>14. EvaluatedPrefix(gpu', read', case', s)
  <2>1. case'.refresh = case.refresh /\ case'.readback = case.readback
    BY <1>1, <1>4, <1>6 DEF Made
  <2>2. {"inverse", "validity", "base", "profiles", "field"} \subseteq PrefixReadbacks
    BY DEF PrefixReadbacks
  <2> QED
    BY <1>6, <1>12, <1>13, <2>1, <2>2 DEF EvaluatedPrefix
<1>15. EvaluatedSuffix(gpu', read', case', s, Edge(s)')
  <2>1. Edge(s)' = IF case'.lcfs THEN edge ELSE None
    <3>1. /\ case'.lcfs = vac'.edge /\ vac'.edge \in BOOLEAN
          /\ host'.state.of = s
      BY <1>1, <1>2, <1>4 DEF Made, VacuumType
    <3>2. Edge(s)' = IF vac'.edge THEN [pressure |-> host'.vacuum, on |-> s] ELSE None
      BY <1>3, <3>1 DEF Edge
    <3> QED
      BY <3>1, <3>2
  <2>2. {"invariant", "applied", "tcon", "reference"} \subseteq SuffixReads
    BY DEF SuffixReads
  <2> QED
    BY <1>1, <1>11, <1>12, <2>1, <2>2 DEF EvaluatedSuffix
<1>16. Current' = s
  BY <1>1, <1>2, <1>13, LabelFacts DEF Current, Transferred, TypeOK, HandleType, StateHandles
<1>17. /\ \A l \in {"descentState", "descentVelocity", "acceptedElements",
                    "acceptedMatrix", "acceptedReference"} : gpu'[l] = gpu[l]
       /\ handle.descent # NoHandle => gpu'[handle.descent] = gpu[handle.descent]
  BY <1>13, LabelFacts DEF TypeOK, HandleType, StateHandles
<1>18. TypeOK'
  BY <1>1, <1>2, <1>3, <1>12 DEF TypeOK, VacuumType
<1>19. CopiesInv'
  BY <1>1, <1>2, <1>17 DEF CopiesInv
<1>20. CachesInv'
  BY <1>1, <1>2, <1>17 DEF CachesInv
<1>21. CaseInv'
  <2>1. Refreshing' = Refreshing /\ FadedReference(vac)' = FadedReference(vac')
    BY <1>1, <1>2 DEF Refreshing, FadedReference
  <2> QED
    BY <1>1, <1>2, <1>3, <1>4, <1>5, <1>6, <2>1 DEF CaseInv, Made, Free
<1>22. EvaluatedInv'
  BY <1>1, <1>2, <1>3, <1>14, <1>15, <1>16 DEF EvaluatedInv
<1>23. AnswerInv' /\ NewtonInv'
  BY <1>1 DEF AnswerInv, NewtonInv
<1>24. VacuumInv'
  BY <1>1, <1>2 DEF VacuumInv, VacuumOf, HostType
<1>25. EntryInv'
  <2>1. CachesNow = [CachesNow' EXCEPT !.vacuum = host.vacuum.factors]
    <3>1. /\ handle' = handle /\ Free /\ Free'
          /\ host'.tcon = host.tcon /\ host'.factors = host.factors
          /\ host'.reference = host.reference
      BY <1>1, <1>2, <1>3
    <3>2. handle.elements # NoHandle =>
            gpu'[handle.elements] = gpu[handle.elements]
            /\ gpu'[handle.matrix] = gpu[handle.matrix]
      BY <1>17 DEF TypeOK, HandleType, CachesInv
    <3> QED
      BY <3>1, <3>2 DEF CachesNow, Transferred
  <2>2. host.vacuum.factors \in Accurate
    BY DEF TypeOK, HostType
  <2> QED
    BY <1>1, <1>2, <2>1, <2>2 DEF EntryInv, VacuumOf
<1> QED
  BY <1>2, <1>16, <1>18, <1>19, <1>20, <1>21, <1>22, <1>23, <1>24, <1>25

-----------------------------------------------------------------------------
(* What an accepted evaluation was of.                                       *)
LEMMA AcceptableIs ==
  ASSUME IInv, Accepting
  PROVE  /\ pc \in {"geometry", "accept"} /\ deferred = NoDeferred
         /\ Current = host.state.of /\ host.state.of \in Oriented
         /\ EvaluatedPrefix(gpu, read, case, host.state.of)
         /\ EvaluatedSuffix(gpu, read, case, host.state.of, Edge(host.state.of))
         /\ ~case.refresh => handle.elements # NoHandle
         /\ case.refresh \in BOOLEAN /\ case.reset \in BOOLEAN /\ case.gauge \in Gauges
         /\ case.tcon = host.tcon
         /\ case.deviceReference = IF Free THEN NoHandle ELSE handle.reference
         /\ case.reference = FadedReference(vac)
<1> USE DEF IInv
<1>1. pc \in {"geometry", "accept"} /\ deferred = NoDeferred
  BY DEF Accepting, CopiesInv
<1>2. Current = host.state.of
  BY <1>1, CurrentIs
<1>3. /\ Current \in Oriented
      /\ EvaluatedPrefix(gpu, read, case, Current)
      /\ EvaluatedSuffix(gpu, read, case, Current, Edge(Current))
  <2>1. CASE Free
    BY <2>1 DEF Accepting, EvaluatedInv
  <2>2. CASE ~Free
    <3>1. /\ EvaluatedPrefix(gpu, read, case, Current)
          /\ EvaluatedSuffix(gpu, read, case, Current, None)
          /\ read["validity"] \in Oriented
      BY <2>2 DEF Accepting, EvaluatedInv, ValidJacobian
    <3>2. Edge(Current) = None
      BY <2>2 DEF Edge
    <3> QED
      BY <3>1, <3>2 DEF EvaluatedPrefix
  <2> QED
    BY <2>1, <2>2
<1>4. /\ ~case.refresh => handle.elements # NoHandle
      /\ case.refresh \in BOOLEAN /\ case.reset \in BOOLEAN /\ case.gauge \in Gauges
      /\ case.tcon = host.tcon
      /\ case.deviceReference = IF Free THEN NoHandle ELSE handle.reference
      /\ case.reference = FadedReference(vac)
  BY <1>1 DEF CaseInv
<1> QED
  BY <1>1, <1>2, <1>3, <1>4

(* The reference of the constraint is of an earlier state, or of none.       *)
LEMMA ReferenceType ==
  ASSUME IInv, Accepting
  PROVE  ReferenceOf(gpu, case, host.state.of) \in References
<1>1. /\ case.deviceReference = IF Free THEN NoHandle ELSE handle.reference
      /\ case.reference = FadedReference(vac)
      /\ host.state.of \in States
  BY AcceptableIs, BrowserPassAssumption
<1>2. host.reference \in References
  BY DEF IInv, TypeOK, HostType
<1>3. FadedReference(vac) \in References
  BY <1>2 DEF FadedReference, DecayVacuumReference, References
<1>4. handle.reference # NoHandle =>
        handle.reference = "acceptedReference" /\ gpu["acceptedReference"] \in References
  BY DEF IInv, TypeOK, HandleType, CachesInv
<1>5. [of |-> host.state.of, decays |-> 0] \in References
  BY <1>1 DEF References
<1>6. Transferred(gpu, case.deviceReference, case.reference) \in References
  BY <1>1, <1>3, <1>4 DEF Transferred
<1> QED
  BY <1>5, <1>6 DEF ReferenceOf

(* The copies that acceptance makes, and what it leaves as it was.           *)
CopiesMade(g, h, gpuThen, handleThen) ==
  /\ DOMAIN gpuThen = Labels /\ handleThen \in HandleType
  /\ gpuThen["acceptedElements"] = IF case.refresh THEN g["elements"] ELSE g["acceptedElements"]
  /\ gpuThen["acceptedMatrix"] = IF case.refresh THEN g["matrix"] ELSE g["acceptedMatrix"]
  /\ gpuThen["acceptedReference"] = g["head"].reference
  /\ \A l \in Labels \ Snapshots : gpuThen[l] = g[l]
  /\ handleThen.elements = IF case.refresh THEN "acceptedElements" ELSE h.elements
  /\ handleThen.matrix = IF case.refresh THEN "acceptedMatrix" ELSE h.matrix
  /\ handleThen.reference = "acceptedReference"
  /\ handleThen.iteration = h.iteration /\ handleThen.descent = h.descent
  /\ handleThen.velocity = h.velocity /\ handleThen.residual = h.residual

KeptHost(h) ==
  [h EXCEPT !.reference = IF read.reference = None THEN NoReference ELSE read.reference,
            !.tcon = read.tcon]

LEMMA KeptIs ==
  ASSUME IInv, AcceptResidual
  PROVE  /\ CopiesMade(gpu, handle, gpu', handle')
         /\ host' = [AcceptMagnetic(KeptHost(host)) EXCEPT !.factors = Normalization]
<1> USE DEF IInv
<1>1. /\ DOMAIN gpu = Labels /\ handle \in HandleType
      /\ {"elements", "matrix", "head"} \subseteq Labels \ Snapshots
      /\ Snapshots \subseteq Labels
      /\ NoHandle \notin {"elements", "matrix"}
  BY BrowserPassAssumption DEF TypeOK, Labels, Inverse, Fields, Projections,
     Constraints, Preconditioners, Snapshots, Descents, Corrections
<1> DEFINE a == AcceptElements(Kept)
           b == AcceptMatrix(a)
           rebuilt == IF case.refresh THEN b ELSE Kept
           kept == AcceptConstraint(rebuilt)
<1>2. /\ gpu' = kept.gpu /\ handle' = kept.handle
      /\ host' = [AcceptMagnetic(kept.host) EXCEPT !.factors = Normalization]
  BY DEF AcceptResidual
<1>3. Kept = [gpu |-> gpu, handle |-> handle, host |-> host]
  BY DEF Kept
<1>4. a = [gpu |-> [gpu EXCEPT !["acceptedElements"] = gpu["elements"]],
           handle |-> [handle EXCEPT !.elements = "acceptedElements"], host |-> host]
  <2> DEFINE copy == Captured(gpu, "elements", "acceptedElements")
  <2>1. /\ copy.gpu = [gpu EXCEPT !["acceptedElements"] = gpu["elements"]]
        /\ copy.handle = "acceptedElements"
    BY <1>1 DEF Captured
  <2>2. a = [Kept EXCEPT !.gpu = copy.gpu, !.handle.elements = copy.handle]
    BY <1>3 DEF AcceptElements
  <2> HIDE DEF copy, a
  <2> QED
    BY <1>3, <2>1, <2>2
<1> HIDE DEF a
<1>5. /\ DOMAIN a.gpu = Labels /\ a.gpu["acceptedElements"] = gpu["elements"]
      /\ \A l \in Labels \ {"acceptedElements"} : a.gpu[l] = gpu[l]
      /\ a.handle \in HandleType /\ a.handle.elements = "acceptedElements"
      /\ a.handle.matrix = handle.matrix /\ a.handle.reference = handle.reference
      /\ a.handle.iteration = handle.iteration /\ a.handle.descent = handle.descent
      /\ a.handle.velocity = handle.velocity /\ a.handle.residual = handle.residual
      /\ a.host = host
      /\ a = [gpu |-> a.gpu, handle |-> a.handle, host |-> a.host]
  BY <1>1, <1>4 DEF HandleType, Snapshots
<1>6. b = [gpu |-> [a.gpu EXCEPT !["acceptedMatrix"] = a.gpu["matrix"]],
           handle |-> [a.handle EXCEPT !.matrix = "acceptedMatrix"], host |-> host]
  <2> DEFINE copy == Captured(a.gpu, "matrix", "acceptedMatrix")
  <2>1. /\ copy.gpu = [a.gpu EXCEPT !["acceptedMatrix"] = a.gpu["matrix"]]
        /\ copy.handle = "acceptedMatrix"
    BY <1>1 DEF Captured
  <2>2. b = [a EXCEPT !.gpu = copy.gpu, !.handle.matrix = copy.handle]
    BY DEF AcceptMatrix
  <2> HIDE DEF copy, b
  <2> QED
    BY <1>5, <2>1, <2>2
<1> HIDE DEF b
<1>7. /\ DOMAIN b.gpu = Labels /\ b.gpu["acceptedElements"] = gpu["elements"]
      /\ b.gpu["acceptedMatrix"] = gpu["matrix"]
      /\ \A l \in Labels \ {"acceptedElements", "acceptedMatrix"} : b.gpu[l] = gpu[l]
      /\ b.handle \in HandleType /\ b.handle.elements = "acceptedElements"
      /\ b.handle.matrix = "acceptedMatrix" /\ b.handle.reference = handle.reference
      /\ b.handle.iteration = handle.iteration /\ b.handle.descent = handle.descent
      /\ b.handle.velocity = handle.velocity /\ b.handle.residual = handle.residual
      /\ b.host = host
      /\ b = [gpu |-> b.gpu, handle |-> b.handle, host |-> b.host]
  BY <1>1, <1>5, <1>6 DEF HandleType, Snapshots
<1>8. /\ DOMAIN rebuilt.gpu = Labels
      /\ rebuilt.gpu["acceptedElements"]
           = IF case.refresh THEN gpu["elements"] ELSE gpu["acceptedElements"]
      /\ rebuilt.gpu["acceptedMatrix"]
           = IF case.refresh THEN gpu["matrix"] ELSE gpu["acceptedMatrix"]
      /\ \A l \in Labels \ {"acceptedElements", "acceptedMatrix"} : rebuilt.gpu[l] = gpu[l]
      /\ rebuilt.handle \in HandleType
      /\ rebuilt.handle.elements = IF case.refresh THEN "acceptedElements" ELSE handle.elements
      /\ rebuilt.handle.matrix = IF case.refresh THEN "acceptedMatrix" ELSE handle.matrix
      /\ rebuilt.handle.iteration = handle.iteration
      /\ rebuilt.handle.descent = handle.descent
      /\ rebuilt.handle.velocity = handle.velocity
      /\ rebuilt.handle.residual = handle.residual
      /\ rebuilt.host = host
      /\ rebuilt = [gpu |-> rebuilt.gpu, handle |-> rebuilt.handle, host |-> rebuilt.host]
  BY <1>1, <1>3, <1>7
<1> HIDE DEF rebuilt
<1> DEFINE third == [rebuilt.gpu EXCEPT !["acceptedReference"] = rebuilt.gpu.head.reference]
           held == [rebuilt.handle EXCEPT !.reference = "acceptedReference"]
<1>9. kept = [gpu |-> third, handle |-> held, host |-> KeptHost(host)]
  <2>1. kept.gpu = third /\ kept.handle = held /\ kept.host = KeptHost(host)
    BY <1>8 DEF AcceptConstraint, KeptHost
  <2>2. kept = [gpu |-> kept.gpu, handle |-> kept.handle, host |-> kept.host]
    <3> DEFINE there == read.reference
               then == IF there = None THEN NoReference ELSE there
               tcon == read.tcon
    <3>1. kept = [rebuilt EXCEPT !.gpu["acceptedReference"] = rebuilt.gpu.head.reference,
                                 !.handle.reference = "acceptedReference",
                                 !.host.reference = then, !.host.tcon = tcon]
      BY DEF AcceptConstraint
    <3> HIDE DEF then, tcon, kept
    <3> QED
      BY <1>8, <3>1
  <2> QED
    BY <2>1, <2>2
<1> HIDE DEF kept
<1>10. /\ DOMAIN third = Labels /\ third["acceptedReference"] = rebuilt.gpu["head"].reference
       /\ \A l \in Labels \ {"acceptedReference"} : third[l] = rebuilt.gpu[l]
       /\ rebuilt.gpu["head"] = gpu["head"]
  BY <1>1, <1>8 DEF Snapshots
<1>11. held \in HandleType /\ held.reference = "acceptedReference"
       /\ held.elements = rebuilt.handle.elements /\ held.matrix = rebuilt.handle.matrix
       /\ held.iteration = rebuilt.handle.iteration /\ held.descent = rebuilt.handle.descent
       /\ held.velocity = rebuilt.handle.velocity /\ held.residual = rebuilt.handle.residual
  BY <1>8 DEF HandleType
<1> HIDE DEF third, held
<1>12. gpu' = third /\ handle' = held
       /\ host' = [AcceptMagnetic(KeptHost(host)) EXCEPT !.factors = Normalization]
  BY <1>2, <1>9
<1>13. CopiesMade(gpu, handle, third, held)
  BY <1>1, <1>8, <1>10, <1>11 DEF CopiesMade, Snapshots
<1> QED
  BY <1>12, <1>13

(* What the host and the device have after a residual was accepted.          *)
AcceptedAs(s, R, precon, residual) ==
  /\ gpu'["acceptedElements"] = precon /\ gpu'["acceptedMatrix"] = precon
  /\ gpu'["acceptedReference"] = R
  /\ host'.tcon = MultiplierOf(case, s)
  /\ host'.factors = IF case.refresh THEN s ELSE host.factors
  /\ host'.reference \in {R, NoReference}
  /\ Free => host'.reference = R
  /\ host'.profiles = IF EvolveCurrent THEN s ELSE None
  /\ host' \in HostType /\ host'.factors \in Oriented /\ host'.tcon \in Oriented
  /\ host'.state = host.state /\ host'.velocity = host.velocity
  /\ host'.checkpoint = host.checkpoint /\ host'.vacuum = host.vacuum
  /\ handle'.elements = "acceptedElements" /\ handle'.matrix = "acceptedMatrix"
  /\ handle'.reference = "acceptedReference"
  /\ gpu["applied"] = Solved(residual, precon) /\ read["invariant"] = residual
  /\ Accepted = gpu["applied"]
  /\ precon \in Oriented /\ R \in References
  /\ answer' = [kind |-> "residual", residual |-> gpu["applied"],
                factors |-> host'.factors]

LEMMA AcceptedIs ==
  ASSUME IInv, AcceptResidual
  PROVE  AcceptedAs(host.state.of, ReferenceOf(gpu, case, host.state.of),
                    PreconOf(gpu, case, host.state.of),
                    ResidualOf(gpu, case, host.state.of, Edge(host.state.of)))
<1> USE DEF IInv
<1> DEFINE s == host.state.of
           R == ReferenceOf(gpu, case, s)
           precon == PreconOf(gpu, case, s)
           residual == ResidualOf(gpu, case, s, Edge(s))
<1>1. Accepting
  BY DEF AcceptResidual
<1>2. /\ s \in Oriented
      /\ EvaluatedPrefix(gpu, read, case, s)
      /\ EvaluatedSuffix(gpu, read, case, s, Edge(s))
      /\ ~case.refresh => handle.elements # NoHandle
      /\ case.refresh \in BOOLEAN /\ case.tcon = host.tcon
  BY <1>1, AcceptableIs
<1>3. R \in References
  BY <1>1, ReferenceType
<1>4. /\ CopiesMade(gpu, handle, gpu', handle')
      /\ host' = [AcceptMagnetic(KeptHost(host)) EXCEPT !.factors = Normalization]
  BY KeptIs
<1>5. /\ gpu["head"].reference = R
      /\ gpu["applied"] = Solved(residual, precon)
      /\ case.refresh => gpu["elements"] = s /\ gpu["matrix"] = s
      /\ read["invariant"] = residual /\ read["applied"] = gpu["applied"]
      /\ read["tcon"] = MultiplierOf(case, s)
      /\ read["reference"] \in {R, None}
      /\ case.readback # "finite" => read["reference"] = R
  BY <1>2 DEF EvaluatedSuffix
<1>6. /\ read["profiles"] = IF EvolveCurrent THEN s ELSE None
      /\ case.refresh => read["base"] = s /\ read["field"] = s
  BY <1>2 DEF EvaluatedPrefix
<1>7. Free => R # None /\ read["reference"] = R
  <2>1. Free => case.readback = "slices"
    BY <1>1 DEF CaseInv, Accepting
  <2>2. R # None
    BY <1>3, NoneAssumption DEF References
  <2> QED
    BY <1>5, <2>1, <2>2
<1>8. ~case.refresh => /\ gpu["acceptedElements"] \in Oriented
                       /\ gpu["acceptedMatrix"] = gpu["acceptedElements"]
                       /\ handle.elements = "acceptedElements"
                       /\ handle.matrix = "acceptedMatrix"
                       /\ host.tcon \in Oriented /\ host.factors \in Oriented
  BY <1>2 DEF CachesInv, TypeOK, HandleType
<1>9. MultiplierOf(case, s) \in Oriented /\ precon \in Oriented
  BY <1>2, <1>8 DEF MultiplierOf, PreconOf
<1>10. Normalization = IF case.refresh THEN s ELSE host.factors
  <2>1. case.refresh => From({host.state.of, read.base, read.field}) = s
    BY <1>6, FromOne
  <2>2. ~case.refresh => host.factors # None
    BY <1>8, BrowserPassAssumption
  <2> QED
    BY <2>1, <2>2 DEF Normalization
<1>11. Accepted = gpu["applied"]
  <2>1. read.applied.precon = precon
    BY <1>5 DEF Solved, ResidualOf, Measure
  <2> QED
    BY <1>5, <2>1 DEF Accepted, Solved
<1>12. answer' = [kind |-> "residual", residual |-> gpu["applied"],
                  factors |-> host'.factors]
  BY <1>11 DEF AcceptResidual
<1> DEFINE kept == KeptHost(host)
           moved == AcceptMagnetic(kept)
<1>13. host \in HostType /\ NoReference \in References
  BY DEF TypeOK, NoReference, References
<1>14. /\ kept \in HostType /\ kept.tcon = MultiplierOf(case, s)
       /\ kept.reference = IF read["reference"] = None THEN NoReference ELSE R
       /\ kept.state = host.state /\ kept.velocity = host.velocity
       /\ kept.checkpoint = host.checkpoint /\ kept.vacuum = host.vacuum
       /\ kept.factors = host.factors
  BY <1>3, <1>5, <1>9, <1>13 DEF KeptHost, HostType, Accurate
<1> HIDE DEF kept
<1>15. /\ moved \in HostType /\ moved.tcon = kept.tcon
       /\ moved.reference = kept.reference /\ moved.state = kept.state
       /\ moved.velocity = kept.velocity /\ moved.checkpoint = kept.checkpoint
       /\ moved.vacuum = kept.vacuum
       /\ moved.profiles = IF EvolveCurrent THEN s ELSE None
  BY <1>2, <1>6, <1>14, BrowserPassAssumption DEF AcceptMagnetic, HostType
<1> HIDE DEF moved
<1>16. host' = [moved EXCEPT !.factors = Normalization]
  BY <1>4 DEF moved, kept
<1>17. Normalization \in Oriented
  BY <1>2, <1>8, <1>10
<1>18. /\ host' \in HostType /\ host'.tcon = moved.tcon
       /\ host'.reference = moved.reference /\ host'.state = moved.state
       /\ host'.velocity = moved.velocity /\ host'.checkpoint = moved.checkpoint
       /\ host'.vacuum = moved.vacuum /\ host'.profiles = moved.profiles
       /\ host'.factors = Normalization
  BY <1>15, <1>16, <1>17 DEF HostType, Accurate
<1>19. /\ host' \in HostType /\ host'.tcon = MultiplierOf(case, s)
       /\ host'.reference = IF read["reference"] = None THEN NoReference ELSE R
       /\ host'.state = host.state /\ host'.velocity = host.velocity
       /\ host'.checkpoint = host.checkpoint /\ host'.vacuum = host.vacuum
       /\ host'.profiles = IF EvolveCurrent THEN s ELSE None
       /\ host'.factors = IF case.refresh THEN s ELSE host.factors
       /\ host'.factors \in Oriented
  BY <1>10, <1>14, <1>15, <1>17, <1>18
<1>20. /\ gpu'["acceptedElements"] = precon /\ gpu'["acceptedMatrix"] = precon
       /\ gpu'["acceptedReference"] = R
       /\ handle'.elements = "acceptedElements" /\ handle'.matrix = "acceptedMatrix"
       /\ handle'.reference = "acceptedReference"
  BY <1>4, <1>5, <1>8 DEF CopiesMade, PreconOf
<1> HIDE DEF R, precon, residual
<1>21. AcceptedAs(s, R, precon, residual)
  BY <1>3, <1>5, <1>7, <1>9, <1>11, <1>12, <1>19, <1>20 DEF AcceptedAs
<1> QED
  BY <1>21 DEF R, precon, residual

LEMMA AcceptStep == IInv /\ AcceptResidual => IInv' /\ Current' = Current
<1> SUFFICES ASSUME IInv, AcceptResidual PROVE IInv' /\ Current' = Current
  OBVIOUS
<1> USE DEF IInv
<1> DEFINE s == host.state.of
           R == ReferenceOf(gpu, case, s)
           precon == PreconOf(gpu, case, s)
           residual == ResidualOf(gpu, case, s, Edge(s))
<1>1. /\ Accepting /\ pc' = "classify" /\ entry' = <<>>
      /\ UNCHANGED <<read, deferred, epoch, vac, coupling, case, newton>>
  BY DEF AcceptResidual
<1>2. /\ pc \in {"geometry", "accept"} /\ deferred = NoDeferred
      /\ Current = s /\ s \in Oriented /\ case.gauge \in Gauges
  BY <1>1, AcceptableIs
<1>3. AcceptedAs(s, R, precon, residual)
  BY AcceptedIs
<1>4. CopiesMade(gpu, handle, gpu', handle')
  BY KeptIs
<1>5. residual = Measure(s, R, MultiplierOf(case, s), Edge(s), case.gauge)
  BY DEF ResidualOf
<1> HIDE DEF R, precon, residual
<1>6. Free' = Free
  BY <1>1 DEF Free
<1>7. /\ gpu'["applied"] = gpu["applied"]
      /\ gpu'["descentState"] = gpu["descentState"]
      /\ gpu'["descentVelocity"] = gpu["descentVelocity"]
      /\ handle.descent # NoHandle => gpu'[handle.descent] = gpu[handle.descent]
      /\ handle'.iteration = handle.iteration /\ handle'.descent = handle.descent
      /\ handle'.velocity = handle.velocity /\ DOMAIN gpu' = Labels
      /\ handle' \in HandleType
  <2>1. {"applied", "descentState", "descentVelocity", "newtonTrial", "newtonBase"}
           \subseteq Labels \ Snapshots
    BY DEF Labels, Snapshots, Preconditioners, Descents, Corrections
  <2> QED
    BY <1>4, <2>1 DEF CopiesMade, TypeOK, HandleType, StateHandles
<1>8. TypeOK'
  BY <1>1, <1>3, <1>6, <1>7 DEF TypeOK, AcceptedAs
<1>9. CopiesInv'
  BY <1>1, <1>2, <1>3, <1>7 DEF CopiesInv, AcceptedAs
<1>10. CachesInv'
  BY <1>3, BrowserPassAssumption, NoHandleFacts DEF CachesInv, AcceptedAs
<1>11. CaseInv' /\ EvaluatedInv' /\ NewtonInv' /\ EntryInv'
  BY <1>1 DEF CaseInv, EvaluatedInv, NewtonInv, EntryInv
<1>12. coupling = "initialized" => Edge(s) # None
  <2>1. SUFFICES ASSUME coupling = "initialized" PROVE Edge(s) # None
    OBVIOUS
  <2>2. Free /\ pc = "accept" /\ vac.edge
    BY <1>1, <2>1 DEF Free, Accepting, VacuumInv
  <2>3. /\ host.vacuum.boundary \in States /\ host.vacuum.currents \in States
        /\ host.vacuum.factors \in States
        /\ host.vacuum = [boundary |-> host.vacuum.boundary,
                          currents |-> host.vacuum.currents,
                          factors |-> host.vacuum.factors]
    BY <1>2, <2>2, BrowserPassAssumption DEF EntryInv
  <2>4. host.vacuum \in [boundary : States, currents : States, factors : States]
    BY <2>3
  <2>5. Edge(s) = [pressure |-> host.vacuum, on |-> s]
    BY <2>2 DEF Edge
  <2>6. Edge(s) \in [pressure : [boundary : States, currents : States,
                                 factors : States], on : States]
    BY <1>2, <2>4, <2>5, BrowserPassAssumption
  <2> QED
    BY <2>6, NoneAssumption
<1>13. AnswerInv'
  <2>1. /\ answer' = [kind |-> "residual", residual |-> gpu'["applied"],
                      factors |-> host'.factors]
        /\ host'.state.of = s
    BY <1>3, <1>7 DEF AcceptedAs
  <2>2. /\ gpu'["applied"].mhd = s /\ gpu'["applied"].edge = Edge(s)
        /\ gpu'["applied"].precon = precon /\ precon \in Oriented
    BY <1>3, <1>5, <1>7 DEF AcceptedAs, Solved, Measure
  <2>3. handle'.elements # NoHandle /\ handle'.reference # NoHandle
    BY <1>3, NoHandleFacts DEF AcceptedAs
  <2>4. ~Free => read["invariant"] = Measure(s, gpu'["acceptedReference"], host'.tcon,
                                             None, case.gauge)
    BY <1>3, <1>5 DEF AcceptedAs, Edge
  <2>5. EvolveCurrent => host'.profiles = s
    BY <1>3 DEF AcceptedAs
  <2> QED
    BY <1>1, <1>2, <1>6, <1>12, <2>1, <2>2, <2>3, <2>4, <2>5 DEF AnswerInv
<1>14. VacuumInv'
  BY <1>1, <1>3, <1>6, <1>7 DEF VacuumInv, AcceptedAs, Accepting
<1>15. Current' = Current
  <2>1. handle'.iteration # NoHandle => gpu'[handle.iteration] = gpu[handle.iteration]
    BY <1>2, <1>7 DEF CopiesInv
  <2> QED
    BY <1>3, <1>7, <2>1 DEF Current, Transferred, AcceptedAs
<1> QED
  BY <1>8, <1>9, <1>10, <1>11, <1>13, <1>14, <1>15

-----------------------------------------------------------------------------
(* Descent leaves the moved state and its velocity on the device, and will   *)
(* be told of it with the next map.                                          *)
DescentDone(p, q, moved) ==
  /\ IsQueue(p) /\ p.read.moved = moved
  /\ p.gpu["descentState"] = [of |-> moved, axis |-> FALSE]
  /\ p.gpu["descentVelocity"] = moved
  /\ \A l \in Labels \ Descents : p.gpu[l] = q.gpu[l]

LEMMA DescentIs ==
  ASSUME NEW q, IsQueue(q), NEW moved
  PROVE  DescentDone(EnqueueDescent(q, moved), q, moved)
<1> DEFINE a == Wrote(q, "descentState", [of |-> moved, axis |-> FALSE])
           b == Wrote(a, "descentVelocity", moved)
           p == Appended(b, "moved", moved)
<1>1. {"descentState", "descentVelocity"} \subseteq Labels /\ "moved" \in Readbacks
  BY DEF Labels, Descents, Readbacks
<1>2. /\ IsQueue(a) /\ a.gpu["descentState"] = [of |-> moved, axis |-> FALSE]
      /\ \A l \in Labels \ {"descentState"} : a.gpu[l] = q.gpu[l]
  BY <1>1, WroteIs
<1> HIDE DEF a
<1>3. /\ IsQueue(b) /\ b.gpu["descentVelocity"] = moved
      /\ \A l \in Labels \ {"descentVelocity"} : b.gpu[l] = a.gpu[l]
  BY <1>1, <1>2, WroteIs
<1>4. EnqueueDescent(q, moved) = Appended(b, "moved", b.gpu["descentState"].of)
  BY DEF EnqueueDescent, DescentReadback, DescentPass, a
<1> HIDE DEF b
<1>5. b.gpu["descentState"] = [of |-> moved, axis |-> FALSE]
  BY <1>1, <1>2, <1>3
<1>6. IsQueue(p) /\ p.gpu = b.gpu /\ p.read["moved"] = moved
  BY <1>1, <1>3, AppendedIs
<1>7. EnqueueDescent(q, moved) = p
  BY <1>4, <1>5
<1> HIDE DEF p
<1> QED
  BY <1>2, <1>3, <1>5, <1>6, <1>7 DEF DescentDone, Descents

(* The parts of a descent.                                                   *)
DescendedTo(moved, keep, refresh) ==
  /\ deferred' = [of |-> moved, keep |-> keep, refresh |-> refresh]
  /\ deferred' # NoDeferred
  /\ DOMAIN gpu' = Labels
  /\ gpu'["descentState"] = [of |-> moved, axis |-> FALSE]
  /\ gpu'["descentVelocity"] = moved
  /\ \A l \in Labels \ Descents : gpu'[l] = gpu[l]
  /\ host' \in HostType /\ handle' \in HandleType /\ SameCaches(host', host)
  /\ host'.checkpoint = host.checkpoint
  /\ handle'.elements = handle.elements /\ handle'.matrix = handle.matrix
  /\ handle'.reference = handle.reference
  /\ epoch' \in [first : BOOLEAN, fresh : BOOLEAN, age : Nat]
  /\ keep => /\ handle'.iteration = "descentState"
             /\ handle'.descent = "descentState"
             /\ handle'.velocity = "descentVelocity"
             /\ ~epoch'.first
  /\ ~keep => /\ handle'.iteration = NoHandle /\ handle'.descent = NoHandle
              /\ handle'.velocity = NoHandle
              /\ host'.velocity = "zero" /\ host'.state.of = host.checkpoint
              /\ epoch'.first = epoch.first

LEMMA DescendIs ==
  ASSUME IInv, Descend
  PROVE  \E moved \in States, keep, refresh \in BOOLEAN :
           DescendedTo(moved, keep, refresh)
<1> USE DEF IInv
<1>1. PICK moved \in States, keep \in BOOLEAN, refresh \in BOOLEAN :
        /\ LET q == EnqueueDescent(Queue(gpu), moved)
           IN  /\ gpu' = q.gpu
               /\ deferred' = [of |-> q.read.moved, keep |-> keep, refresh |-> refresh]
        /\ IF keep
           THEN /\ handle' = [handle EXCEPT !.iteration = "descentState",
                                            !.descent = "descentState",
                                            !.velocity = "descentVelocity",
                                            !.residual = "applied"]
                /\ epoch' = [first |-> FALSE, fresh |-> FALSE,
                             age |-> (epoch.age + 1) % RefreshInterval]
                /\ UNCHANGED host
           ELSE /\ host' = Restored(host)
                /\ handle' = [Forgotten(handle) EXCEPT !.residual = "applied"]
                /\ NewEpoch
  BY DEF Descend
<1>2. /\ DOMAIN gpu = Labels /\ host \in HostType /\ handle \in HandleType
      /\ epoch \in [first : BOOLEAN, fresh : BOOLEAN, age : Nat]
  BY DEF TypeOK
<1>3. DescentDone(EnqueueDescent(Queue(gpu), moved), Queue(gpu), moved)
  BY <1>2, DescentIs, QueueIs
<1>4. /\ deferred' = [of |-> moved, keep |-> keep, refresh |-> refresh]
      /\ DOMAIN gpu' = Labels
      /\ gpu'["descentState"] = [of |-> moved, axis |-> FALSE]
      /\ gpu'["descentVelocity"] = moved
      /\ \A l \in Labels \ Descents : gpu'[l] = gpu[l]
  BY <1>1, <1>2, <1>3, QueueIs DEF DescentDone, IsQueue
<1>5. deferred' # NoDeferred
  BY <1>4, BrowserPassAssumption DEF NoDeferred
<1>6. CASE keep
  <2>1. /\ handle' = [handle EXCEPT !.iteration = "descentState",
                                    !.descent = "descentState",
                                    !.velocity = "descentVelocity",
                                    !.residual = "applied"]
        /\ epoch' = [first |-> FALSE, fresh |-> FALSE,
                     age |-> (epoch.age + 1) % RefreshInterval]
        /\ host' = host
    BY <1>1, <1>6
  <2>2. (epoch.age + 1) % RefreshInterval \in Nat
    <3>1. epoch.age \in Nat /\ RefreshInterval \in Nat \ {0}
      BY <1>2, BrowserPassAssumption
    <3> QED
      BY <3>1
  <2>3. /\ handle' \in HandleType
        /\ handle'.iteration = "descentState" /\ handle'.descent = "descentState"
        /\ handle'.velocity = "descentVelocity"
        /\ handle'.elements = handle.elements /\ handle'.matrix = handle.matrix
        /\ handle'.reference = handle.reference
    BY <1>2, <2>1 DEF HandleType, StateHandles
  <2>4. epoch' \in [first : BOOLEAN, fresh : BOOLEAN, age : Nat] /\ ~epoch'.first
    BY <2>1, <2>2
  <2>5. SameCaches(host', host)
    BY <2>1 DEF SameCaches
  <2>6. DescendedTo(moved, keep, refresh)
    BY <1>2, <1>4, <1>5, <1>6, <2>1, <2>3, <2>4, <2>5 DEF DescendedTo
  <2> QED
    BY <2>6
<1>7. CASE ~keep
  <2>1. /\ host' = Restored(host) /\ NewEpoch
        /\ handle' = [Forgotten(handle) EXCEPT !.residual = "applied"]
    BY <1>1, <1>7
  <2>2. /\ host' \in HostType /\ SameCaches(host', host)
        /\ host'.state.of = host.checkpoint /\ host'.velocity = "zero"
        /\ host'.checkpoint = host.checkpoint
    BY <1>2, <2>1, HostTypes
  <2> DEFINE f == Forgotten(handle)
  <2>3. /\ f \in HandleType
        /\ f.iteration = NoHandle /\ f.descent = NoHandle /\ f.velocity = NoHandle
        /\ f.elements = handle.elements /\ f.matrix = handle.matrix
        /\ f.reference = handle.reference
    BY <1>2, HandleTypes
  <2> HIDE DEF f
  <2>4. handle' = [f EXCEPT !.residual = "applied"]
    BY <2>1 DEF f
  <2>5. /\ handle' \in HandleType
        /\ handle'.iteration = NoHandle /\ handle'.descent = NoHandle
        /\ handle'.velocity = NoHandle
        /\ handle'.elements = handle.elements /\ handle'.matrix = handle.matrix
        /\ handle'.reference = handle.reference
    BY <2>3, <2>4 DEF HandleType
  <2>6. epoch' \in [first : BOOLEAN, fresh : BOOLEAN, age : Nat]
        /\ epoch'.first = epoch.first
    BY <1>2, <2>1 DEF NewEpoch
  <2>7. DescendedTo(moved, keep, refresh)
    BY <1>4, <1>5, <1>7, <2>2, <2>5, <2>6 DEF DescendedTo
  <2> QED
    BY <2>7
<1> QED
  BY <1>6, <1>7

LEMMA DescendStep == IInv /\ Descend => IInv' /\ Replaced
<1> SUFFICES ASSUME IInv, Descend PROVE IInv' /\ Replaced
  OBVIOUS
<1> USE DEF IInv
<1>1. PICK moved \in States, keep \in BOOLEAN, refresh \in BOOLEAN :
        DescendedTo(moved, keep, refresh)
  BY DescendIs
<1>2. /\ pc \in {"classify", "decide"} /\ pc' = "run"
      /\ coupling' = IF coupling = "initialized" THEN "active" ELSE coupling
      /\ UNCHANGED <<read, vac, case, newton, entry>>
  BY DEF Descend, Deciding
<1>3. /\ Free' = Free
      /\ coupling' \in {"fixed", "off", "initializing", "initialized", "active"}
      /\ coupling' = "initializing" <=> coupling = "initializing"
  BY <1>2 DEF Free, TypeOK
<1>4. /\ deferred' \in [of : States, keep : BOOLEAN, refresh : BOOLEAN]
      /\ deferred'.of = moved /\ deferred'.keep = keep
  BY <1>1 DEF DescendedTo
<1>5. /\ gpu'["acceptedElements"] = gpu["acceptedElements"]
      /\ gpu'["acceptedMatrix"] = gpu["acceptedMatrix"]
      /\ gpu'["acceptedReference"] = gpu["acceptedReference"]
  <2>1. Snapshots \subseteq Labels \ Descents
    BY DEF Labels, Snapshots, Descents
  <2> QED
    BY <1>1, <2>1 DEF DescendedTo, Snapshots
<1>6. TypeOK'
  BY <1>1, <1>2, <1>3, <1>4 DEF TypeOK, DescendedTo
<1>7. CopiesInv'
  BY <1>1, <1>2, <1>4, NoHandleFacts DEF CopiesInv, DescendedTo
<1>8. CachesInv'
  BY <1>1, <1>5 DEF CachesInv, DescendedTo, SameCaches
<1>9. CaseInv' /\ EvaluatedInv' /\ AnswerInv' /\ NewtonInv' /\ EntryInv'
  BY <1>2 DEF CaseInv, EvaluatedInv, AnswerInv, NewtonInv, EntryInv
<1>10. VacuumInv'
  BY <1>1, <1>2, <1>3 DEF VacuumInv, DescendedTo, SameCaches
<1>11. CachesNow' = CachesNow
  BY <1>1, <1>3, <1>5, CachesSame DEF DescendedTo
<1>12. Current' \in States
  BY <1>1, NoHandleFacts DEF DescendedTo, Current, Transferred, HostType, Spectral
<1> QED
  BY <1>6, <1>7, <1>8, <1>9, <1>10, <1>11, <1>12 DEF Replaced

-----------------------------------------------------------------------------
(* A Newton step freezes the caches and keeps the base on the device.        *)
Based(g, state) == [g EXCEPT !["newtonInput"] = state]

LEMMA PrepareIs ==
  ASSUME NEW g, DOMAIN g = Labels, NEW state
  PROVE  LET p == PrepareNewton(Queue(Based(g, state)), "newtonInput", "applied")
         IN  /\ DOMAIN p.gpu = Labels /\ p.gpu["newtonBase"] = state
             /\ \A l \in Labels \ Corrections : p.gpu[l] = g[l]
<1> DEFINE base == Based(g, state)
           a == Wrote(Queue(base), "newtonBase", state)
           rhs == base["applied"]
           p == Wrote(a, "newtonRhs", rhs)
<1>1. {"newtonInput", "newtonBase", "newtonRhs"} \subseteq Labels \cap Corrections
      /\ "newtonBase" # "newtonRhs"
  BY DEF Labels, Corrections
<1>2. /\ DOMAIN base = Labels /\ base["newtonInput"] = state
      /\ \A l \in Labels \ Corrections : base[l] = g[l]
  BY <1>1 DEF Based
<1>3. PrepareNewton(Queue(base), "newtonInput", "applied") = p
  BY <1>2, QueueIs DEF PrepareNewton
<1> HIDE DEF base, rhs
<1>4. /\ IsQueue(a) /\ a.gpu["newtonBase"] = state
      /\ \A l \in Labels \ {"newtonBase"} : a.gpu[l] = base[l]
  BY <1>1, <1>2, WroteIs, QueueIs
<1> HIDE DEF a
<1>5. /\ IsQueue(p)
      /\ \A l \in Labels \ {"newtonRhs"} : p.gpu[l] = a.gpu[l]
  BY <1>1, <1>4, WroteIs
<1> HIDE DEF p
<1>6. /\ DOMAIN p.gpu = Labels /\ p.gpu["newtonBase"] = state
      /\ \A l \in Labels \ Corrections : p.gpu[l] = g[l]
  BY <1>1, <1>2, <1>4, <1>5 DEF IsQueue
<1> QED
  BY <1>3, <1>6 DEF base

LEMMA BeginStep == IInv /\ BeginNewton => IInv' /\ Undisturbed
<1> SUFFICES ASSUME IInv, BeginNewton PROVE IInv' /\ Undisturbed
  OBVIOUS
<1> USE DEF IInv
<1> DEFINE made == MakeIterationCase(host, vac, "fixed")
<1>1. /\ ~Free /\ ~newton.tried /\ case.gauge = "fixed" /\ pc' = "solve"
      /\ case' = [Probed(made) EXCEPT !.device = "newtonInput"]
      /\ newton' = [tried |-> TRUE, trial |-> 0, before |-> read["invariant"]]
      /\ UNCHANGED <<read, host, handle, deferred, epoch, vac, coupling, answer, entry>>
      /\ LET base == [gpu EXCEPT !["newtonInput"] = host.state]
         IN  gpu' = PrepareNewton(Queue(base), "newtonInput", "applied").gpu
  BY DEF BeginNewton
<1>2. pc = "classify" /\ deferred = NoDeferred
  BY <1>1 DEF BeginNewton, Deciding, AnswerInv, CopiesInv
<1>3. /\ handle.elements # NoHandle /\ handle.reference # NoHandle
      /\ host.state.of \in Oriented
      /\ read["invariant"] = Measure(host.state.of, gpu["acceptedReference"], host.tcon,
                                     None, "fixed")
  BY <1>1, <1>2 DEF AnswerInv
<1>4. /\ handle.iteration = NoHandle
      /\ handle.descent \in {NoHandle, "descentState"}
  BY <1>1, <1>2 DEF CopiesInv
<1>5. /\ DOMAIN gpu' = Labels /\ gpu'["newtonBase"] = host.state
      /\ \A l \in Labels \ Corrections : gpu'[l] = gpu[l]
  <2>1. DOMAIN gpu = Labels
    BY DEF TypeOK
  <2> DEFINE p == PrepareNewton(Queue(Based(gpu, host.state)), "newtonInput",
                                "applied")
  <2>2. /\ DOMAIN p.gpu = Labels /\ p.gpu["newtonBase"] = host.state
        /\ \A l \in Labels \ Corrections : p.gpu[l] = gpu[l]
    BY <2>1, PrepareIs
  <2>3. gpu' = p.gpu
    BY <1>1 DEF Based
  <2> HIDE DEF p
  <2> QED
    BY <2>2, <2>3
<1>6. \A l \in Descents \cup Snapshots : gpu'[l] = gpu[l]
  <2>1. Descents \cup Snapshots \subseteq Labels \ Corrections
    BY DEF Labels, Descents, Snapshots, Corrections
  <2> QED
    BY <1>5, <2>1
<1>7. host.state = [of |-> host.state.of, axis |-> host.state.axis]
  BY DEF TypeOK, HostType, Spectral
<1>8. Made(made, host, vac, "fixed")
  BY CaseMade
<1> HIDE DEF made
<1>9. /\ DOMAIN case' = CaseFields /\ case'.elements = handle.elements
      /\ case'.matrix = handle.matrix /\ case'.tcon = host.tcon
      /\ case'.reference = FadedReference(vac)
      /\ case'.deviceReference = handle.reference
      /\ case'.readback = "finite" /\ ~case'.rows /\ ~case'.lcfs
      /\ case'.rows \in BOOLEAN /\ case'.lcfs \in BOOLEAN
      /\ case'.refresh = FALSE /\ case'.reset = FALSE /\ case'.gauge = "fixed"
  <2> DEFINE probed == Probed(made)
  <2>1. /\ DOMAIN probed = CaseFields /\ probed.refresh = FALSE /\ probed.reset = FALSE
        /\ \A f \in CaseFields \ {"refresh", "reset"} : probed[f] = made[f]
    BY <1>8 DEF Probed, Made, CaseFields
  <2> HIDE DEF probed
  <2>2. /\ DOMAIN case' = CaseFields
        /\ \A f \in CaseFields \ {"device"} : case'[f] = probed[f]
    BY <1>1, <2>1 DEF probed, CaseFields
  <2>3. \A f \in CaseFields \ {"device", "refresh", "reset"} : case'[f] = made[f]
    BY <2>1, <2>2
  <2>4. case'.refresh = FALSE /\ case'.reset = FALSE
    BY <2>1, <2>2 DEF CaseFields
  <2>5. /\ case'.elements = made.elements /\ case'.matrix = made.matrix
        /\ case'.tcon = made.tcon /\ case'.reference = made.reference
        /\ case'.deviceReference = made.deviceReference
        /\ case'.readback = made.readback /\ case'.rows = made.rows
        /\ case'.lcfs = made.lcfs /\ case'.gauge = made.gauge
    BY <2>3 DEF CaseFields
  <2> QED
    BY <1>1, <1>8, <2>2, <2>4, <2>5 DEF Made
<1>10. Free' = Free
  BY <1>1 DEF Free
<1>11. TypeOK'
  BY <1>1, <1>5, <1>10 DEF TypeOK
<1>12. CopiesInv'
  BY <1>1, <1>2, <1>4, <1>6 DEF CopiesInv, Descents
<1>13. CachesInv'
  BY <1>1, <1>6 DEF CachesInv, Snapshots
<1>14. CaseInv'
  BY <1>1, <1>3, <1>9, <1>10, BrowserPassAssumption DEF CaseInv, FadedReference
<1>15. NewtonInv'
  <2>1. gpu'["acceptedReference"] = gpu["acceptedReference"]
    BY <1>6 DEF Snapshots
  <2> QED
    BY <1>1, <1>3, <1>5, <1>7, <1>9, <1>10, <2>1 DEF NewtonInv
<1>16. EvaluatedInv' /\ AnswerInv' /\ EntryInv' /\ VacuumInv'
  BY <1>1, <1>2, <1>10 DEF EvaluatedInv, AnswerInv, EntryInv, VacuumInv
<1>17. CachesNow' = CachesNow
  <2>1. SameCaches(host', host)
    BY <1>1 DEF SameCaches
  <2> QED
    BY <1>1, <1>6, <1>10, <2>1, CachesSame DEF Snapshots
<1>18. Current' = Current
  BY <1>1, <1>4 DEF Current, Transferred
<1> QED
  BY <1>11, <1>12, <1>13, <1>14, <1>15, <1>16, <1>17, <1>18 DEF Undisturbed

-----------------------------------------------------------------------------
(* The frozen case evaluates any state it is given the label of.             *)
LEMMA FrozenReady ==
  ASSUME IInv, pc \in {"solve", "trial", "tried"}
  PROVE  /\ ~Free /\ DOMAIN case = CaseFields /\ case.readback = "finite"
         /\ AcceptedOnes(gpu, case)
         /\ case.deviceReference = "acceptedReference" /\ handle.reference = "acceptedReference"
         /\ ~case.refresh /\ ~case.reset /\ case.gauge = "fixed" /\ case.tcon = host.tcon
         /\ newton.tried /\ deferred = NoDeferred
         /\ handle.iteration = NoHandle
         /\ handle.descent \in {NoHandle, "descentState"}
         /\ host.state.of \in Oriented
<1> USE DEF IInv
<1>1. /\ ~Free /\ ~case.refresh /\ ~case.reset /\ case.gauge = "fixed"
      /\ handle.reference # NoHandle /\ host.state.of \in Oriented /\ newton.tried
  BY DEF NewtonInv
<1>2. /\ DOMAIN case = CaseFields /\ case.readback = "finite"
      /\ case.elements = handle.elements /\ case.matrix = handle.matrix
      /\ case.deviceReference = handle.reference /\ case.tcon = host.tcon
      /\ handle.elements # NoHandle
  BY <1>1 DEF CaseInv
<1>3. handle.reference = "acceptedReference" /\ handle.elements = "acceptedElements"
  BY <1>1, <1>2 DEF TypeOK, HandleType
<1>4. AcceptedOnes(gpu, case)
  BY <1>2, <1>3 DEF AcceptedOnes, CachesInv
<1>5. /\ deferred = NoDeferred /\ handle.iteration = NoHandle
      /\ handle.descent \in {NoHandle, "descentState"}
  BY DEF CopiesInv
<1> QED
  BY <1>1, <1>2, <1>3, <1>4, <1>5

Displaced(s) == [of |-> s, axis |-> FALSE]

LEMMA DisplacedIs ==
  ASSUME NEW g, DOMAIN g = Labels, NEW s
  PROVE  LET q == DisplacedTrial(Queue(g), s)
         IN  /\ IsQueue(q) /\ q.read["reference"] = None
             /\ q.gpu["newtonTrial"] = Displaced(s)
             /\ \A l \in Labels \ {"newtonTrial"} : q.gpu[l] = g[l]
<1>1. "newtonTrial" \in Labels /\ "reference" \in Readbacks
  BY DEF Labels, Corrections, Readbacks
<1> QED
  BY <1>1, QueueIs, WroteIs DEF DisplacedTrial, Displaced

(* A step of the solver that leaves what has been accepted as it is.         *)
LEMMA NewtonStep ==
  ASSUME IInv, pc \in {"solve", "trial", "tried"}, pc' \in {"trial", "tried"},
         DOMAIN gpu' = Labels, DOMAIN read' = Readbacks,
         \A l \in Lasting \ {"newtonTrial"} : gpu'[l] = gpu[l],
         newton' \in [tried : {TRUE}, trial : Nat, before : {newton.before}],
         UNCHANGED <<host, handle, deferred, epoch, vac, coupling, case, answer, entry>>,
         pc' = "tried" =>
           /\ gpu'[TrialHandle'] \in Spectral
           /\ EvaluatedPrefix(gpu', read', case, gpu'[TrialHandle'].of)
           /\ EvaluatedSuffix(gpu', read', case, gpu'[TrialHandle'].of, None)
  PROVE  IInv' /\ Undisturbed
<1> USE DEF IInv
<1>1. Free' = Free /\ ~Free
  BY FrozenReady DEF Free
<1>2. \A l \in {"descentState", "descentVelocity", "acceptedElements", "acceptedMatrix",
                "acceptedReference", "newtonBase"} : gpu'[l] = gpu[l]
  BY LabelFacts
<1>3. TypeOK'
  BY <1>1 DEF TypeOK
<1>4. CopiesInv'
  BY <1>2, FrozenReady DEF CopiesInv
<1>5. CachesInv'
  BY <1>2 DEF CachesInv
<1>6. CaseInv'
  BY <1>1 DEF CaseInv, FadedReference
<1>7. NewtonInv'
  <2>1. newton'.before = newton.before
    OBVIOUS
  <2>2. /\ ~Free' /\ ~case'.refresh /\ ~case'.reset /\ case'.gauge = "fixed"
        /\ newton'.before = Measure(host'.state.of, gpu'["acceptedReference"],
                                    host'.tcon, None, "fixed")
        /\ handle'.reference # NoHandle
        /\ host'.state.of \in Oriented
        /\ gpu'["newtonBase"] = [of |-> host'.state.of, axis |-> host'.state.axis]
    BY <1>1, <1>2, <2>1 DEF NewtonInv
  <2> QED
    BY <2>1, <2>2 DEF NewtonInv
<1>8. EvaluatedInv' /\ AnswerInv' /\ EntryInv' /\ VacuumInv'
  BY <1>1 DEF EvaluatedInv, AnswerInv, EntryInv, VacuumInv
<1>9. CachesNow' = CachesNow
  <2>1. SameCaches(host', host)
    BY DEF SameCaches
  <2> QED
    BY <1>1, <1>2, <2>1, CachesSame
<1>10. Current' = Current
  BY FrozenReady DEF Current, Transferred
<1> QED
  BY <1>3, <1>4, <1>5, <1>6, <1>7, <1>8, <1>9, <1>10 DEF Undisturbed

LEMMA SolveSteps == IInv /\ (SolveNewton \/ RejectTrial) => IInv' /\ Undisturbed
<1> SUFFICES ASSUME IInv, SolveNewton \/ RejectTrial PROVE IInv' /\ Undisturbed
  OBVIOUS
<1> USE DEF IInv
<1>1. CASE SolveNewton
  <2>1. PICK s \in States, breakdown \in BOOLEAN :
          /\ gpu' = JacobianVector(Queue(gpu), case, s).gpu
          /\ newton' = [newton EXCEPT !.trial = IF breakdown THEN 4 ELSE 0]
    BY <1>1 DEF SolveNewton
  <2>2. /\ pc = "solve" /\ pc' = "trial"
        /\ UNCHANGED <<read, host, handle, deferred, epoch, vac, coupling, case,
                       answer, entry>>
    BY <1>1 DEF SolveNewton
  <2> DEFINE q == DisplacedTrial(Queue(gpu), s)
  <2>3. /\ IsQueue(q) /\ q.read["reference"] = None
        /\ \A l \in Labels \ {"newtonTrial"} : q.gpu[l] = gpu[l]
    <3>1. DOMAIN gpu = Labels
      BY DEF TypeOK
    <3> QED
      BY <3>1, DisplacedIs
  <2>4. AcceptedOnes(q.gpu, case)
    <3>1. {"acceptedElements", "acceptedMatrix"} \subseteq Labels \ {"newtonTrial"}
      BY DEF Labels, Snapshots
    <3> QED
      BY <2>2, <2>3, <3>1, FrozenReady DEF AcceptedOnes
  <2>5. gpu' = EvaluateAt(q, case, "newtonTrial").gpu
    BY <2>1 DEF JacobianVector
  <2> HIDE DEF q
  <2>6. TrialDone(EvaluateAt(q, case, "newtonTrial"), q, case, "newtonTrial")
    <3>1. SameCase(case, case) /\ "newtonTrial" \in Labels
      BY DEF SameCase, Labels, Corrections
    <3> QED
      BY <2>2, <2>3, <2>4, <3>1, FrozenReady, TrialIs
  <2>7. /\ DOMAIN gpu' = Labels
        /\ \A l \in Lasting \ {"newtonTrial"} : gpu'[l] = gpu[l]
    BY <2>3, <2>5, <2>6, LabelFacts DEF TrialDone, IsQueue
  <2>8. newton' \in [tried : {TRUE}, trial : Nat, before : {newton.before}]
    BY <2>1, <2>2 DEF NewtonInv
  <2>9. DOMAIN read' = Readbacks
    BY <2>2 DEF TypeOK
  <2> QED
    BY <2>2, <2>7, <2>8, <2>9, NewtonStep
<1>2. CASE RejectTrial
  <2>1. /\ pc = "tried" /\ pc' = "trial"
        /\ newton' = [newton EXCEPT !.trial = @ + 1]
        /\ UNCHANGED <<gpu, read, host, handle, deferred, epoch, vac, coupling, case,
                       answer, entry>>
    BY <1>2 DEF RejectTrial
  <2>2. newton' \in [tried : {TRUE}, trial : Nat, before : {newton.before}]
    <3>1. newton \in [tried : {TRUE}, trial : Nat, before : {newton.before}]
      BY <2>1 DEF NewtonInv
    <3>2. newton.trial + 1 \in Nat
      BY <3>1
    <3>3. newton' = [newton EXCEPT !.trial = newton.trial + 1]
      BY <2>1
    <3> HIDE DEF IInv
    <3> QED
      BY <3>1, <3>2, <3>3
  <2>3. DOMAIN gpu' = Labels /\ DOMAIN read' = Readbacks
    BY <2>1 DEF TypeOK
  <2> QED
    BY <2>1, <2>2, <2>3, NewtonStep
<1> QED
  BY <1>1, <1>2

LEMMA TrialStep == IInv /\ EvaluateTrial => IInv' /\ Undisturbed
<1> SUFFICES ASSUME IInv, EvaluateTrial PROVE IInv' /\ Undisturbed
  OBVIOUS
<1> USE DEF IInv
<1> DEFINE at == [case EXCEPT !.readback = "full"]
<1>1. /\ pc = "trial" /\ pc' = "tried"
      /\ UNCHANGED <<host, handle, deferred, epoch, vac, coupling, case, newton,
                     answer, entry>>
  BY DEF EvaluateTrial
<1>2. PICK s \in States :
        LET q == IF RollsBack THEN Queue(gpu) ELSE DisplacedTrial(Queue(gpu), s)
            done == EvaluateAt(q, at, TrialHandle)
        IN  gpu' = done.gpu /\ read' = done.read
  BY DEF EvaluateTrial
<1> DEFINE q == IF RollsBack THEN Queue(gpu) ELSE DisplacedTrial(Queue(gpu), s)
<1>3. gpu' = EvaluateAt(q, at, TrialHandle).gpu /\ read' = EvaluateAt(q, at, TrialHandle).read
  BY <1>2
<1>4. /\ ~Free /\ DOMAIN case = CaseFields /\ case.readback = "finite"
      /\ AcceptedOnes(gpu, case) /\ case.deviceReference = "acceptedReference"
      /\ ~case.refresh
  BY <1>1, FrozenReady
<1>5. /\ DOMAIN at = CaseFields /\ SameCase(case, at) /\ AcceptedOnes(gpu, at)
  BY <1>4 DEF SameCase, AcceptedOnes, CaseFields
<1> HIDE DEF at
<1>6. /\ IsQueue(q) /\ q.read["reference"] = None
      /\ \A l \in Labels \ {"newtonTrial"} : q.gpu[l] = gpu[l]
      /\ q.gpu[TrialHandle] \in Spectral
      /\ TrialHandle \in {"newtonTrial", "newtonBase"}
  <2>1. CASE RollsBack
    <3>1. gpu["newtonBase"] \in Spectral
      BY <1>1 DEF NewtonInv, TypeOK, HostType, Spectral
    <3> QED
      BY <2>1, <3>1, QueueIs DEF TypeOK, TrialHandle, Readbacks
  <2>2. CASE ~RollsBack
    <3>1. DOMAIN gpu = Labels
      BY DEF TypeOK
    <3> DEFINE d == DisplacedTrial(Queue(gpu), s)
    <3>2. /\ IsQueue(q) /\ q.read["reference"] = None
          /\ q.gpu["newtonTrial"] = Displaced(s)
          /\ \A l \in Labels \ {"newtonTrial"} : q.gpu[l] = gpu[l]
      <4>1. /\ IsQueue(d) /\ d.read["reference"] = None
            /\ d.gpu["newtonTrial"] = Displaced(s)
            /\ \A l \in Labels \ {"newtonTrial"} : d.gpu[l] = gpu[l]
        BY <3>1, DisplacedIs
      <4>2. q = d
        BY <2>2
      <4> HIDE DEF q, d
      <4> QED
        BY <4>1, <4>2
    <3> HIDE DEF q
    <3>3. q.gpu["newtonTrial"] \in Spectral
      BY <3>2 DEF Spectral, Displaced
    <3>4. TrialHandle = "newtonTrial"
      BY <2>2 DEF TrialHandle
    <3> QED
      BY <3>2, <3>3, <3>4
  <2> QED
    BY <2>1, <2>2
<1> HIDE DEF q
<1>7. AcceptedOnes(q.gpu, at)
  <2>1. {"acceptedElements", "acceptedMatrix"} \subseteq Labels \ {"newtonTrial"}
    BY DEF Labels, Snapshots
  <2> QED
    BY <1>5, <1>6, <2>1 DEF AcceptedOnes
<1>8. TrialDone(EvaluateAt(q, at, TrialHandle), q, case, TrialHandle)
  BY <1>4, <1>5, <1>6, <1>7, TrialIs, LabelFacts
<1>9. /\ DOMAIN gpu' = Labels /\ DOMAIN read' = Readbacks
      /\ \A l \in Lasting : gpu'[l] = q.gpu[l]
      /\ EvaluatedPrefix(gpu', read', case, q.gpu[TrialHandle].of)
      /\ EvaluatedSuffix(gpu', read', case, q.gpu[TrialHandle].of, None)
  BY <1>3, <1>8 DEF TrialDone, IsQueue
<1>10. gpu'[TrialHandle] = q.gpu[TrialHandle] /\ TrialHandle' = TrialHandle
  BY <1>1, <1>6, <1>9, LabelFacts DEF TrialHandle, RollsBack
<1>11. \A l \in Lasting \ {"newtonTrial"} : gpu'[l] = gpu[l]
  BY <1>6, <1>9, LabelFacts
<1>12. newton' \in [tried : {TRUE}, trial : Nat, before : {newton.before}]
  BY <1>1 DEF NewtonInv
<1> QED
  BY <1>1, <1>6, <1>9, <1>10, <1>11, <1>12, NewtonStep

(* The base is evaluated again with the caches it had, and gives the         *)
(* residual it gave: a rollback always recovers.                             *)
LEMMA RollbackRecovers ==
  ASSUME IInv, RollBackNewton
  PROVE  Adopt(TrialHandle) /\ gpu[TrialHandle].of = host.state.of
<1> USE DEF IInv
<1> DEFINE s == host.state.of
<1>1. pc = "tried" /\ RollsBack
  BY DEF RollBackNewton
<1>2. /\ case.deviceReference = "acceptedReference"
      /\ ~case.refresh /\ ~case.reset /\ case.gauge = "fixed" /\ case.tcon = host.tcon
      /\ s \in Oriented
  BY <1>1, FrozenReady
<1>3. gpu[TrialHandle].of = s
  BY <1>1 DEF NewtonInv, TrialHandle
<1>4. EvaluatedPrefix(gpu, read, case, s) /\ EvaluatedSuffix(gpu, read, case, s, None)
  BY <1>1, <1>3 DEF NewtonInv
<1>5. ReferenceOf(gpu, case, s) = gpu["acceptedReference"]
  BY <1>2, NoHandleFacts DEF ReferenceOf, Transferred
<1>6. MultiplierOf(case, s) = host.tcon
  BY <1>2 DEF MultiplierOf
<1>7. read["invariant"] = Measure(s, gpu["acceptedReference"], host.tcon, None, "fixed")
  BY <1>2, <1>4, <1>5, <1>6 DEF EvaluatedSuffix, ResidualOf
<1>8. read["invariant"] = newton.before
  BY <1>1, <1>7 DEF NewtonInv
<1>9. ValidJacobian(read)
  BY <1>2, <1>4 DEF EvaluatedPrefix, ValidJacobian
<1> QED
  BY <1>3, <1>8, <1>9 DEF RollBackNewton

LEMMA AdoptSteps == IInv /\ (AcceptTrial \/ RollBackNewton) => IInv' /\ Replaced
<1> SUFFICES ASSUME IInv, AcceptTrial \/ RollBackNewton PROVE IInv' /\ Replaced
  OBVIOUS
<1> USE DEF IInv
<1>1. /\ pc = "tried" /\ Adopt(TrialHandle)
      /\ UNCHANGED <<gpu, read, deferred, epoch, vac, coupling, case, newton, entry>>
      /\ RollsBack => gpu[TrialHandle].of = host.state.of
  BY RollbackRecovers DEF AcceptTrial, RollBackNewton
<1> DEFINE label == TrialHandle
<1>2. /\ pc' = "geometry" /\ answer' = Unknown
      /\ handle' = [handle EXCEPT !.iteration = label, !.descent = label,
                      !.velocity = IF RollsBack THEN @ ELSE NoHandle]
      /\ host' = [host EXCEPT !.state = [of |-> gpu[label].of, axis |-> FALSE],
                              !.velocity = IF RollsBack THEN @ ELSE "zero"]
  BY <1>1 DEF Adopt
<1>3. /\ label \in {"newtonTrial", "newtonBase"} /\ gpu[label] \in Spectral
      /\ EvaluatedPrefix(gpu, read, case, gpu[label].of)
      /\ EvaluatedSuffix(gpu, read, case, gpu[label].of, None)
  BY <1>1 DEF NewtonInv, TrialHandle
<1>4. /\ ~Free /\ newton.tried /\ deferred = NoDeferred
  BY <1>1, FrozenReady
<1> HIDE DEF label
<1>5. gpu[label].of \in States
  BY <1>3 DEF Spectral
<1>6. /\ host' \in HostType /\ host'.state.of = gpu[label].of
      /\ host'.velocity = IF RollsBack THEN host.velocity ELSE "zero"
      /\ SameCaches(host', host) /\ host'.checkpoint = host.checkpoint
  BY <1>2, <1>5 DEF TypeOK, HostType, Spectral, SameCaches
<1>7. /\ handle' \in HandleType
      /\ handle'.iteration = label /\ handle'.descent = label
      /\ handle'.velocity = IF RollsBack THEN handle.velocity ELSE NoHandle
      /\ handle'.elements = handle.elements /\ handle'.matrix = handle.matrix
      /\ handle'.reference = handle.reference
  BY <1>2, <1>3 DEF TypeOK, HandleType, StateHandles
<1>8. label # NoHandle
  BY <1>3, NoHandleFacts
<1>9. Current' = gpu[label].of /\ Free' = Free
  BY <1>1, <1>7, <1>8 DEF Current, Transferred, Free
<1>10. TypeOK'
  BY <1>1, <1>2, <1>6, <1>7, <1>9 DEF TypeOK
<1>11. CopiesInv'
  <2>1. RollsBack => gpu[label].of = host.state.of
    BY <1>1 DEF label
  <2>2. handle.velocity # NoHandle => gpu["descentVelocity"] = host.state.of
    BY <1>4 DEF CopiesInv
  <2>3. handle.velocity = NoHandle => host.velocity = "zero"
    BY DEF CopiesInv
  <2> QED
    BY <1>1, <1>2, <1>4, <1>6, <1>7, <1>8, <2>1, <2>2, <2>3 DEF CopiesInv
<1>12. CachesInv'
  BY <1>1, <1>6, <1>7 DEF CachesInv, SameCaches
<1>13. CaseInv'
  BY <1>1, <1>2, <1>4, <1>6, <1>7, <1>9 DEF CaseInv, FadedReference, SameCaches
<1>14. EvaluatedInv'
  BY <1>1, <1>2, <1>3, <1>4, <1>9 DEF EvaluatedInv
<1>15. AnswerInv' /\ NewtonInv' /\ EntryInv' /\ VacuumInv'
  BY <1>1, <1>2, <1>4, <1>9 DEF AnswerInv, NewtonInv, EntryInv, VacuumInv
<1>16. CachesNow' = CachesNow
  BY <1>1, <1>6, <1>7, <1>9, CachesSame
<1> QED
  BY <1>5, <1>9, <1>10, <1>11, <1>12, <1>13, <1>14, <1>15, <1>16 DEF Replaced

-----------------------------------------------------------------------------
LEMMA NextInv == IInv /\ [Next]_vars => IInv'
<1> SUFFICES ASSUME IInv, [Next]_vars PROVE IInv'
  OBVIOUS
<1>1. CASE RunStageInverse
  BY <1>1, RunStep
<1>2. CASE FallBack
  BY <1>2, FallBackStep
<1>3. CASE Receive
  BY <1>3, ReceiveStep
<1>4. CASE RejectGeometry \/ FailFields \/ FailAcceptance \/ Converge
  BY <1>4, QuietSteps
<1>5. CASE RestoreRejected \/ SoftRestart \/ RecoverNonfinite
  BY <1>5, RestoreSteps
<1>6. CASE UpdateVacuum
  BY <1>6, UpdateStep
<1>7. CASE AcceptResidual
  BY <1>7, AcceptStep
<1>8. CASE Descend
  BY <1>8, DescendStep
<1>9. CASE BeginNewton
  BY <1>9, BeginStep
<1>10. CASE SolveNewton \/ RejectTrial
  BY <1>10, SolveSteps
<1>11. CASE EvaluateTrial
  BY <1>11, TrialStep
<1>12. CASE AcceptTrial \/ RollBackNewton
  BY <1>12, AdoptSteps
<1>13. CASE Finished \/ UNCHANGED vars
  <2>1. UNCHANGED <<gpu, read, host, handle, deferred, epoch, vac, coupling, case,
                    newton, pc, answer, entry>>
    BY <1>13 DEF Finished, vars
  <2>2. Free' = Free /\ Current' = Current /\ Refreshing' = Refreshing
        /\ FadedReference(vac)' = FadedReference(vac)
        /\ TrialHandle' = TrialHandle /\ CachesNow' = CachesNow
        /\ Edge(Current)' = Edge(Current)
    BY <2>1 DEF Free, Current, Refreshing, FadedReference, TrialHandle, RollsBack,
       CachesNow, Edge
  <2>3. TypeOK' /\ CopiesInv' /\ CachesInv'
    BY <2>1, <2>2 DEF IInv, TypeOK, CopiesInv, CachesInv
  <2>4. CaseInv' /\ AnswerInv' /\ VacuumInv'
    BY <2>1, <2>2 DEF IInv, CaseInv, AnswerInv, VacuumInv
  <2>5. EvaluatedInv' /\ NewtonInv' /\ EntryInv'
    BY <2>1, <2>2 DEF IInv, EvaluatedInv, NewtonInv, EntryInv
  <2> QED
    BY <2>3, <2>4, <2>5 DEF IInv
<1> QED
  BY <1>1, <1>2, <1>3, <1>4, <1>5, <1>6, <1>7, <1>8, <1>9, <1>10, <1>11, <1>12, <1>13
     DEF Next

(* Every pass finds in the buffers what the host believes of them.           *)
THEOREM PassInv == Spec => []IInv
<1>1. Init => IInv
  BY InitInv
<1>2. IInv /\ [Next]_vars => IInv'
  BY NextInv
<1> QED
  BY <1>1, <1>2, PTL DEF Spec

(* Type correctness: no interleaving of rollbacks, trials and frozen caches  *)
(* leaves a handle to a label that does not hold its kind of data, and the   *)
(* exception of a Newton rollback that does not recover cannot be reached.   *)
THEOREM TypeCorrect == Spec => []TypeOK
<1>1. IInv => TypeOK
  BY DEF IInv
<1> QED
  BY <1>1, PassInv, PTL

(* The host's copy and the device's are of one state between commits: the    *)
(* descent reads the device's, the checkpoint and the output the host's.     *)
THEOREM CopiesAlwaysAgree == Spec => []CopiesAgree
<1>1. IInv => CopiesAgree
  BY DEF IInv, CopiesInv, CopiesAgree
<1> QED
  BY <1>1, PassInv, PTL

(* No velocity outlives the step that made it: it is zero, or that of the    *)
(* state it would push.                                                      *)
THEOREM MomentumAlwaysFollows == Spec => []MomentumFollowsState
<1>1. IInv => MomentumFollowsState
  <2> SUFFICES ASSUME IInv PROVE MomentumFollowsState
    OBVIOUS
  <2> DEFINE from == DescentInput(gpu, handle.descent, handle.velocity, host)
  <2>1. from.state = Transferred(gpu, handle.descent, host.state).of
        /\ from.velocity = Transferred(gpu, handle.velocity, host.velocity)
    BY DEF DescentInput
  <2>2. CASE handle.velocity = NoHandle
    BY <2>1, <2>2 DEF IInv, CopiesInv, Transferred, MomentumFollowsState
  <2>3. CASE handle.velocity # NoHandle
    <3>1. handle.velocity = "descentVelocity" /\ handle.descent # NoHandle
          /\ gpu["descentVelocity"] = gpu[handle.descent].of
      BY <2>3 DEF IInv, TypeOK, HandleType, CopiesInv
    <3> QED
      BY <2>1, <2>3, <3>1 DEF Transferred, MomentumFollowsState
  <2> QED
    BY <2>2, <2>3
<1> QED
  BY <1>1, PassInv, PTL

(* The flux profiles that are published are those of the state published.    *)
THEOREM ProfilesAlwaysOfTheResult == Spec => []ProfilesOfTheResult
<1>1. IInv => ProfilesOfTheResult
  BY DEF IInv, AnswerInv, ProfilesOfTheResult
<1> QED
  BY <1>1, PassInv, PTL

-----------------------------------------------------------------------------
(* The abstract evaluation: one state, the caches as they were before this   *)
(* pass touched the vacuum, and the answer.                                  *)
Believed == IF entry = <<>> THEN CachesNow ELSE entry[1]

Told == IF pc = "raised" THEN [kind |-> "raised"] ELSE answer

LEMMA StutterIs ==
  ASSUME TypeOK, TypeOK', Current' = Current, Believed' = Believed, answer' = answer
  PROVE  UNCHANGED Promise!evars
BY DEF TypeOK, Promise!evars, Current, Believed

LEMMA ReplaceIs ==
  ASSUME TypeOK, TypeOK', Current' \in States, Believed' = Believed, answer' = Unknown
  PROVE  Promise!Next
<1>1. Promise!Replace
  BY DEF TypeOK, Promise!Replace, Current, Believed, Unknown
<1> QED
  BY <1>1 DEF Promise!Next

LEMMA RefinesInit == Init => Promise!Init
<1> SUFFICES ASSUME Init PROVE Promise!Init
  OBVIOUS
<1>1. PICK s \in States :
        host = [state |-> [of |-> s, axis |-> FALSE], velocity |-> "zero",
                checkpoint |-> s, tcon |-> None, reference |-> NoReference,
                factors |-> None, profiles |-> None,
                vacuum |-> [boundary |-> None, currents |-> None, factors |-> None]]
  BY DEF Init
<1>2. /\ handle = NoHandles /\ entry = <<>> /\ pc = "run" /\ answer = Unknown
  BY DEF Init
<1>3. Transferred(gpu, handle.iteration, host.state).of \in States
  BY <1>1, <1>2 DEF Transferred, NoHandles
<1>4. CachesNow = [precon |-> None, tcon |-> None, factors |-> None,
                   reference |-> [of |-> None, decays |-> 0], vacuum |-> None]
  BY <1>1, <1>2 DEF CachesNow, Transferred, NoHandles, NoReference
<1> QED
  BY <1>2, <1>3, <1>4 DEF Promise!Init, Unknown

(* A folded geometry is refused; no cache was touched on the way.            *)
LEMMA RefuseIs ==
  ASSUME IInv, IInv', RejectGeometry
  PROVE  Promise!Next
<1>1. /\ pc = "geometry" /\ ~ValidJacobian(read) /\ answer' = [kind |-> "refused"]
      /\ UNCHANGED <<gpu, read, host, handle, deferred, epoch, vac, coupling, case,
                     newton, entry>>
  BY DEF RejectGeometry
<1>2. Current \notin Oriented
  BY <1>1 DEF IInv, EvaluatedInv, EvaluatedPrefix, ValidJacobian
<1>3. entry = <<>> /\ entry' = <<>>
  BY <1>1 DEF IInv, EntryInv
<1>4. Current' = Current /\ CachesNow' = CachesNow
  BY <1>1 DEF Current, CachesNow, Free
<1>5. pc # "raised" /\ pc' # "raised"
  BY DEF IInv, TypeOK
<1>6. [Promise!Faded(CachesNow, FALSE) EXCEPT !.vacuum = IF FALSE THEN Current ELSE @]
        = CachesNow
  BY DEF Promise!Faded, CachesNow
<1>7. Promise!Refuse
  BY <1>1, <1>2, <1>3, <1>4, <1>5, <1>6 DEF Promise!Refuse, Current
<1> QED
  BY <1>7 DEF Promise!Next

(* A rollback to start the vacuum over keeps the residual that it will       *)
(* descend along, and its pressure has been pushed.                          *)
LEMMA SoftRestartIs ==
  ASSUME IInv, IInv', SoftRestart, Replaced
  PROVE  Promise!Next
<1>1. /\ pc = "classify" /\ coupling = "initialized" /\ entry' = entry
      /\ answer' = [kind |-> "soft", residual |-> answer.residual]
  BY DEF SoftRestart
<1>2. /\ answer.kind = "residual" /\ answer.residual.edge # None
      /\ entry = <<>>
  BY <1>1 DEF IInv, AnswerInv, EntryInv
<1>3. pc # "raised" /\ pc' # "raised"
  BY DEF IInv, TypeOK
<1>4. Promise!SoftRestart
  BY <1>1, <1>2, <1>3 DEF Promise!SoftRestart, Replaced, Current
<1> QED
  BY <1>4 DEF Promise!Next

(* Descent moves the state it is believed to move, along that state's own    *)
(* preconditioned residual, or after a soft restart along the one before.    *)
LEMMA DescentRefines ==
  ASSUME IInv, IInv', Descend, Replaced
  PROVE  Promise!Next
<1> DEFINE from == DescentInput(gpu, handle.descent, handle.velocity, host)
<1>1. /\ entry' = entry /\ Deciding
      /\ answer' = [kind |-> "descended", along |-> gpu["applied"], from |-> from.state]
  BY DEF Descend
<1>2. pc \in {"classify", "decide"} /\ deferred = NoDeferred
  BY <1>1 DEF Deciding, IInv, CopiesInv
<1>3. Current = host.state.of
  BY <1>2, CurrentIs DEF IInv
<1>4. from.state = Current
  BY <1>2, <1>3 DEF DescentInput, Transferred, IInv, CopiesInv
<1>5. entry = <<>> /\ pc # "raised" /\ pc' # "raised"
  BY <1>2 DEF IInv, EntryInv, TypeOK
<1>6. answer.residual = gpu["applied"] /\ answer.residual.precon # None
  BY <1>2, BrowserPassAssumption DEF IInv, AnswerInv
<1>7. answer' = [kind |-> "descended", from |-> Current, along |-> answer.residual]
  BY <1>1, <1>4, <1>6
<1>8. CASE pc = "classify"
  <2>1. answer.kind = "residual" /\ answer.residual.mhd = Current
    BY <1>3, <1>8 DEF IInv, AnswerInv
  <2>2. Promise!Descend
    BY <1>1, <1>5, <1>6, <1>7, <2>1 DEF Promise!Descend, Replaced, Current
  <2> QED
    BY <2>2 DEF Promise!Next
<1>9. CASE pc = "decide"
  <2>1. answer.kind = "soft"
    BY <1>9 DEF IInv, AnswerInv
  <2>2. Promise!DescendSoftly
    BY <1>1, <1>5, <1>6, <1>7, <2>1 DEF Promise!DescendSoftly, Replaced, Current
  <2> QED
    BY <2>2 DEF Promise!Next
<1> QED
  BY <1>2, <1>8, <1>9

(* What an accepted evaluation does to the caches, in one record.            *)
Remade(b, s, refresh, reset, fade, full) ==
  LET reference == IF reset THEN [of |-> s, decays |-> 0] ELSE b.reference
  IN  [precon |-> IF refresh THEN s ELSE b.precon,
       tcon |-> IF refresh THEN s ELSE b.tcon,
       factors |-> IF refresh THEN s ELSE b.factors,
       reference |-> IF fade THEN [reference EXCEPT !.decays = @ + 1] ELSE reference,
       vacuum |-> IF full THEN s ELSE b.vacuum]

IsCaches(b) ==
  b = [precon |-> b.precon, tcon |-> b.tcon, factors |-> b.factors,
       reference |-> b.reference, vacuum |-> b.vacuum]

LEMMA BelievedIs ==
  ASSUME IInv, Accepting
  PROVE  \E before \in Accurate :
           /\ IsCaches(Believed) /\ Believed.vacuum = before
           /\ Believed.precon = CachesNow.precon /\ Believed.tcon = host.tcon
           /\ Believed.factors = host.factors
           /\ Believed.reference = CachesNow.reference
           /\ host.vacuum.factors \in {before, host.state.of}
<1>1. IsCaches(CachesNow) /\ CachesNow.tcon = host.tcon
      /\ CachesNow.factors = host.factors /\ CachesNow.vacuum = host.vacuum.factors
  BY DEF CachesNow, IsCaches
<1>2. CASE Free
  <2>1. pc = "accept"
    BY <1>2 DEF Accepting
  <2>2. PICK before \in Accurate :
          /\ entry = <<[CachesNow EXCEPT !.vacuum = before]>>
          /\ host.vacuum.factors \in {before, host.state.of}
    BY <2>1 DEF IInv, EntryInv
  <2>3. Believed = [CachesNow EXCEPT !.vacuum = before]
    BY <2>2 DEF Believed
  <2>4. /\ IsCaches(Believed) /\ Believed.vacuum = before
        /\ Believed.precon = CachesNow.precon /\ Believed.tcon = CachesNow.tcon
        /\ Believed.factors = CachesNow.factors
        /\ Believed.reference = CachesNow.reference
    BY <1>1, <2>3 DEF IsCaches
  <2> QED
    BY <1>1, <2>2, <2>4
<1>3. CASE ~Free
  <2>1. entry = <<>> /\ host.vacuum.factors \in Accurate
    BY <1>3 DEF Accepting, IInv, EntryInv, TypeOK, HostType
  <2>2. Believed = CachesNow
    BY <2>1 DEF Believed
  <2> QED
    BY <1>1, <2>1, <2>2
<1> QED
  BY <1>2, <1>3

(* The reference of the constraint is set, faded, or left as it was.         *)
LEMMA ReferenceBecomes ==
  ASSUME IInv, Accepting
  PROVE  LET s == host.state.of
             old == CachesNow.reference
         IN  ReferenceOf(gpu, case, s)
               = IF case.reset THEN [of |-> s, decays |-> 0]
                 ELSE IF vac.decay THEN [old EXCEPT !.decays = @ + 1] ELSE old
<1>1. /\ case.deviceReference = IF Free THEN NoHandle ELSE handle.reference
      /\ case.reference = FadedReference(vac)
  BY AcceptableIs
<1>2. CachesNow.reference = Transferred(gpu, IF Free THEN NoHandle ELSE handle.reference,
                                        host.reference)
  BY DEF CachesNow
<1>3. CASE Free
  <2>1. CachesNow.reference = host.reference
    BY <1>2, <1>3 DEF Transferred
  <2> QED
    BY <1>1, <1>3, <2>1 DEF ReferenceOf, Transferred, FadedReference, DecayVacuumReference
<1>4. CASE ~Free
  <2>1. ~vac.decay /\ case.reference = host.reference
    BY <1>1, <1>4 DEF IInv, TypeOK, FadedReference
  <2> QED
    BY <1>1, <1>2, <1>4, <2>1 DEF ReferenceOf, Transferred
<1> QED
  BY <1>3, <1>4

(* An accepted residual is of the state the host has, with caches that were  *)
(* accepted before or rebuilt from that very state.                          *)
LEMMA EvaluateRefines ==
  ASSUME IInv, IInv', AcceptResidual, Current' = Current
  PROVE  Promise!Next
<1> DEFINE s == host.state.of
           R == ReferenceOf(gpu, case, s)
           precon == PreconOf(gpu, case, s)
           residual == ResidualOf(gpu, case, s, Edge(s))
<1>1. Accepting /\ entry' = <<>>
      /\ UNCHANGED <<read, deferred, epoch, vac, coupling, case, newton>>
  BY DEF AcceptResidual
<1>2. /\ Current = s /\ s \in Oriented /\ case.gauge \in Gauges
      /\ case.refresh \in BOOLEAN /\ case.reset \in BOOLEAN /\ case.tcon = host.tcon
      /\ ~case.refresh => handle.elements # NoHandle
      /\ pc \in {"geometry", "accept"}
  BY <1>1, AcceptableIs
<1>3. AcceptedAs(s, R, precon, residual)
  BY AcceptedIs
<1>4. PICK before \in Accurate :
        /\ IsCaches(Believed) /\ Believed.vacuum = before
        /\ Believed.precon = CachesNow.precon /\ Believed.tcon = host.tcon
        /\ Believed.factors = host.factors
        /\ Believed.reference = CachesNow.reference
        /\ host.vacuum.factors \in {before, s}
  BY <1>1, BelievedIs
<1>5. R = IF case.reset THEN [of |-> s, decays |-> 0]
          ELSE IF vac.decay THEN [CachesNow.reference EXCEPT !.decays = @ + 1]
               ELSE CachesNow.reference
  BY <1>1, ReferenceBecomes
<1>6. residual = Measure(s, R, MultiplierOf(case, s), Edge(s), case.gauge)
  BY DEF ResidualOf
<1>7. precon = IF case.refresh THEN s ELSE gpu["acceptedElements"]
  BY DEF PreconOf
<1> HIDE DEF R, precon, residual
<1> DEFINE fade == ~case.reset /\ vac.decay
           full == host.vacuum.factors # before
           pushed == Free /\ vac.edge
<1>8. fade \in BOOLEAN /\ full \in BOOLEAN /\ pushed \in BOOLEAN
  OBVIOUS
<1>9. ~case.refresh => CachesNow.precon = gpu["acceptedElements"]
  <2>1. SUFFICES ASSUME ~case.refresh PROVE CachesNow.precon = gpu["acceptedElements"]
    OBVIOUS
  <2>2. /\ handle.elements = "acceptedElements" /\ handle.matrix = "acceptedMatrix"
        /\ gpu["acceptedMatrix"] = gpu["acceptedElements"]
        /\ handle.elements # NoHandle
    BY <1>2, <2>1 DEF IInv, TypeOK, HandleType, CachesInv
  <2> QED
    BY <2>2, FromOne DEF CachesNow
<1>10. CachesNow' = [precon |-> precon, tcon |-> MultiplierOf(case, s),
                     factors |-> IF case.refresh THEN s ELSE host.factors,
                     reference |-> R, vacuum |-> host.vacuum.factors]
  <2>1. Free' = Free /\ handle'.elements # NoHandle /\ handle'.reference # NoHandle
    BY <1>1, <1>3, NoHandleFacts DEF Free, AcceptedAs
  <2>2. /\ gpu'[handle'.elements] = precon /\ gpu'[handle'.matrix] = precon
        /\ gpu'[handle'.reference] = R
        /\ host'.tcon = MultiplierOf(case, s)
        /\ host'.factors = IF case.refresh THEN s ELSE host.factors
        /\ host'.vacuum = host.vacuum
        /\ Free => host'.reference = R
    BY <1>3 DEF AcceptedAs
  <2>3. Transferred(gpu', IF Free' THEN NoHandle ELSE handle'.reference, host'.reference) = R
    BY <2>1, <2>2 DEF Transferred
  <2> QED
    BY <2>1, <2>2, <2>3, FromOne DEF CachesNow
<1>11. Remade(Believed, s, case.refresh, case.reset, fade, full) = CachesNow'
  <2>1. MultiplierOf(case, s) = IF case.refresh THEN s ELSE host.tcon
    BY <1>2 DEF MultiplierOf
  <2>2. (IF full THEN s ELSE Believed.vacuum) = host.vacuum.factors
    BY <1>4
  <2>3. (IF case.refresh THEN s ELSE Believed.precon) = precon
    BY <1>4, <1>7, <1>9
  <2>4. LET reference == IF case.reset THEN [of |-> s, decays |-> 0]
                         ELSE Believed.reference
        IN  (IF fade THEN [reference EXCEPT !.decays = @ + 1] ELSE reference) = R
    BY <1>4, <1>5
  <2> HIDE DEF fade, full
  <2> QED
    BY <1>4, <1>10, <2>1, <2>2, <2>3, <2>4 DEF Remade
<1>12. [Promise!Faded(Promise!Rebuilt(case.refresh, case.reset), fade)
          EXCEPT !.vacuum = IF full THEN Current ELSE @]
         = Remade(Believed, s, case.refresh, case.reset, fade, full)
  <2> DEFINE b == Believed
  <2>1. Promise!Rebuilt(case.refresh, case.reset)
          = [b EXCEPT !.precon = IF case.refresh THEN s ELSE @,
                      !.tcon = IF case.refresh THEN s ELSE @,
                      !.factors = IF case.refresh THEN s ELSE @,
                      !.reference = IF case.reset THEN [of |-> s, decays |-> 0] ELSE @]
    BY <1>2 DEF Promise!Rebuilt, Believed, Current
  <2> HIDE DEF b, fade, full
  <2>2. IsCaches(b)
    BY <1>4 DEF b
  <2> DEFINE reference == IF case.reset THEN [of |-> s, decays |-> 0] ELSE b.reference
             faded == IF fade THEN [reference EXCEPT !.decays = @ + 1] ELSE reference
             p == IF case.refresh THEN s ELSE b.precon
             t == IF case.refresh THEN s ELSE b.tcon
             f == IF case.refresh THEN s ELSE b.factors
             v == IF full THEN s ELSE b.vacuum
  <2>3. Promise!Rebuilt(case.refresh, case.reset)
          = [precon |-> p, tcon |-> t, factors |-> f, reference |-> reference,
             vacuum |-> b.vacuum]
    BY <2>1, <2>2 DEF IsCaches
  <2>4. Remade(b, s, case.refresh, case.reset, fade, full)
          = [precon |-> p, tcon |-> t, factors |-> f, reference |-> faded, vacuum |-> v]
    BY DEF Remade
  <2> DEFINE rebuilt == Promise!Rebuilt(case.refresh, case.reset)
  <2>5. Promise!Faded(rebuilt, fade)
          = IF fade THEN [rebuilt EXCEPT !.reference.decays = @ + 1] ELSE rebuilt
    BY DEF Promise!Faded
  <2> HIDE DEF reference, p, t, f, rebuilt
  <2>6. Promise!Faded(rebuilt, fade)
          = [precon |-> p, tcon |-> t, factors |-> f, reference |-> faded,
             vacuum |-> b.vacuum]
    BY <2>3, <2>5 DEF rebuilt
  <2> HIDE DEF faded
  <2>7. [Promise!Faded(rebuilt, fade) EXCEPT !.vacuum = IF full THEN s ELSE @]
          = [precon |-> p, tcon |-> t, factors |-> f, reference |-> faded, vacuum |-> v]
    BY <2>6
  <2> QED
    BY <1>2, <2>4, <2>7 DEF b, rebuilt
<1> HIDE DEF fade, full
<1> DEFINE c == CachesNow'
<1>13. /\ c.precon = precon /\ c.tcon = MultiplierOf(case, s)
       /\ c.factors = host'.factors /\ c.reference = R
       /\ c.vacuum = host.vacuum.factors
       /\ {c.precon, c.tcon, c.factors} \subseteq Oriented
  BY <1>3, <1>10 DEF AcceptedAs
<1> HIDE DEF c
<1>14. pushed => /\ host.vacuum = VacuumOf(s, host.vacuum.factors)
                 /\ host.vacuum.factors \in Oriented
  <2>1. pushed => pc = "accept"
    BY <1>1 DEF Accepting
  <2> QED
    BY <2>1 DEF IInv, EntryInv, VacuumOf
<1>15. Promise!Result(c, case.gauge, pushed, TRUE) = gpu["applied"]
  <2>1. Edge(s) = IF pushed
                  THEN [pressure |-> [boundary |-> s, currents |-> s,
                                      factors |-> c.vacuum], on |-> s]
                  ELSE None
    BY <1>13, <1>14 DEF Edge, VacuumOf
  <2>2. gpu["applied"] = Solved(Measure(s, R, MultiplierOf(case, s), Edge(s), case.gauge),
                                precon)
    BY <1>3, <1>6 DEF AcceptedAs
  <2> HIDE DEF pushed
  <2>3. gpu["applied"]
          = [mhd |-> s, edge |-> Edge(s),
             constraint |-> [gCon |-> [eff |-> [geometry |-> s, reference |-> R],
                                       tcon |-> MultiplierOf(case, s)],
                             geometry |-> s, reference |-> R],
             odd |-> "scaled", gauge |-> case.gauge, precon |-> precon]
    BY <2>2 DEF Solved, Measure
  <2>4. Promise!Result(c, case.gauge, pushed, TRUE)
          = [mhd |-> s,
             edge |-> IF pushed
                      THEN [pressure |-> [boundary |-> s, currents |-> s,
                                          factors |-> c.vacuum], on |-> s]
                      ELSE None,
             constraint |-> [gCon |-> [eff |-> [geometry |-> s,
                                                reference |-> c.reference],
                                       tcon |-> c.tcon],
                             geometry |-> s, reference |-> c.reference],
             odd |-> "scaled", gauge |-> case.gauge, precon |-> c.precon]
    BY <1>2 DEF Promise!Result, Current
  <2> QED
    BY <1>13, <2>1, <2>3, <2>4
<1>16. answer' = [kind |-> "residual",
                  residual |-> Promise!Result(c, case.gauge, pushed, TRUE),
                  factors |-> c.factors]
  BY <1>3, <1>13, <1>15 DEF AcceptedAs
<1>17. pc # "raised" /\ pc' # "raised"
  BY DEF IInv, TypeOK
<1>18. Believed' = c
  BY <1>1 DEF Believed, c
<1>19. c = [Promise!Faded(Promise!Rebuilt(case.refresh, case.reset), fade)
              EXCEPT !.vacuum = IF full THEN Current ELSE @]
  BY <1>11, <1>12 DEF c
<1>20. Promise!Evaluate
  <2>1. Current \in Oriented
    BY <1>2
  <2>2. /\ {c.precon, c.tcon, c.factors} \subseteq Oriented
        /\ pushed => c.vacuum \in Oriented
    BY <1>13, <1>14
  <2> DEFINE Caches(refresh, reset, fades, fills) ==
               [Promise!Faded(Promise!Rebuilt(refresh, reset), fades)
                  EXCEPT !.vacuum = IF fills THEN Current ELSE @]
             Answers(d) ==
               \E pushes, applied \in BOOLEAN, gauge \in Gauges :
                 /\ pushes => d.vacuum \in Oriented
                 /\ applied \/ Current \in Terminal
                 /\ Told' = [kind |-> "residual",
                             residual |-> Promise!Result(d, gauge, pushes, applied),
                             factors |-> d.factors]
  <2> HIDE DEF pushed
  <2>3. Answers(c)
    <3>1. Told' = answer'
      BY <1>17 DEF Told
    <3> QED
      BY <1>2, <1>8, <1>16, <2>2, <3>1
  <2>4. c = Caches(case.refresh, case.reset, fade, full)
    BY <1>19
  <2> HIDE DEF Caches, Answers
  <2>5. \E refresh, reset, fades, fills \in BOOLEAN :
          /\ Believed' = Caches(refresh, reset, fades, fills)
          /\ {Caches(refresh, reset, fades, fills).precon,
              Caches(refresh, reset, fades, fills).tcon,
              Caches(refresh, reset, fades, fills).factors} \subseteq Oriented
          /\ Answers(Caches(refresh, reset, fades, fills))
    BY <1>2, <1>8, <1>18, <2>2, <2>3, <2>4
  <2> QED
    BY <2>1, <2>5, Zenon
       DEF Promise!Evaluate, Current, Believed, Told, Caches, Answers
<1> QED
  BY <1>20 DEF Promise!Next

LEMMA StepRefines ==
  ASSUME IInv, [Next]_vars
  PROVE  [Promise!Next]_(Promise!evars)
<1>1. IInv' /\ TypeOK /\ TypeOK'
  BY NextInv DEF IInv
<1>2. ASSUME UNCHANGED <<answer, entry>>, Undisturbed
      PROVE  UNCHANGED Promise!evars
  <2>1. Believed' = Believed /\ Current' = Current
    BY <1>2 DEF Believed, Undisturbed
  <2> QED
    BY <1>1, <1>2, <2>1, StutterIs
<1>3. ASSUME UNCHANGED <<gpu, host, handle, coupling, answer, entry>>
      PROVE  UNCHANGED Promise!evars
  <2>1. Undisturbed
    BY <1>3 DEF Undisturbed, Current, CachesNow, Free
  <2> QED
    BY <1>2, <1>3, <2>1
<1>4. ASSUME answer' = Unknown, entry' = entry, Replaced
      PROVE  Promise!Next
  <2>1. Believed' = Believed /\ Current' \in States
    BY <1>4 DEF Believed, Replaced
  <2> QED
    BY <1>1, <1>4, <2>1, ReplaceIs
<1>5. CASE RunStageInverse
  BY <1>2, <1>5, RunStep DEF RunStageInverse
<1>6. CASE Receive
  BY <1>2, <1>6, ReceiveStep DEF Receive
<1>7. CASE FallBack \/ FailFields \/ FailAcceptance \/ Converge \/ RejectTrial
  BY <1>3, <1>7 DEF FallBack, FailFields, FailAcceptance, Converge, RejectTrial
<1>8. CASE RejectGeometry
  BY <1>1, <1>8, RefuseIs
<1>9. CASE RestoreRejected \/ RecoverNonfinite
  BY <1>4, <1>9, RestoreSteps DEF RestoreRejected, RecoverNonfinite
<1>10. CASE SoftRestart
  BY <1>1, <1>10, RestoreSteps, SoftRestartIs
<1>11. CASE UpdateVacuum
  <2>1. entry = <<>> /\ entry' = <<CachesNow>> /\ answer' = answer
    BY <1>11 DEF UpdateVacuum, IInv, EntryInv
  <2>2. Believed' = Believed /\ Current' = Current
    BY <1>11, <2>1, UpdateStep DEF Believed
  <2> QED
    BY <1>1, <2>1, <2>2, StutterIs
<1>12. CASE AcceptResidual
  BY <1>1, <1>12, AcceptStep, EvaluateRefines
<1>13. CASE Descend
  BY <1>1, <1>13, DescendStep, DescentRefines
<1>14. CASE BeginNewton
  BY <1>2, <1>14, BeginStep DEF BeginNewton
<1>15. CASE SolveNewton
  BY <1>2, <1>15, SolveSteps DEF SolveNewton
<1>16. CASE EvaluateTrial
  BY <1>2, <1>16, TrialStep DEF EvaluateTrial
<1>17. CASE AcceptTrial
  <2>1. answer' = Unknown /\ entry' = entry
    BY <1>17 DEF AcceptTrial, Adopt
  <2> QED
    BY <1>4, <1>17, <2>1, AdoptSteps
<1>18. CASE RollBackNewton
  <2>1. answer' = Unknown /\ entry' = entry
    BY <1>18, RollbackRecovers DEF RollBackNewton, Adopt
  <2> QED
    BY <1>4, <1>18, <2>1, AdoptSteps
<1>19. CASE Finished \/ UNCHANGED vars
  BY <1>3, <1>19 DEF Finished, vars
<1> QED
  BY <1>5, <1>6, <1>7, <1>8, <1>9, <1>10, <1>11, <1>12, <1>13, <1>14, <1>15, <1>16,
     <1>17, <1>18, <1>19 DEF Next

(* The browser keeps the promise of an evaluation: whatever the host is told *)
(* of a state was computed from that state, with caches that were accepted   *)
(* or rebuilt from it; a folded geometry leaves no trace; every descent is   *)
(* of the state it is believed to be of; a Newton rollback recovers.         *)
THEOREM PassKeepsThePromise == Spec => EvaluationSpec
<1>1. IInv /\ [Next]_vars => [Promise!Next]_(Promise!evars)
  BY StepRefines
<1> QED
  BY <1>1, RefinesInit, PassInv, PTL DEF Spec, EvaluationSpec, Promise!Spec

=============================================================================
