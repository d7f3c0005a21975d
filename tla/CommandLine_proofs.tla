------------------------- MODULE CommandLine_proofs -------------------------
(* Proofs about main(), for every set of jobs, options and replacements: the *)
(* problem that is solved is the one that was written, reading its own form  *)
(* back changes nothing, the recorded hash is that of the input solved, and  *)
(* a restart starts from what one run published.                             *)
EXTENDS CommandLine, Containers_proofs, FiniteSetTheorems

-----------------------------------------------------------------------------
(* Reading an input.                                                         *)

(* A schedule that neither the mapping nor validate() objects to: all three  *)
(* arrays, every element of each as it was given, or none and the default.   *)
StagesAsWritten(doc, stages) ==
  \/ /\ \A k \in Arrays : doc[k].kind = "absent"
     /\ stages = <<DefaultStage>>
  \/ \A k \in Arrays :
       /\ doc[k].kind = "array"
       /\ doc[k].of = [g \in 1 .. Len(stages) |-> stages[g][k]]

Stage == [ns : Nat, niter : Nat, ftol : Int]

Plain(stage) == Malformed \notin {stage.ns, stage.niter, stage.ftol}

LEMMA LeastOfOne ==
  ASSUME NEW n \in Nat
  PROVE  Least({n}) = n
BY DEF Least

LEMMA ArraysRead ==
  ASSUME NEW key, NEW a \in StageArray, ArrayErrors(key, a) = {}
  PROVE  a.kind = "array" /\ ReadArray(a) = a.of /\ Malformed \notin Elements(a.of)
<1>1. a.kind = "array" /\ Malformed \notin Elements(a.of)
  BY DEF ArrayErrors
<1>2. a.of \in Seq(Int)
  BY DEF StageArray
<1>3. ReadArray(a) = [i \in DOMAIN a.of |-> a.of[i]]
  BY <1>1 DEF ReadArray, Elements
<1> QED
  BY <1>1, <1>2, <1>3

LEMMA StagesRead ==
  ASSUME NEW doc \in Documents, StageErrors(doc) = {},
         ScheduleErrors(MappedStages(doc)) = {}
  PROVE  /\ StagesAsWritten(doc, MappedStages(doc))
         /\ MappedStages(doc) \in Seq(Stage) /\ MappedStages(doc) # <<>>
         /\ \A g \in DOMAIN MappedStages(doc) : Plain(MappedStages(doc)[g])
<1> DEFINE given == {k \in Arrays : doc[k].kind # "absent"}
           stages == MappedStages(doc)
<1>1. CASE given = {}
  <2>1. stages = <<DefaultStage>>
    <3>1. Arrays # {}
      BY DEF Arrays
    <3> QED
      BY <1>1, <3>1 DEF MappedStages
  <2>2. DefaultStage \in Stage /\ Plain(DefaultStage)
    <3>1. /\ DefaultStage.ns = 11 /\ DefaultStage.niter = 1000
          /\ DefaultStage.ftol = 1
      BY DEF DefaultStage
    <3>2. Plain(DefaultStage)
      BY <3>1 DEF Plain, Malformed
    <3> QED
      BY <3>2 DEF DefaultStage, Stage
  <2>3. StagesAsWritten(doc, stages)
    BY <1>1, <2>1 DEF StagesAsWritten
  <2>4. stages \in Seq(Stage) /\ stages # <<>>
    BY <2>1, <2>2
  <2>5. \A g \in DOMAIN stages : g = 1
    BY <2>1
  <2> QED
    BY <2>1, <2>2, <2>3, <2>4, <2>5
<1>2. CASE given # {} /\ given # Arrays
  BY <1>2 DEF StageErrors
<1>3. CASE given = Arrays
  <2> DEFINE n == Len(doc.ns.of)
  <2>1. \A k \in Arrays : doc[k] \in StageArray
    BY DEF Arrays, Documents
  <2> DEFINE errors == {ArrayErrors(k, doc[k]) : k \in Arrays}
             others == {k \in {"niter", "ftol"} :
                          Len(ReadArray(doc[k])) # Len(ReadArray(doc["ns"]))}
  <2>a. others \cup UNION errors = {}
    <3>1. Arrays # {}
      BY DEF Arrays
    <3> QED
      BY <3>1, <1>3 DEF StageErrors
  <2>2. \A k \in Arrays : ArrayErrors(k, doc[k]) = {}
    <3>1. \A e \in errors : e = {}
      BY <2>a
    <3> QED
      BY <3>1
  <2>3. \A k \in Arrays : /\ doc[k].kind = "array" /\ ReadArray(doc[k]) = doc[k].of
                          /\ Malformed \notin Elements(doc[k].of)
    BY <2>1, <2>2, ArraysRead
  <2>4. \A k \in Arrays : doc[k].of \in Seq(Int)
    BY <2>1 DEF StageArray
  <2>5. \A k \in Arrays : Len(doc[k].of) = n
    <3>1. \A k \in {"niter", "ftol"} : Len(ReadArray(doc[k])) = Len(ReadArray(doc["ns"]))
      BY <2>a
    <3> QED
      BY <3>1, <2>3 DEF Arrays
  <2>6. n \in Nat
    BY <2>4 DEF Arrays
  <2>7. \A k \in Arrays, g \in 1 .. n : doc[k].of[g] \in Int \ {Malformed}
    BY <2>3, <2>4, <2>5 DEF Elements
  <2>8. stages = [g \in 1 .. n |-> [ns |-> NotNegative(doc.ns.of[g]),
                                    niter |-> NotNegative(doc.niter.of[g]),
                                    ftol |-> doc.ftol.of[g]]]
    <3> DEFINE a == [k \in Arrays |-> ReadArray(doc[k])]
    <3>1. a = [k \in Arrays |-> doc[k].of]
      BY <2>3
    <3>2. {Len(a[k]) : k \in Arrays} = {n}
      BY <3>1, <2>5 DEF Arrays
    <3>3. Least({Len(a[k]) : k \in Arrays}) = n
      BY <3>2, <2>6, LeastOfOne
    <3>4. stages = [g \in 1 .. n |-> [ns |-> NotNegative(a["ns"][g]),
                                      niter |-> NotNegative(a["niter"][g]),
                                      ftol |-> a["ftol"][g]]]
      BY <1>3, <3>3 DEF MappedStages, Arrays
    <3> QED
      BY <3>1, <3>4 DEF Arrays
  <2>9. \A g \in 1 .. n : /\ stages[g].ns = NotNegative(doc.ns.of[g])
                          /\ stages[g].niter = NotNegative(doc.niter.of[g])
                          /\ stages[g].ftol = doc.ftol.of[g]
    BY <2>8
  <2>10. \A g \in DOMAIN stages : stages[g].ns \in MinSurfaces .. MaxSurfaces
    BY DEF ScheduleErrors
  <2>11. \A g \in DOMAIN stages : ~(stages[g].niter < 1)
    BY DEF ScheduleErrors
  <2>12. stages # <<>>
    BY DEF ScheduleErrors
  <2>13. DOMAIN stages = 1 .. n
    BY <2>8
  <2>14. \A g \in 1 .. n : stages[g].ns = doc.ns.of[g] /\ stages[g].niter = doc.niter.of[g]
    <3> SUFFICES ASSUME NEW g \in 1 .. n
                 PROVE  stages[g].ns = doc.ns.of[g] /\ stages[g].niter = doc.niter.of[g]
      OBVIOUS
    <3>1. doc.ns.of[g] \in Int /\ doc.niter.of[g] \in Int
      BY <2>7 DEF Arrays
    <3>2. stages[g].ns \in 3 .. 512 /\ ~(stages[g].niter < 1)
      <4> HIDE DEF stages, n
      <4> QED
        BY <2>10, <2>11, <2>13 DEF MinSurfaces, MaxSurfaces
    <3>3. stages[g].ns = NotNegative(doc.ns.of[g]) /\ stages[g].niter = NotNegative(doc.niter.of[g])
      BY <2>9
    <3>4. \A i \in Int : i < 0 => NotNegative(i) = 0
      BY DEF NotNegative
    <3>5. \A i \in Int : ~(i < 0) => NotNegative(i) = i
      BY DEF NotNegative
    <3> HIDE DEF stages, n
    <3> QED
      BY <3>1, <3>2, <3>3, <3>4, <3>5
  <2>15. stages \in Seq(Stage)
    <3>1. \A g \in 1 .. n : stages[g] \in Stage
      BY <2>7, <2>8 DEF Arrays, NotNegative, Stage
    <3>2. stages = [g \in 1 .. n |-> stages[g]]
      BY <2>8
    <3> HIDE DEF stages, n
    <3> QED
      BY <3>1, <3>2, <2>6
  <2>16. Len(stages) = n
    BY <2>6, <2>13, <2>15
  <2>17. \A k \in Arrays : doc[k].of = [g \in 1 .. n |-> stages[g][k]]
    <3>1. \A k \in Arrays, g \in 1 .. n : doc[k].of[g] = stages[g][k]
      BY <2>9, <2>14 DEF Arrays
    <3>2. \A k \in Arrays : doc[k].of = [g \in 1 .. n |-> doc[k].of[g]]
      <4> SUFFICES ASSUME NEW k \in Arrays
                   PROVE  doc[k].of = [g \in 1 .. n |-> doc[k].of[g]]
        OBVIOUS
      <4> DEFINE of == doc[k].of
      <4>1. of \in Seq(Int) /\ Len(of) = n
        BY <2>4, <2>5
      <4> HIDE DEF of, n, stages, given, errors, others
      <4>2. of = [g \in 1 .. n |-> of[g]]
        BY ONLY <4>1
      <4> QED
        BY <4>2 DEF of
    <3> QED
      BY <3>1, <3>2
  <2>18. \A g \in 1 .. n : Plain(stages[g])
    BY <2>7, <2>9, <2>14 DEF Plain, Arrays
  <2> QED
    BY <2>3, <2>12, <2>13, <2>15, <2>16, <2>17, <2>18 DEF StagesAsWritten
<1> QED
  BY <1>1, <1>2, <1>3

(* What read_and_validate() accepts: no error of the mapping, none of        *)
(* validate(); the problem is the mapped one without what is ignored.        *)
LEMMA Accepted ==
  ASSUME NEW doc, NEW strict
  PROVE  /\ ReadAndValidate(doc, strict).ok
              <=> /\ doc.form = "object" /\ MappingErrors(doc, strict) = {}
                  /\ SpecErrors(MappedSpec(doc)) = {}
         /\ ReadAndValidate(doc, strict).ok =>
              ReadAndValidate(doc, strict).problem = Assembled(MappedSpec(doc))
<1> DEFINE m == MappingErrors(doc, strict)
           e == SpecErrors(MappedSpec(doc))
           a == Assembled(MappedSpec(doc))
           r == ReadAndValidate(doc, strict)
           w == MappingWarnings(doc, strict) \cup SpecWarnings(MappedSpec(doc))
<1>1. r = IF doc.form # "object" THEN [ok |-> FALSE, issues |-> {"form"}]
          ELSE IF m \cup e # {} THEN [ok |-> FALSE, issues |-> m \cup e]
          ELSE [ok |-> TRUE, problem |-> a, warnings |-> w]
  BY DEF ReadAndValidate
<1>2. m \cup e = {} <=> m = {} /\ e = {}
  OBVIOUS
<1> HIDE DEF m, e, a, r, w
<1>3. (r.ok <=> doc.form = "object" /\ m = {} /\ e = {}) /\ (r.ok => r.problem = a)
  <2>1. CASE doc.form # "object"
    BY <1>1, <2>1
  <2>2. CASE doc.form = "object" /\ m \cup e # {}
    BY <1>1, <1>2, <2>2
  <2>3. CASE doc.form = "object" /\ m \cup e = {}
    BY <1>1, <1>2, <2>3
  <2> QED
    BY <2>1, <2>2, <2>3
<1> QED
  BY <1>3 DEF m, e, a, r

Problems ==
  [scalar : {"default", "accepted"}, stages : Seq(Stage),
   free : BOOLEAN, mgrid : BOOLEAN, coils : BOOLEAN, file : BOOLEAN,
   extcur : BOOLEAN, embedded : {"absent", "unfit", "fit"},
   axis : {"fit"}, hasAxis : BOOLEAN, lasym : BOOLEAN, complement : BOOLEAN,
   rbc : SUBSET {"inside"}, zbs : SUBSET {"inside"}, zbc : SUBSET {"inside"},
   flat : BOOLEAN, modes : [mpol : 2 .. 16, ntor : 0 .. 15]]

(* A problem that has been validated: validate() has nothing against it, and *)
(* no element of its schedule is one that could not be read.                 *)
Validated(p) ==
  /\ p \in Problems /\ SpecErrors(p) = {}
  /\ \A g \in DOMAIN p.stages : Plain(p.stages[g])

(* The problem says what the document said.                                  *)
Says(doc, p) ==
  /\ p.scalar = (IF doc.scalar = "absent" THEN "default" ELSE doc.scalar)
  /\ StagesAsWritten(doc, p.stages)
  /\ \A k \in {"rbc", "zbs", "zbc"} : p[k] = doc[k] \ {"outside"}
  /\ p.embedded = doc.embedded

LEMMA AssembledFields ==
  ASSUME NEW q, q = [scalar |-> q.scalar, stages |-> q.stages, free |-> q.free,
             mgrid |-> q.mgrid, coils |-> q.coils, file |-> q.file,
             extcur |-> q.extcur, embedded |-> q.embedded, axis |-> q.axis,
             hasAxis |-> q.hasAxis, lasym |-> q.lasym, complement |-> q.complement,
             rbc |-> q.rbc, zbs |-> q.zbs, zbc |-> q.zbc,
             flat |-> q.flat, modes |-> q.modes]
  PROVE  Assembled(q) =
           [scalar |-> q.scalar, stages |-> q.stages, free |-> q.free,
            mgrid |-> q.mgrid, coils |-> q.coils, file |-> q.file,
            extcur |-> q.extcur, embedded |-> q.embedded, axis |-> "fit",
            hasAxis |-> q.hasAxis, lasym |-> q.lasym, complement |-> q.complement,
            rbc |-> Kept(q.rbc), zbs |-> Kept(q.zbs), zbc |-> Kept(q.zbc),
            flat |-> q.flat, modes |-> q.modes]
<1> DEFINE a == Assembled(q)
<1>1. a = [q EXCEPT !.axis = "fit", !.rbc = Kept(@), !.zbs = Kept(@), !.zbc = Kept(@)]
  BY DEF Assembled
<1> HIDE DEF a
<1>2. a = [scalar |-> q.scalar, stages |-> q.stages, free |-> q.free,
            mgrid |-> q.mgrid, coils |-> q.coils, file |-> q.file,
            extcur |-> q.extcur, embedded |-> q.embedded, axis |-> "fit",
            hasAxis |-> q.hasAxis, lasym |-> q.lasym, complement |-> q.complement,
            rbc |-> Kept(q.rbc), zbs |-> Kept(q.zbs), zbc |-> Kept(q.zbc),
            flat |-> q.flat, modes |-> q.modes]
  BY <1>1
<1> QED
  BY <1>2 DEF a

LEMMA ProblemsRead ==
  ASSUME NEW doc \in Documents, NEW strict \in BOOLEAN,
         ReadAndValidate(doc, strict).ok
  PROVE  /\ doc.form = "object" /\ (doc.unknown => ~strict)
         /\ Says(doc, ReadAndValidate(doc, strict).problem)
         /\ Validated(ReadAndValidate(doc, strict).problem)
<1> DEFINE q == MappedSpec(doc)
           p == ReadAndValidate(doc, strict).problem
<1>1. /\ doc.form = "object" /\ MappingErrors(doc, strict) = {}
      /\ SpecErrors(q) = {} /\ p = Assembled(q)
  BY Accepted
<1>2. /\ doc.scalar # "text" /\ doc.embedded # "partial"
      /\ \A k \in {"rbc", "zbs", "zbc"} : "malformed" \notin doc[k]
      /\ ~(doc.unknown /\ strict) /\ StageErrors(doc) = {}
  BY <1>1 DEF MappingErrors
<1>3. /\ q.scalar = (IF doc.scalar = "absent" THEN "default" ELSE doc.scalar)
      /\ q.stages = MappedStages(doc) /\ q.embedded = doc.embedded
      /\ q.rbc = doc.rbc /\ q.zbs = doc.zbs /\ q.zbc = doc.zbc
      /\ q.free = doc.free /\ q.mgrid = doc.mgrid /\ q.coils = doc.coils
      /\ q.file = doc.file /\ q.extcur = doc.extcur
      /\ q.hasAxis = (doc.axis # "absent") /\ q.axis = doc.axis
      /\ q.lasym = doc.lasym /\ q.complement = doc.complement
      /\ q.flat = doc.flat /\ q.modes = doc.modes
  BY <1>2 DEF MappedSpec, ReadHarmonics, MappedMakegrid
<1>4. /\ ScalarErrors(q) = {} /\ FreeBoundaryErrors(q) = {} /\ SymmetryErrors(q) = {}
      /\ ScheduleErrors(q.stages) = {} /\ BoundaryErrors(q) = {}
  BY <1>1 DEF SpecErrors
<1>5. p = [scalar |-> q.scalar, stages |-> q.stages, free |-> q.free,
           mgrid |-> q.mgrid, coils |-> q.coils, file |-> q.file,
           extcur |-> q.extcur, embedded |-> q.embedded, axis |-> "fit",
           hasAxis |-> q.hasAxis, lasym |-> q.lasym, complement |-> q.complement,
           rbc |-> Kept(q.rbc), zbs |-> Kept(q.zbs), zbc |-> Kept(q.zbc),
           flat |-> q.flat, modes |-> q.modes]
  <2>1. q = [scalar |-> q.scalar, stages |-> q.stages, free |-> q.free,
             mgrid |-> q.mgrid, coils |-> q.coils, file |-> q.file,
             extcur |-> q.extcur, embedded |-> q.embedded, axis |-> q.axis,
             hasAxis |-> q.hasAxis, lasym |-> q.lasym, complement |-> q.complement,
             rbc |-> q.rbc, zbs |-> q.zbs, zbc |-> q.zbc,
             flat |-> q.flat, modes |-> q.modes]
    BY DEF MappedSpec
  <2> HIDE DEF q, p
  <2> QED
    BY <1>1, <2>1, AssembledFields
<1>6. /\ StagesAsWritten(doc, q.stages)
      /\ q.stages \in Seq(Stage) /\ q.stages # <<>>
      /\ \A g \in DOMAIN q.stages : Plain(q.stages[g])
  BY <1>2, <1>3, <1>4, StagesRead
<1> HIDE DEF q, p
<1>7. Says(doc, p)
  BY <1>3, <1>5, <1>6 DEF Says, Kept
<1>8. p \in Problems
  <2>1. q.scalar \in {"default", "accepted"}
    BY <1>2, <1>3, <1>4 DEF ScalarErrors, Documents
  <2>2. q.embedded \in {"absent", "unfit", "fit"}
    BY <1>2, <1>3 DEF Documents
  <2>3. /\ Kept(q.rbc) \subseteq {"inside"} /\ Kept(q.zbs) \subseteq {"inside"}
        /\ Kept(q.zbc) \subseteq {"inside"}
    BY <1>2, <1>3 DEF Documents, Harmonics, Kept
  <2>4. /\ q.free \in BOOLEAN /\ q.mgrid \in BOOLEAN /\ q.coils \in BOOLEAN
        /\ q.file \in BOOLEAN /\ q.extcur \in BOOLEAN /\ q.hasAxis \in BOOLEAN
        /\ q.lasym \in BOOLEAN /\ q.complement \in BOOLEAN /\ q.flat \in BOOLEAN
    BY <1>3 DEF Documents
  <2>5. q.modes \in [mpol : 2 .. 16, ntor : 0 .. 15]
    <3>1. q.modes \in [mpol : Int, ntor : Int]
      BY <1>3 DEF Documents
    <3>2. q.modes.mpol \in 2 .. 16 /\ q.modes.ntor \in 0 .. 15
      BY <1>4 DEF ScalarErrors
    <3> QED
      BY <3>1, <3>2
  <2> QED
    BY <1>5, <1>6, <2>1, <2>2, <2>3, <2>4, <2>5 DEF Problems
<1>9. SpecErrors(p) = {}
  <2>1. ScalarErrors(p) = {}
    BY <1>4, <1>5 DEF ScalarErrors
  <2>2. FreeBoundaryErrors(p) = {}
    BY <1>4, <1>5 DEF FreeBoundaryErrors
  <2>3. SymmetryErrors(p) = {}
    BY <1>4, <1>5 DEF SymmetryErrors, Kept
  <2>4. ScheduleErrors(p.stages) = {}
    BY <1>4, <1>5
  <2>5. BoundaryErrors(p) = {}
    BY <1>4, <1>5 DEF BoundaryErrors, Kept
  <2> QED
    BY <2>1, <2>2, <2>3, <2>4, <2>5 DEF SpecErrors
<1> QED
  BY <1>1, <1>2, <1>5, <1>6, <1>7, <1>8, <1>9 DEF Validated, p

(* A schedule that has been validated, written as three arrays.              *)
LEMMA StagesReadBack ==
  ASSUME NEW doc, NEW stages \in Seq(Stage), stages # <<>>,
         \A g \in DOMAIN stages : Plain(stages[g]),
         \A k \in Arrays :
           /\ doc[k].kind = "array"
           /\ doc[k].of = [g \in 1 .. Len(stages) |-> stages[g][k]]
  PROVE  MappedStages(doc) = stages /\ StageErrors(doc) = {}
<1> DEFINE n == Len(stages)
           Column(k) == [g \in 1 .. n |-> stages[g][k]]
<1>1. n \in Nat /\ DOMAIN stages = 1 .. n
  OBVIOUS
<1>2. \A k \in Arrays : doc[k].kind = "array" /\ doc[k].of = Column(k)
  OBVIOUS
<1>3. {k \in Arrays : doc[k].kind # "absent"} = Arrays /\ Arrays # {}
  BY <1>2 DEF Arrays
<1>4. \A g \in 1 .. n, k \in Arrays : stages[g][k] \in Int \ {Malformed}
  <2> SUFFICES ASSUME NEW g \in 1 .. n
               PROVE  \A k \in Arrays : stages[g][k] \in Int \ {Malformed}
    OBVIOUS
  <2>1. stages[g] \in Stage /\ Plain(stages[g])
    BY <1>1
  <2> QED
    BY <2>1 DEF Stage, Plain, Arrays
<1>5. \A g \in 1 .. n : stages[g].ns \in Nat /\ stages[g].niter \in Nat
  <2> SUFFICES ASSUME NEW g \in 1 .. n
               PROVE  stages[g].ns \in Nat /\ stages[g].niter \in Nat
    OBVIOUS
  <2>1. stages[g] \in Stage
    BY <1>1
  <2> QED
    BY <2>1 DEF Stage
<1>6. \A k \in Arrays : DOMAIN Column(k) = 1 .. n /\ Len(Column(k)) = n
  BY <1>1
<1>7. \A k \in Arrays, g \in 1 .. n : Column(k)[g] = stages[g][k]
  OBVIOUS
<1> HIDE DEF n, Column
<1>8. \A k \in Arrays : ReadArray(doc[k]) = Column(k)
  <2> SUFFICES ASSUME NEW k \in Arrays PROVE ReadArray(doc[k]) = Column(k)
    OBVIOUS
  <2>1. ReadArray(doc[k]) = [i \in 1 .. n |-> IF Column(k)[i] = Malformed THEN 0 ELSE Column(k)[i]]
    BY <1>2, <1>6 DEF ReadArray
  <2>2. \A i \in 1 .. n : Column(k)[i] # Malformed
    BY <1>4, <1>7
  <2>3. Column(k) = [i \in 1 .. n |-> Column(k)[i]]
    BY DEF Column
  <2> QED
    BY <2>1, <2>2, <2>3
<1>9. \A k \in Arrays : ArrayErrors(k, doc[k]) = {}
  BY <1>2, <1>4, <1>6, <1>7 DEF ArrayErrors, Elements
<1>10. StageErrors(doc) = {}
  <2>1. \A k \in {"niter", "ftol"} : Len(ReadArray(doc[k])) = Len(ReadArray(doc["ns"]))
    BY <1>6, <1>8 DEF Arrays
  <2>2. {k \in {"niter", "ftol"} : Len(ReadArray(doc[k])) # Len(ReadArray(doc["ns"]))} = {}
    BY <2>1
  <2>3. UNION {ArrayErrors(k, doc[k]) : k \in Arrays} = {}
    BY <1>9
  <2> QED
    BY <1>3, <2>2, <2>3 DEF StageErrors
<1>11. MappedStages(doc) = stages
  <2> DEFINE a == [k \in Arrays |-> ReadArray(doc[k])]
             mapped == [g \in 1 .. n |-> [ns |-> NotNegative(a["ns"][g]),
                                          niter |-> NotNegative(a["niter"][g]),
                                          ftol |-> a["ftol"][g]]]
  <2>1. a = [k \in Arrays |-> Column(k)]
    BY <1>8
  <2>2. {Len(a[k]) : k \in Arrays} = {n}
    BY <1>6, <2>1 DEF Arrays
  <2>3. Least({Len(a[k]) : k \in Arrays}) = n
    BY <2>2, <1>1, LeastOfOne
  <2>4. MappedStages(doc) = mapped
    BY <1>3, <2>3 DEF MappedStages
  <2>5. \A g \in 1 .. n : mapped[g] = stages[g]
    <3> SUFFICES ASSUME NEW g \in 1 .. n PROVE mapped[g] = stages[g]
      OBVIOUS
    <3>1. mapped[g] = [ns |-> NotNegative(stages[g].ns),
                       niter |-> NotNegative(stages[g].niter), ftol |-> stages[g].ftol]
      BY <2>1, <1>7 DEF Arrays
    <3>2. NotNegative(stages[g].ns) = stages[g].ns /\ NotNegative(stages[g].niter) = stages[g].niter
      BY <1>5 DEF NotNegative
    <3>3. stages[g] \in Stage
      BY <1>1
    <3> HIDE DEF mapped
    <3> QED
      BY <3>1, <3>2, <3>3 DEF Stage
  <2>6. DOMAIN mapped = 1 .. n /\ mapped = [g \in 1 .. n |-> mapped[g]]
    OBVIOUS
  <2>7. stages = [g \in 1 .. n |-> stages[g]]
    BY <1>1
  <2> HIDE DEF mapped
  <2> QED
    BY <2>4, <2>5, <2>6, <2>7
<1> QED
  BY <1>10, <1>11

(* Writing a validated problem and reading it back changes nothing.          *)
LEMMA ReadsBack ==
  ASSUME NEW p, Validated(p)
  PROVE  LET r == ReadAndValidate(WrittenSpec(p), TRUE)
         IN  r.ok /\ r.problem = p
<1> DEFINE doc == WrittenSpec(p)
           q == MappedSpec(doc)
<1>1. p \in Problems /\ SpecErrors(p) = {}
  BY DEF Validated
<1>2. /\ ScalarErrors(p) = {} /\ FreeBoundaryErrors(p) = {} /\ SymmetryErrors(p) = {}
      /\ ScheduleErrors(p.stages) = {} /\ BoundaryErrors(p) = {}
  BY <1>1 DEF SpecErrors
<1>3. p.stages \in Seq(Stage) /\ p.stages # <<>>
  BY <1>1, <1>2 DEF Problems, ScheduleErrors
<1>4. /\ doc.form = "object" /\ doc.scalar = p.scalar /\ doc.unknown = FALSE
      /\ doc.free = p.free /\ doc.mgrid = p.mgrid /\ doc.coils = p.coils
      /\ doc.file = p.file /\ doc.extcur = p.extcur /\ doc.embedded = p.embedded
      /\ doc.axis = (IF p.hasAxis THEN p.axis ELSE "absent")
      /\ doc.lasym = p.lasym /\ doc.complement = p.complement
      /\ doc.rbc = p.rbc /\ doc.zbs = p.zbs
      /\ doc.zbc = (IF p.lasym THEN p.zbc ELSE {})
      /\ doc.flat = p.flat /\ doc.modes = p.modes
  BY DEF WrittenSpec
<1>5. \A k \in Arrays :
        /\ doc[k].kind = "array"
        /\ doc[k].of = [g \in 1 .. Len(p.stages) |-> p.stages[g][k]]
  <2>1. DOMAIN p.stages = 1 .. Len(p.stages)
    BY <1>3
  <2>2. /\ doc.ns = [kind |-> "array", of |-> [g \in DOMAIN p.stages |-> p.stages[g]["ns"]]]
        /\ doc.niter = [kind |-> "array", of |-> [g \in DOMAIN p.stages |-> p.stages[g]["niter"]]]
        /\ doc.ftol = [kind |-> "array", of |-> [g \in DOMAIN p.stages |-> p.stages[g]["ftol"]]]
    BY <1>3 DEF WrittenSpec
  <2> HIDE DEF doc
  <2>3. /\ doc.ns.kind = "array" /\ doc.niter.kind = "array" /\ doc.ftol.kind = "array"
    BY <2>2
  <2>4. /\ doc.ns.of = [g \in 1 .. Len(p.stages) |-> p.stages[g]["ns"]]
        /\ doc.niter.of = [g \in 1 .. Len(p.stages) |-> p.stages[g]["niter"]]
        /\ doc.ftol.of = [g \in 1 .. Len(p.stages) |-> p.stages[g]["ftol"]]
    BY <2>1, <2>2
  <2> QED
    BY <2>3, <2>4 DEF Arrays
<1> HIDE DEF doc
<1>6. MappedStages(doc) = p.stages /\ StageErrors(doc) = {}
  BY <1>3, <1>5, StagesReadBack DEF Validated
<1>7. doc.zbc = p.zbc
  BY <1>1, <1>2, <1>4 DEF SymmetryErrors, Problems
<1>8. /\ doc.rbc \subseteq {"inside"} /\ doc.zbs \subseteq {"inside"}
      /\ doc.zbc \subseteq {"inside"}
  BY <1>1, <1>4, <1>7 DEF Problems
<1>9. /\ doc.scalar \in {"default", "accepted"} /\ doc.embedded # "partial"
      /\ p.axis = "fit" /\ p.hasAxis \in BOOLEAN
  BY <1>1, <1>4 DEF Problems
<1>10. MappingErrors(doc, TRUE) = {}
  BY <1>4, <1>6, <1>8, <1>9 DEF MappingErrors
<1>11. q = [scalar |-> p.scalar, stages |-> p.stages, free |-> p.free,
            mgrid |-> p.mgrid, coils |-> p.coils, file |-> p.file,
            extcur |-> p.extcur, embedded |-> p.embedded, axis |-> doc.axis,
            hasAxis |-> p.hasAxis, lasym |-> p.lasym, complement |-> p.complement,
            rbc |-> p.rbc, zbs |-> p.zbs, zbc |-> p.zbc,
            flat |-> p.flat, modes |-> p.modes]
  <2>1. /\ ReadHarmonics(doc.rbc) = p.rbc /\ ReadHarmonics(doc.zbs) = p.zbs
        /\ ReadHarmonics(doc.zbc) = p.zbc /\ MappedMakegrid(doc.embedded) = p.embedded
    BY <1>4, <1>7, <1>8, <1>9 DEF ReadHarmonics, MappedMakegrid
  <2>2. (IF doc.scalar \in {"absent", "text"} THEN "default" ELSE doc.scalar) = p.scalar
    BY <1>4, <1>9
  <2>3. (doc.axis # "absent") = p.hasAxis
    BY <1>4, <1>9
  <2> QED
    BY <1>4, <1>6, <2>1, <2>2, <2>3 DEF MappedSpec
<1> HIDE DEF q
<1>12. SpecErrors(q) = {}
  <2>1. ScalarErrors(q) = {}
    BY <1>2, <1>11 DEF ScalarErrors
  <2>2. FreeBoundaryErrors(q) = {}
    BY <1>2, <1>11 DEF FreeBoundaryErrors
  <2>3. SymmetryErrors(q) = {}
    BY <1>2, <1>4, <1>9, <1>11 DEF SymmetryErrors
  <2>4. ScheduleErrors(q.stages) = {}
    BY <1>2, <1>11
  <2>5. BoundaryErrors(q) = {}
    BY <1>2, <1>11 DEF BoundaryErrors
  <2> QED
    BY <2>1, <2>2, <2>3, <2>4, <2>5 DEF SpecErrors
<1>13. Assembled(q) = p
  <2>1. Kept(p.rbc) = p.rbc /\ Kept(p.zbs) = p.zbs /\ Kept(p.zbc) = p.zbc
    BY <1>4, <1>7, <1>8 DEF Kept
  <2>2. Assembled(q) = [scalar |-> p.scalar, stages |-> p.stages, free |-> p.free,
            mgrid |-> p.mgrid, coils |-> p.coils, file |-> p.file,
            extcur |-> p.extcur, embedded |-> p.embedded, axis |-> "fit",
            hasAxis |-> p.hasAxis, lasym |-> p.lasym, complement |-> p.complement,
            rbc |-> p.rbc, zbs |-> p.zbs, zbc |-> p.zbc,
            flat |-> p.flat, modes |-> p.modes]
    <3>1. /\ q.scalar = p.scalar /\ q.stages = p.stages /\ q.free = p.free
          /\ q.mgrid = p.mgrid /\ q.coils = p.coils /\ q.file = p.file
          /\ q.extcur = p.extcur /\ q.embedded = p.embedded
          /\ q.hasAxis = p.hasAxis /\ q.lasym = p.lasym /\ q.complement = p.complement
          /\ q.rbc = p.rbc /\ q.zbs = p.zbs /\ q.zbc = p.zbc
          /\ q.flat = p.flat /\ q.modes = p.modes /\ q.axis = doc.axis
      BY <1>11
    <3> QED
      BY <1>11, <2>1, <3>1, AssembledFields
  <2> QED
    BY <1>1, <2>2 DEF Problems
<1> QED
  BY <1>4, <1>10, <1>12, <1>13, Accepted DEF doc, q

-----------------------------------------------------------------------------
(* The files of a run.                                                       *)

(* Every layout a checkpoint may have is one of the rules of its version.    *)
LEMMA CheckpointLayoutsWellFormed ==
  ASSUME NEW layout \in CheckpointLayouts
  PROVE  CheckpointWellFormed(layout)
<1>1. CASE layout \in {CheckpointLayout(lasym) : lasym \in BOOLEAN}
  BY <1>1, CheckpointLayoutIs
<1>2. CASE layout \in {LegacyCheckpoints[v] : v \in DOMAIN LegacyCheckpoints}
  <2>1. PICK v \in {1, 2, 3, 4, 5, 7} : layout = LegacyCheckpoints[v]
    BY <1>2 DEF LegacyCheckpoints
  <2> QED
    BY <2>1, LegacyCheckpointIs
<1> QED
  BY <1>1, <1>2 DEF CheckpointLayouts

(* The checkpoint path holds what a writer put there, as far as the copy of  *)
(* it got, or something that does not begin as a checkpoint.                 *)
StoredFile(f) ==
  /\ Released(f) /\ IsSequence(f.fields)
  /\ Ahead(f.fields, 0, CheckpointFile(f.of.snapshot, f.of.params, f.layout))

(* A release keeps to the rules of its layout.                               *)
LEMMA ReleasedIs ==
  ASSUME NEW f, Released(f)
  PROVE  CheckpointWritten(f.of.snapshot, f.of.params, f.layout)
<1>1. /\ StateOk(f.of.snapshot) /\ CheckpointWellFormed(f.layout)
      /\ f.of.params.stages \in Nat /\ f.of.params.embedded \in BOOLEAN
      /\ f.of.params.lasym = f.of.snapshot.lasym
      /\ f.of.snapshot.lasym => f.layout.count
      /\ f.layout.asymmetric => f.of.snapshot.lasym
  BY CheckpointLayoutsWellFormed DEF Released, StateOk
<1>2. f.layout.record = "typed" /\ f.of.snapshot.lasym => f.layout.asymmetric
  BY <1>1 DEF CheckpointWellFormed
<1>3. f.layout.record = "typed" => (f.layout.asymmetric <=> f.of.snapshot.lasym)
  BY <1>1, <1>2 DEF StateOk, CheckpointWellFormed
<1> QED
  BY <1>1, <1>3 DEF CheckpointWritten

(* A checkpoint that was not copied, and what a reader makes of any file on  *)
(* the checkpoint path.                                                      *)
LEMMA ReleasedIsStored ==
  ASSUME NEW f, Released(f),
         f.fields = CheckpointFile(f.of.snapshot, f.of.params, f.layout)
  PROVE  StoredFile(f)
<1> DEFINE W == CheckpointFile(f.of.snapshot, f.of.params, f.layout)
<1>1. IsSequence(W)
  BY ReleasedIs, CheckpointIsSequence DEF CheckpointWritten
<1> HIDE DEF W
<1>2. Len(W) \in Nat
  BY <1>1, Joined
<1>3. Ahead(W, 0, W)
  BY <1>2 DEF Ahead
<1> QED
  BY <1>1, <1>3 DEF StoredFile, W

LEMMA StoredReads ==
  ASSUME NEW f, StoredFile(f)
  PROVE  CheckpointReads(f)
<1>1. Released(f) /\ Len(f.fields) \in Nat
  BY Joined DEF StoredFile
<1> DEFINE s == f.of.snapshot
           p == f.of.params
           layout == f.layout
           W == CheckpointFile(s, p, layout)
<1>2. CheckpointWritten(s, p, layout)
  BY <1>1, ReleasedIs
<1>3. Ahead(f.fields, 0, W)
  BY DEF StoredFile
<1> SUFFICES ASSUME NEW asked \in BOOLEAN
             PROVE  LET r == ReadCheckpoint(f.fields, asked)
                    IN  /\ r.ok => StateIs(r, s) /\ (asked => RecordIs(r, p, layout))
                        /\ layout.version # 7 /\ f.fields = W => r.ok
  BY DEF CheckpointReads
<1> DEFINE r == ReadCheckpoint(f.fields, asked)
<1>4. /\ r.ok => StateIs(r, s) /\ (asked => RecordIs(r, p, layout))
      /\ layout.version # 7 /\ Len(f.fields) = Len(W) => r.ok
  <2> DEFINE file == f.fields
  <2>1. Len(file) \in Nat /\ Ahead(file, 0, CheckpointFile(s, p, layout))
    BY <1>1, <1>3
  <2> HIDE DEF s, p, layout, file
  <2>2. LET t == ReadCheckpoint(file, asked)
        IN  /\ t.ok => StateIs(t, s) /\ (asked => RecordIs(t, p, layout))
            /\ layout.version # 7 /\ Len(file) = Len(CheckpointFile(s, p, layout)) => t.ok
    BY <1>2, <2>1, CheckpointIsRead
  <2> QED
    BY <2>2 DEF file
<1> QED
  BY <1>4

LEMMA ForeignReads ==
  ASSUME NEW f, Foreign(f)
  PROVE  CheckpointReads(f)
<1>1. CASE Released(f) /\ f.fields = CheckpointFile(f.of.snapshot, f.of.params, f.layout)
  BY <1>1, ReleasedIsStored, StoredReads
<1>2. CASE ~(Released(f) /\ f.fields = CheckpointFile(f.of.snapshot, f.of.params, f.layout))
  <2>1. ASSUME NEW asked \in BOOLEAN
        PROVE  ~ReadCheckpoint(f.fields, asked).ok
    BY ForeignRefused DEF Foreign
  <2> QED
    BY <1>2, <2>1 DEF CheckpointReads
<1> QED
  BY <1>1, <1>2

(* The files whose arrays have names.                                        *)
LEMMA NamedIsRead ==
  ASSUME NEW o, Shaped(o.snapshot, o.params, o.report)
  PROVE  NamedReads(o)
<1> SUFFICES ASSUME NEW format \in {"nc", "h5"}, NEW layout \in NamedLayouts,
                    NEW asked \in BOOLEAN
             PROVE  LET f == NamedFile(format, o, layout)
                        r == ReadNamed(format, f, asked)
                    IN  /\ ~Refused(f) /\ r.ok =>
                             NamedAgrees(r, o.snapshot, o.params, o.report, layout, asked)
                        /\ ~Refused(f) /\ ~asked => r.ok
                        /\ ~Refused(f) /\ ~o.params.lasym => r.ok
  BY DEF NamedReads
<1> DEFINE f == NamedFile(format, o, layout)
<1>1. CASE format = "nc"
  <2>1. f = NetcdfFile(o.snapshot, o.params, o.report, layout)
        /\ ReadNamed(format, f, asked) = ReadNetcdf(f, asked)
    BY <1>1 DEF NamedFile, ReadNamed
  <2> HIDE DEF f
  <2>2. ~Refused(f) => LET r == ReadNetcdf(f, asked)
         IN  /\ r.ok => NamedAgrees(r, o.snapshot, o.params, o.report, layout, asked)
             /\ ~asked \/ ~o.params.lasym => r.ok
    BY <2>1, NetcdfIsRead
  <2> QED
    BY <2>1, <2>2 DEF f
<1>2. CASE format = "h5"
  <2>1. f = Hdf5File(o.snapshot, o.params, o.report, layout)
        /\ ReadNamed(format, f, asked) = ReadHdf5(f, asked)
    BY <1>2 DEF NamedFile, ReadNamed
  <2> HIDE DEF f
  <2>2. ~Refused(f) => LET r == ReadHdf5(f, asked)
         IN  /\ r.ok => NamedAgrees(r, o.snapshot, o.params, o.report, layout, asked)
             /\ ~asked \/ ~o.params.lasym => r.ok
    BY <2>1, Hdf5IsRead
  <2> QED
    BY <2>1, <2>2 DEF f
<1> QED
  BY <1>1, <1>2

-----------------------------------------------------------------------------
(* The run.                                                                  *)

(* Newton is only asked for in a double build, once the options have been    *)
(* looked at.                                                                *)
ControlInv ==
  /\ pc \in {"options", "hash", "parse", "restart", "native", "checkpoint", "boozer",
             "solve", "exited"}
  /\ options \in Options /\ document \in Documents
  /\ pc \notin {"options", "exited"} => (options.newton => DoubleBuild)

(* Whatever the input path holds by now, the problem is the one read from    *)
(* the document that was consumed.                                           *)
InputInv ==
  pc \in {"restart", "solve", "native", "checkpoint", "boozer"} =>
    /\ consumed \in Documents
    /\ ReadAndValidate(consumed, ~options.compatibility).ok
    /\ problem = ReadAndValidate(consumed, ~options.compatibility).problem
    /\ options.newton => NewtonFits(problem)
    /\ Solved => (options.newton => ~problem.lasym)

FileInv == StoredFile(checkpoint) \/ Foreign(checkpoint)

(* A result that the containers can hold.                                    *)
ShapedOutcome(o) ==
  /\ Shaped(o.snapshot, o.params, o.report)
  /\ o.snapshot.ns >= 2 /\ o.report # <<>>

OutcomeInv == Solved => ShapedOutcome(outcome)

(* The native binary, once there is one, is what the writer made of such a   *)
(* result.                                                                   *)
WrittenBinary(f) ==
  /\ BinaryWritten(f.of.snapshot, f.of.params, f.of.report, f.layout)
  /\ f.fields = BinaryFile(f.of.snapshot, f.of.params, f.of.report, f.layout)

NativeInv == native.file.fields = <<>> \/ WrittenBinary(native.file)

(* A restart holds the state of the file, and has compared its shape.        *)
SeedInv ==
  pc = "solve" /\ options.restart =>
    LET s == checkpoint.of.snapshot
    IN  /\ s.lasym \in BOOLEAN /\ MatchesFirstGrid(s.ns, s.modes)
        /\ seed = [from |-> "checkpoint", ns |-> s.ns, modes |-> s.modes,
                   families |-> [c \in 1 .. Components(s.lasym) |-> <<s.state, c>>]]

RunInv ==
  /\ ControlInv /\ InputInv /\ FileInv /\ OutcomeInv /\ NativeInv
  /\ SeedInv /\ RestartSeedsPublished

LEMMA InterruptedIsStored ==
  ASSUME NEW f, StoredFile(f) \/ Foreign(f), NEW n \in 0 .. Len(f.fields) - 1
  PROVE  LET g == [f EXCEPT !.fields = SubSeq(@, 1, n)]
         IN  StoredFile(g) \/ Foreign(g)
<1> DEFINE head == SubSeq(f.fields, 1, n)
           g == [f EXCEPT !.fields = SubSeq(@, 1, n)]
<1>1. "fields" \in DOMAIN f
  BY DEF StoredFile, Released, Foreign
<1>2. g.fields = head /\ DOMAIN g = DOMAIN f
  BY <1>1
<1>3. CASE StoredFile(f)
  <2> DEFINE W == CheckpointFile(f.of.snapshot, f.of.params, f.layout)
  <2>1. /\ Released(f) /\ IsSequence(f.fields) /\ Ahead(f.fields, 0, W)
    BY <1>3 DEF StoredFile
  <2>2. PICK S : f.fields \in Seq(S)
    BY <2>1 DEF IsSequence
  <2>3. /\ head \in Seq(S) /\ Len(head) = n /\ n \in Nat /\ n < Len(f.fields)
        /\ \A i \in 1 .. n : head[i] = f.fields[i]
    BY <2>2
  <2>4. IsSequence(head)
    BY <2>3 DEF IsSequence
  <2>5. g.of = f.of /\ g.layout = f.layout
    BY <2>1 DEF Released
  <2> HIDE DEF head, g, W
  <2>6. Ahead(head, 0, W)
    BY <2>1, <2>2, <2>3 DEF Ahead
  <2>7. Released(g)
    BY <1>2, <2>1, <2>5 DEF Released
  <2>8. StoredFile(g)
    BY <1>2, <2>4, <2>5, <2>6, <2>7 DEF StoredFile, W
  <2> QED
    BY <2>8 DEF g
<1>4. CASE Foreign(f)
  <2>1. /\ Len(f.fields) \in Nat
        /\ f.fields = [i \in 1 .. Len(f.fields) |-> f.fields[i]]
        /\ f.fields # <<>> => f.fields[1].type # "magic" \/ f.fields[1].value # "CUMECKP1"
    BY <1>4 DEF Foreign
  <2>2. IsSequence(f.fields)
    <3>1. DOMAIN f.fields = 1 .. Len(f.fields)
      BY <2>1
    <3> QED
      BY <2>1, <3>1, Mapped
  <2>3. PICK S : f.fields \in Seq(S)
    BY <2>2 DEF IsSequence
  <2>4. /\ Len(head) = n /\ n \in Nat /\ head \in Seq(S) /\ n < Len(f.fields)
        /\ \A i \in 1 .. n : head[i] = f.fields[i]
    BY <2>1, <2>3
  <2> HIDE DEF g, head
  <2>5. head = [i \in 1 .. Len(head) |-> head[i]]
    BY <2>4
  <2>6. head # <<>> => head[1].type # "magic" \/ head[1].value # "CUMECKP1"
    <3>1. CASE n = 0
      BY <2>4, <3>1
    <3>2. CASE n # 0
      <4>1. 1 \in 1 .. n /\ f.fields # <<>>
        BY <2>3, <2>4, <3>2
      <4> QED
        BY <2>1, <2>4, <4>1
    <3> QED
      BY <3>1, <3>2
  <2>7. Foreign(g)
    BY <1>1, <1>2, <2>4, <2>5, <2>6 DEF Foreign
  <2> QED
    BY <2>7 DEF g
<1> QED
  BY <1>3, <1>4

LEMMA WrittenCheckpoint ==
  ASSUME NEW o, ShapedOutcome(o)
  PROVE  StoredFile(CheckpointOf(o))
<1> DEFINE layout == CheckpointLayout(o.snapshot.lasym)
           f == CheckpointOf(o)
<1>1. /\ StateOk(o.snapshot) /\ o.params.lasym = o.snapshot.lasym
      /\ o.params.stages \in Nat /\ o.params.embedded \in BOOLEAN
  BY DEF ShapedOutcome, Shaped
<1>2. o.snapshot.lasym \in BOOLEAN /\ o.snapshot.ns \in Nat \ {0}
      /\ o.snapshot.modes \in Nat \ {0}
  BY <1>1 DEF StateOk
<1>3. layout \in CheckpointLayouts
  BY <1>2 DEF CheckpointLayouts
<1>4. /\ o.snapshot.lasym => layout.count
      /\ layout.asymmetric => o.snapshot.lasym
  <2> DEFINE own == [version |-> IF o.snapshot.lasym THEN 8 ELSE 6,
                     count |-> o.snapshot.lasym]
             rest == FullRecord(o.snapshot.lasym)
  <2>1. /\ "count" \in DOMAIN own /\ own["count"] = o.snapshot.lasym
        /\ "asymmetric" \in DOMAIN rest \ DOMAIN own
        /\ rest["asymmetric"] = o.snapshot.lasym
    BY DEF FullRecord
  <2>2. layout = Over(own, rest)
    BY DEF CheckpointLayout
  <2> HIDE DEF own, rest, layout
  <2>3. /\ \A x \in DOMAIN own : Over(own, rest)[x] = own[x]
        /\ \A x \in DOMAIN rest \ DOMAIN own : Over(own, rest)[x] = rest[x]
    BY Overlaid
  <2>4. /\ Over(own, rest)["count"] = own["count"]
        /\ Over(own, rest)["asymmetric"] = rest["asymmetric"]
    BY <2>1, <2>3
  <2> QED
    BY <2>1, <2>2, <2>4
<1> HIDE DEF layout
<1>5. /\ DOMAIN f = {"of", "fields", "layout"}
      /\ f.of = o /\ f.layout = layout
      /\ f.fields = CheckpointFile(o.snapshot, o.params, layout)
  BY DEF CheckpointOf, layout
<1> HIDE DEF f
<1>6. Released(f)
  BY <1>1, <1>2, <1>3, <1>4, <1>5 DEF Released
<1>7. f.fields = CheckpointFile(f.of.snapshot, f.of.params, f.layout)
  BY <1>5
<1>8. StoredFile(f)
  BY <1>6, <1>7, ReleasedIsStored
<1> QED
  BY <1>8 DEF f

LEMMA WrittenNative ==
  ASSUME ShapedOutcome(outcome)
  PROVE  NativeFile.fields = <<>> \/ WrittenBinary(NativeFile)
<1> DEFINE s == outcome.snapshot
           layout == BinaryLayout(s.lasym)
           W == BinaryFile(s, outcome.params, outcome.report, layout)
           f == NativeFile
<1>1. /\ f.of = outcome /\ f.layout = layout
      /\ f.fields = Optional(Format(options) = "bin", W)
  BY DEF NativeFile
<1>2. /\ StateOk(s) /\ s.ns >= 2 /\ s.fields = "complete"
      /\ outcome.params.lasym = s.lasym
      /\ outcome.params.stages \in Nat /\ outcome.params.embedded \in BOOLEAN
      /\ outcome.report \in Seq(Nat) /\ outcome.report # <<>>
  BY DEF ShapedOutcome, Shaped
<1>3. s.lasym \in BOOLEAN
  BY <1>2 DEF StateOk
<1>4. /\ BinaryWellFormed(layout) /\ (s.lasym => layout.count)
      /\ layout.record = "typed" => (layout.asymmetric <=> s.lasym)
  <2>1. BinaryWellFormed(layout) /\ layout.version = IF s.lasym THEN 10 ELSE 8
    BY <1>3, BinaryLayoutIs
  <2> HIDE DEF s, layout
  <2> QED
    BY <1>3, <2>1 DEF BinaryWellFormed
<1> HIDE DEF s, layout, W, f
<1>5. CASE Format(options) = "bin"
  <2>1. f.fields = W
    BY <1>1, <1>5 DEF Optional
  <2>2. BinaryWritten(s, outcome.params, outcome.report, layout)
    BY <1>2, <1>4 DEF BinaryWritten
  <2>3. WrittenBinary(f)
    BY <1>1, <2>1, <2>2 DEF WrittenBinary, s, W
  <2> QED
    BY <2>3 DEF f
<1>6. CASE Format(options) # "bin"
  <2>1. f.fields = <<>>
    BY <1>1, <1>6 DEF Optional
  <2> QED
    BY <2>1 DEF f
<1> QED
  BY <1>5, <1>6

(* validate() has nothing against a problem that the solver cannot take.     *)
LEMMA ValidatedSolvable ==
  ASSUME NEW p, Validated(p)
  PROVE  /\ p.stages \in Seq(Stage) /\ p.stages # <<>>
         /\ \A g \in DOMAIN p.stages :
              /\ p.stages[g].ns >= MinSurfaces /\ p.stages[g].niter >= 1
              /\ g > 1 => p.stages[g - 1].ns < p.stages[g].ns
         /\ p.rbc # {} /\ p.zbs \cup p.zbc # {} /\ p.axis = "fit"
         /\ p.free => p.extcur /\ (p.mgrid <=> ~p.coils)
         /\ ~p.lasym => p.zbc = {} /\ ~p.complement
         /\ p.lasym \in BOOLEAN
<1>1. /\ p \in Problems
      /\ FreeBoundaryErrors(p) = {} /\ SymmetryErrors(p) = {}
      /\ ScheduleErrors(p.stages) = {} /\ BoundaryErrors(p) = {}
  BY DEF Validated, SpecErrors
<1>2. /\ p.stages \in Seq(Stage) /\ p.axis = "fit" /\ p.lasym \in BOOLEAN
      /\ p.free \in BOOLEAN /\ p.mgrid \in BOOLEAN /\ p.coils \in BOOLEAN
      /\ p.file \in BOOLEAN
  BY <1>1 DEF Problems
<1>3. /\ p.stages # <<>>
      /\ \A g \in DOMAIN p.stages :
           /\ p.stages[g].ns \in MinSurfaces .. MaxSurfaces
           /\ ~(p.stages[g].niter < 1)
           /\ g > 1 => ~(p.stages[g].ns <= p.stages[g - 1].ns)
  BY <1>1 DEF ScheduleErrors
<1>4. \A g \in DOMAIN p.stages :
        /\ p.stages[g].ns >= MinSurfaces /\ p.stages[g].niter >= 1
        /\ g > 1 => p.stages[g - 1].ns < p.stages[g].ns
  <2> SUFFICES ASSUME NEW g \in DOMAIN p.stages
               PROVE  /\ p.stages[g].ns >= MinSurfaces /\ p.stages[g].niter >= 1
                      /\ g > 1 => p.stages[g - 1].ns < p.stages[g].ns
    OBVIOUS
  <2>1. \A h \in 1 .. Len(p.stages) : p.stages[h].ns \in Nat /\ p.stages[h].niter \in Nat
    <3>1. \A h \in 1 .. Len(p.stages) : p.stages[h] \in Stage
      BY <1>2
    <3> QED
      BY <3>1 DEF Stage
  <2>2. DOMAIN p.stages = 1 .. Len(p.stages) /\ Len(p.stages) \in Nat
    BY <1>2
  <2>3. p.stages[g].ns \in Nat /\ p.stages[g].niter \in Nat
    BY <2>1, <2>2
  <2>4. p.stages[g].ns >= MinSurfaces /\ p.stages[g].niter >= 1
    <3>1. p.stages[g].ns \in MinSurfaces .. MaxSurfaces /\ ~(p.stages[g].niter < 1)
      BY <1>3
    <3>2. MinSurfaces \in Int /\ MaxSurfaces \in Int
      BY DEF MinSurfaces, MaxSurfaces
    <3> QED
      BY <2>3, <3>1, <3>2
  <2>5. ASSUME g > 1
        PROVE  p.stages[g - 1].ns < p.stages[g].ns
    <3>1. g - 1 \in 1 .. Len(p.stages)
      BY <2>2, <2>5
    <3>2. p.stages[g - 1].ns \in Nat
      BY <2>1, <3>1
    <3> QED
      BY <1>3, <2>3, <2>5, <3>2
  <2> QED
    BY <2>4, <2>5
<1>5. p.rbc # {} /\ p.zbs \cup p.zbc # {}
  BY <1>1 DEF BoundaryErrors, Kept
<1>6. p.free => p.extcur /\ (p.mgrid <=> ~p.coils)
  <2>1. p.extcur \in BOOLEAN
    BY <1>1 DEF Problems
  <2> QED
    BY <1>1, <1>2, <2>1 DEF FreeBoundaryErrors
<1>7. ~p.lasym => p.zbc = {} /\ ~p.complement
  BY <1>1 DEF SymmetryErrors
<1> QED
  BY <1>2, <1>3, <1>4, <1>5, <1>6, <1>7

(* Sets of harmonics of one kind have none or one.                           *)
LEMMA KindsCounted ==
  ASSUME NEW S, S \subseteq {"inside"}
  PROVE  Cardinality(S) \in Nat /\ (S # {} => Cardinality(S) # 0)
<1>1. CASE S = {}
  BY <1>1, FS_EmptySet
<1>2. CASE S # {}
  <2>1. S = {"inside"}
    BY <1>2
  <2>2. Cardinality({"inside"}) = 1
    BY FS_Singleton
  <2> QED
    BY <2>1, <2>2
<1> QED
  BY <1>1, <1>2

(* What solve() makes of a validated problem, the containers can hold.       *)
LEMMA SolvedShaped ==
  ASSUME NEW p, Validated(p), NEW o, NEW name,
         o.snapshot = [ns |-> p.stages[Len(p.stages)].ns, modes |-> Modes(p),
                       lasym |-> p.lasym, state |-> name, fields |-> "complete"],
         o.params = InputParams(p), o.report = [g \in 1 .. Len(p.stages) |-> g - 1]
  PROVE  ShapedOutcome(o)
<1> DEFINE n == Len(p.stages)
           s == o.snapshot
           q == o.params
<1>1. /\ p \in Problems /\ SymmetryErrors(p) = {} /\ BoundaryErrors(p) = {}
      /\ p.stages # <<>> /\ p.lasym \in BOOLEAN
      /\ \A g \in DOMAIN p.stages : p.stages[g].ns >= MinSurfaces
      /\ p.rbc # {} /\ p.zbs \cup p.zbc # {} /\ (~p.lasym => p.zbc = {})
  BY ValidatedSolvable DEF Validated, SpecErrors
<1>2. /\ p.stages \in Seq(Stage) /\ p.modes \in [mpol : 2 .. 16, ntor : 0 .. 15]
      /\ p.rbc \subseteq {"inside"} /\ p.zbs \subseteq {"inside"}
      /\ p.zbc \subseteq {"inside"}
  BY <1>1 DEF Problems
<1>3. n \in Nat \ {0} /\ DOMAIN p.stages = 1 .. n
  BY <1>1, <1>2
<1>4. p.modes.mpol \in 2 .. 16 /\ p.modes.ntor \in 0 .. 15
  BY <1>2
<1>5. s.ns \in Nat \ {0} /\ s.ns >= 2
  <2>1. n \in DOMAIN p.stages
    BY <1>3
  <2>2. p.stages[n] \in Stage
    BY <1>2, <2>1
  <2>3. p.stages[n].ns \in Nat /\ p.stages[n].ns >= 3
    BY <1>1, <2>1, <2>2 DEF Stage, MinSurfaces
  <2> QED
    BY <2>3
<1>6. s.modes \in Nat \ {0}
  <2>1. s.modes = p.modes.mpol * (p.modes.ntor + 1)
    BY DEF Modes
  <2>2. \A a \in 2 .. 16, b \in 0 .. 15 : a * (b + 1) \in Nat \ {0}
    <3> SUFFICES ASSUME NEW a \in 2 .. 16, NEW b \in 0 .. 15
                 PROVE  a * (b + 1) \in Nat \ {0}
      OBVIOUS
    <3>1. a * (b + 1) = a * b + a /\ a * b \in Nat
      OBVIOUS
    <3> QED
      BY <3>1
  <2> QED
    BY <1>4, <2>1, <2>2
<1>7. s.lasym = p.lasym /\ s.fields = "complete"
  OBVIOUS
<1>8. StateOk(s)
  BY <1>1, <1>5, <1>6, <1>7 DEF StateOk
<1>9. q = InputParams(p)
  OBVIOUS
<1>10. /\ q.lasym = p.lasym /\ q.stages = n /\ q.embedded \in BOOLEAN
       /\ q.harmonics.rbc = Cardinality(p.rbc) /\ q.harmonics.zbs = Cardinality(p.zbs)
       /\ q.harmonics.zbc = Cardinality(p.zbc) /\ q.harmonics.rbs \in Nat
       /\ q.lengths.profiles \in Nat /\ q.lengths.extcur \in Nat
       /\ q.lengths.axis = p.modes.ntor + 1
  BY <1>9 DEF InputParams
<1> HIDE DEF q
<1>11. \A v \in Vectors : q.lengths[v] \in Nat
  <2>1. p.modes.ntor + 1 \in Nat
    BY <1>4
  <2>2. q.lengths["axis"] \in Nat
    BY <1>10, <2>1
  <2>3. q.lengths["profiles"] \in Nat /\ q.lengths["extcur"] \in Nat
    BY <1>10
  <2> QED
    BY <2>2, <2>3 DEF Vectors
<1>12. \A x \in {"rbc", "zbs", "rbs", "zbc"} : q.harmonics[x] \in Nat
  BY <1>2, <1>10, KindsCounted
<1>13. q.harmonics["rbc"] # 0 /\ (~s.lasym => q.harmonics["zbs"] # 0)
  <2>1. ~s.lasym => p.zbs # {}
    BY <1>1, <1>7
  <2> QED
    BY <1>1, <1>2, <1>10, <2>1, KindsCounted
<1>14. o.report \in Seq(Nat) /\ o.report # <<>>
  <2>1. \A g \in 1 .. n : g - 1 \in Nat
    BY <1>3
  <2>2. o.report = [g \in 1 .. n |-> g - 1] /\ n \in Nat \ {0}
    BY <1>3
  <2> HIDE DEF n
  <2>3. o.report \in Seq(Nat) /\ Len(o.report) = n
    BY <2>1, <2>2
  <2> QED
    BY <2>2, <2>3
<1> HIDE DEF s
<1>15. Shaped(s, q, o.report)
  BY <1>3, <1>7, <1>8, <1>10, <1>11, <1>12, <1>13, <1>14 DEF Shaped
<1> QED
  BY <1>5, <1>14, <1>15 DEF ShapedOutcome, s, q

(* What a run holds of the problem it has read.                              *)
LEMMA InputHeld ==
  ASSUME ControlInv, InputInv,
         pc \in {"restart", "solve", "native", "checkpoint", "boozer"}
  PROVE  /\ consumed.form = "object" /\ (consumed.unknown => options.compatibility)
         /\ Says(consumed, problem) /\ Validated(problem)
<1>1. options.compatibility \in BOOLEAN
  BY DEF ControlInv, Options
<1>2. /\ consumed \in Documents
      /\ ReadAndValidate(consumed, ~options.compatibility).ok
      /\ problem = ReadAndValidate(consumed, ~options.compatibility).problem
  BY DEF InputInv
<1>3. (~options.compatibility) \in BOOLEAN
  BY <1>1
<1> DEFINE r == ReadAndValidate(consumed, ~options.compatibility)
<1> HIDE DEF r
<1>4. consumed.form = "object" /\ (consumed.unknown => ~~options.compatibility)
  BY <1>2, <1>3, ProblemsRead DEF r
<1>5. Says(consumed, r.problem) /\ Validated(r.problem)
  BY <1>2, <1>3, ProblemsRead DEF r
<1> QED
  BY <1>1, <1>2, <1>4, <1>5 DEF r

LEMMA InitRunInv ==
  ASSUME Init
  PROVE  RunInv
<1>1. PICK first \in FirstJobs : /\ options = first.options
                                 /\ document = first.document
                                 /\ checkpoint = first.file
  BY DEF Init
<1>2. /\ pc = "options" /\ native = [file |-> NoFile, hash |-> NoDocument]
  BY DEF Init
<1>3. ControlInv
  BY <1>1, <1>2, JobsAssumption DEF ControlInv
<1>4. FileInv
  <2>1. CASE Foreign(first.file)
    BY <1>1, <2>1 DEF FileInv
  <2>2. CASE /\ Released(first.file)
             /\ first.file.fields = CheckpointFile(first.file.of.snapshot,
                                       first.file.of.params, first.file.layout)
    BY <1>1, <2>2, ReleasedIsStored DEF FileInv
  <2> QED
    BY <2>1, <2>2, JobsAssumption
<1>5. NativeInv
  BY <1>2 DEF NativeInv, NoFile
<1> QED
  BY <1>2, <1>3, <1>4, <1>5
     DEF RunInv, InputInv, OutcomeInv, SeedInv, RestartSeedsPublished, Solved

LEMMA CheckOptionsKeeps ==
  ASSUME RunInv, CheckOptions
  PROVE  RunInv'
<1>1. /\ pc = "options" /\ pc' \in {"exited", "hash"}
      /\ pc' = "hash" => ~OptionsInvalid(options)
      /\ UNCHANGED <<request, document, input, seed, outcome, files, outputOk>>
  <2>1. CASE OptionsInvalid(options)
    BY <2>1 DEF CheckOptions, Exit
  <2>2. CASE ~OptionsInvalid(options) /\ OutputUnavailable(options)
    BY <2>2 DEF CheckOptions, Exit
  <2>3. CASE ~OptionsInvalid(options) /\ ~OutputUnavailable(options)
    BY <2>3 DEF CheckOptions
  <2> QED
    BY <2>1, <2>2, <2>3
<1>2. pc' = "hash" => (options.newton => DoubleBuild)
  BY <1>1 DEF OptionsInvalid
<1>3. options' = options /\ document' = document /\ native' = native
      /\ checkpoint' = checkpoint
  BY <1>1 DEF request, files
<1>4. ControlInv'
  BY <1>1, <1>2, <1>3 DEF RunInv, ControlInv
<1>5. FileInv'
  BY <1>3 DEF RunInv, FileInv, StoredFile, Released, Foreign
<1>6. NativeInv'
  BY <1>3 DEF RunInv, NativeInv, WrittenBinary
<1> QED
  BY <1>1, <1>4, <1>5, <1>6
     DEF RunInv, InputInv, OutcomeInv, SeedInv, RestartSeedsPublished, Solved

LEMMA HashInputKeeps ==
  ASSUME RunInv, HashInput
  PROVE  RunInv'
<1>1. /\ pc = "hash" /\ pc' = "parse"
      /\ options' = options /\ document' = document
      /\ native' = native /\ checkpoint' = checkpoint
  BY DEF HashInput, request, files
<1>2. ControlInv'
  BY <1>1 DEF RunInv, ControlInv
<1>3. FileInv'
  BY <1>1 DEF RunInv, FileInv, StoredFile, Released, Foreign
<1>4. NativeInv'
  BY <1>1 DEF RunInv, NativeInv, WrittenBinary
<1> QED
  BY <1>1, <1>2, <1>3, <1>4
     DEF RunInv, InputInv, OutcomeInv, SeedInv, RestartSeedsPublished, Solved

LEMMA ParseInputKeeps ==
  ASSUME RunInv, ParseInput
  PROVE  RunInv'
<1> DEFINE r == ReadAndValidate(document, ~options.compatibility)
<1>1. /\ pc = "parse" /\ consumed' = document
      /\ options' = options /\ document' = document /\ seed' = seed
      /\ native' = native /\ checkpoint' = checkpoint
  BY DEF ParseInput, request, files
<1>2. \/ pc' = "exited"
      \/ /\ pc' = IF options.restart THEN "restart" ELSE "solve"
         /\ r.ok /\ problem' = r.problem
         /\ ~(options.newton /\ ~NewtonFits(r.problem))
  <2> HIDE DEF r
  <2>1. CASE ~r.ok
    BY <2>1 DEF ParseInput, Exit, r
  <2>2. CASE r.ok /\ options.newton /\ ~NewtonFits(r.problem)
    BY <2>2 DEF ParseInput, Exit, r
  <2>3. CASE r.ok /\ ~(options.newton /\ ~NewtonFits(r.problem))
    <3>1. /\ pc' = IF options.restart THEN "restart" ELSE "solve"
          /\ problem' = r.problem
      BY <2>3 DEF ParseInput, r
    <3> QED
      BY <2>3, <3>1
  <2> QED
    BY <2>1, <2>2, <2>3
<1> HIDE DEF r
<1>3. pc' \in {"exited", "restart", "solve"}
  BY <1>2
<1>4. ControlInv'
  BY <1>1, <1>3 DEF RunInv, ControlInv
<1>5. InputInv'
  <2>1. ASSUME pc' # "exited"
        PROVE  /\ consumed' \in Documents
               /\ ReadAndValidate(consumed', ~options'.compatibility).ok
               /\ problem' = ReadAndValidate(consumed', ~options'.compatibility).problem
               /\ options'.newton => NewtonFits(problem')
    <3>1. document \in Documents
      BY DEF RunInv, ControlInv
    <3> QED
      BY <1>1, <1>2, <2>1, <3>1 DEF r
  <2> QED
    BY <1>3, <2>1 DEF InputInv, Solved, NewtonFits
<1>6. FileInv'
  BY <1>1 DEF RunInv, FileInv, StoredFile, Released, Foreign
<1>7. SeedInv'
  BY <1>1, <1>2 DEF SeedInv
<1>8. NativeInv'
  BY <1>1 DEF RunInv, NativeInv, WrittenBinary
<1> QED
  BY <1>3, <1>4, <1>5, <1>6, <1>7, <1>8
     DEF RunInv, OutcomeInv, RestartSeedsPublished, Solved

(* What is accepted from the checkpoint path is the state of one file.       *)
LEMMA AcceptedState ==
  ASSUME FileInv, ReadCheckpoint(checkpoint.fields, FALSE).ok
  PROVE  /\ checkpoint.of.snapshot.lasym \in BOOLEAN
         /\ StateIs(ReadCheckpoint(checkpoint.fields, FALSE), checkpoint.of.snapshot)
<1> DEFINE file == checkpoint.fields
           s == checkpoint.of.snapshot
           r == ReadCheckpoint(file, FALSE)
<1>1. CheckpointReads(checkpoint)
  BY StoredReads, ForeignReads DEF FileInv
<1>2. StateIs(r, s)
  BY <1>1 DEF CheckpointReads
<1>3. Released(checkpoint)
  <2>1. CASE StoredFile(checkpoint)
    BY <2>1 DEF StoredFile
  <2>2. CASE Foreign(checkpoint)
    <3>1. Len(checkpoint.fields) \in Nat
      BY <2>2 DEF Foreign
    <3>2. /\ checkpoint.fields # <<>> /\ checkpoint.fields[1].type = "magic"
          /\ checkpoint.fields[1].value = "CUMECKP1"
      BY <3>1, ForeignRefused
    <3> QED
      BY <2>2, <3>2 DEF Foreign
  <2> QED
    BY <2>1, <2>2 DEF FileInv
<1> QED
  BY <1>2, <1>3 DEF Released

LEMMA ReadRestartKeeps ==
  ASSUME RunInv, ReadRestart
  PROVE  RunInv'
<1> DEFINE r == ReadCheckpoint(checkpoint.fields, FALSE)
           s == checkpoint.of.snapshot
<1>1. /\ pc = "restart" /\ pc' \in {"solve", "exited"}
      /\ options' = options /\ document' = document
      /\ hashed' = hashed /\ consumed' = consumed /\ problem' = problem
      /\ native' = native /\ checkpoint' = checkpoint
  BY DEF ReadRestart, Exit, request, input, files
<1>2. pc' = "solve" =>
        /\ r.ok /\ MatchesFirstGrid(r.got["ns"], r.got["modes"])
        /\ seed' = [from |-> "checkpoint", ns |-> r.got["ns"],
                    modes |-> r.got["modes"], families |-> r.got["families"]]
  BY DEF ReadRestart, Exit
<1>3. ControlInv'
  BY <1>1 DEF RunInv, ControlInv
<1>4. InputInv'
  BY <1>1 DEF RunInv, InputInv, Solved, NewtonFits
<1>5. FileInv'
  BY <1>1 DEF RunInv, FileInv, StoredFile, Released, Foreign
<1>6. SeedInv'
  <2>1. ASSUME pc' = "solve"
        PROVE  /\ s.lasym \in BOOLEAN /\ MatchesFirstGrid(s.ns, s.modes)
               /\ seed' = [from |-> "checkpoint", ns |-> s.ns, modes |-> s.modes,
                    families |-> [c \in 1 .. Components(s.lasym) |-> <<s.state, c>>]]
    <3>1. s.lasym \in BOOLEAN /\ StateIs(r, s)
      BY <1>2, <2>1, AcceptedState DEF RunInv
    <3> HIDE DEF r, s
    <3>2. /\ r.got["ns"] = s.ns /\ r.got["modes"] = s.modes
          /\ r.got["families"] = [c \in 1 .. Components(s.lasym) |-> <<s.state, c>>]
      BY <3>1 DEF StateIs
    <3> QED
      BY <1>2, <2>1, <3>1, <3>2
  <2> HIDE DEF s
  <2>2. MatchesFirstGrid(s.ns, s.modes) => MatchesFirstGrid(s.ns, s.modes)'
    BY <1>1 DEF MatchesFirstGrid, FirstStage, s
  <2> QED
    BY <1>1, <2>1, <2>2 DEF SeedInv, s
<1>7. NativeInv'
  BY <1>1 DEF RunInv, NativeInv, WrittenBinary
<1> QED
  BY <1>1, <1>3, <1>4, <1>5, <1>6, <1>7
     DEF RunInv, OutcomeInv, RestartSeedsPublished, Solved

LEMMA SolveKeeps ==
  ASSUME RunInv, Solve
  PROVE  RunInv'
<1>1. /\ pc = "solve" /\ pc' \in {"native", "exited"}
      /\ options' = options /\ document' = document
      /\ hashed' = hashed /\ consumed' = consumed /\ problem' = problem
      /\ native' = native /\ checkpoint' = checkpoint
  BY DEF Solve, Exit, request, input, files
<1>2. pc' = "native" =>
        /\ ~FacadeRefuses /\ seed' = Seeded
        /\ outcome'.snapshot = [ns |-> problem.stages[Len(problem.stages)].ns,
                                modes |-> Modes(problem), lasym |-> problem.lasym,
                                state |-> Name(job), fields |-> "complete"]
        /\ outcome'.params = InputParams(problem)
        /\ outcome'.report = [g \in 1 .. Len(problem.stages) |-> g - 1]
  BY DEF Solve, Exit, Grids
<1>3. ControlInv'
  BY <1>1 DEF RunInv, ControlInv
<1>4. InputInv'
  <2>1. pc' = "native" => (options.newton => ~problem.lasym)
    BY <1>2 DEF FacadeRefuses
  <2> QED
    BY <1>1, <2>1 DEF RunInv, InputInv, Solved, NewtonFits
<1>5. FileInv'
  BY <1>1 DEF RunInv, FileInv, StoredFile, Released, Foreign
<1>6. OutcomeInv'
  <2>1. CASE pc' = "native"
    <3>1. Validated(problem)
      BY <1>1, InputHeld DEF RunInv
    <3> DEFINE o == outcome'
    <3>2. /\ o.snapshot = [ns |-> problem.stages[Len(problem.stages)].ns,
                           modes |-> Modes(problem), lasym |-> problem.lasym,
                           state |-> Name(job), fields |-> "complete"]
          /\ o.params = InputParams(problem)
          /\ o.report = [g \in 1 .. Len(problem.stages) |-> g - 1]
      BY <1>2, <2>1
    <3> HIDE DEF o
    <3>3. ShapedOutcome(o)
      BY <3>1, <3>2, SolvedShaped
    <3> QED
      BY <3>3 DEF o, OutcomeInv, ShapedOutcome
  <2>2. CASE pc' = "exited"
    BY <2>2 DEF OutcomeInv, Solved
  <2> QED
    BY <1>1, <2>1, <2>2
<1>7. RestartSeedsPublished'
  <2>1. SUFFICES ASSUME pc' = "native", options.restart
                 PROVE  /\ seed'.from = "checkpoint"
                        /\ seed'.boundary = (IF problem.free THEN "checkpoint"
                                                             ELSE "input")
                        /\ LET s == checkpoint.of.snapshot
                           IN  /\ s.ns = FirstStage.ns /\ s.lasym = problem.lasym
                               /\ seed'.families =
                                    [c \in 1 .. Components(problem.lasym) |-> <<s.state, c>>]
    BY <1>1 DEF RestartSeedsPublished, Solved, FirstStage
  <2> DEFINE s == checkpoint.of.snapshot
             own == [boundary |-> IF problem.free THEN "checkpoint" ELSE "input"]
  <2>2. /\ s.lasym \in BOOLEAN /\ MatchesFirstGrid(s.ns, s.modes)
        /\ seed = [from |-> "checkpoint", ns |-> s.ns, modes |-> s.modes,
                   families |-> [c \in 1 .. Components(s.lasym) |-> <<s.state, c>>]]
    BY <1>1, <2>1 DEF RunInv, SeedInv
  <2>3. seed' = Over(seed, own)
    BY <1>2, <2>1, <2>2 DEF Seeded
  <2> HIDE DEF s
  <2>4. /\ "from" \in DOMAIN seed /\ "families" \in DOMAIN seed
        /\ "boundary" \in DOMAIN own \ DOMAIN seed
    BY <2>2
  <2>5. /\ \A x \in DOMAIN seed : Over(seed, own)[x] = seed[x]
        /\ \A x \in DOMAIN own \ DOMAIN seed : Over(seed, own)[x] = own[x]
    BY Overlaid
  <2>6. seed'.from = "checkpoint" /\ seed'.families = seed.families
    BY <2>2, <2>3, <2>4, <2>5
  <2>7. seed'.boundary = (IF problem.free THEN "checkpoint" ELSE "input")
    BY <2>3, <2>4, <2>5
  <2>8. s.lasym = problem.lasym
    <3>1. Len(seed.families) = Components(problem.lasym)
      BY <1>2, <2>1, <2>2 DEF FacadeRefuses
    <3>2. Components(s.lasym) \in Nat
      BY DEF Components
    <3>3. Len(seed.families) = Components(s.lasym)
      BY <2>2, <3>2
    <3>4. problem.lasym \in BOOLEAN
      <4>1. Validated(problem)
        BY <1>1, InputHeld DEF RunInv
      <4> QED
        BY <4>1, ValidatedSolvable
    <3> QED
      BY <2>2, <3>1, <3>3, <3>4 DEF Components
  <2>9. s.ns = FirstStage.ns
    BY <2>2 DEF MatchesFirstGrid
  <2> QED
    BY <2>2, <2>6, <2>7, <2>8, <2>9 DEF s
<1>8. NativeInv'
  BY <1>1 DEF RunInv, NativeInv, WrittenBinary
<1> QED
  BY <1>1, <1>3, <1>4, <1>5, <1>6, <1>7, <1>8 DEF RunInv, SeedInv

LEMMA WriteNativeKeeps ==
  ASSUME RunInv, WriteNative
  PROVE  RunInv'
<1>1. /\ pc = "native" /\ pc' = "checkpoint"
      /\ options' = options /\ document' = document /\ seed' = seed
      /\ hashed' = hashed /\ consumed' = consumed /\ problem' = problem
      /\ outcome' = outcome /\ checkpoint' = checkpoint
      /\ native' = native \/ native' = [file |-> NativeFile, hash |-> hashed]
  BY DEF WriteNative, request, input
<1>2. ControlInv'
  BY <1>1 DEF RunInv, ControlInv
<1>3. InputInv'
  BY <1>1 DEF RunInv, InputInv, Solved, NewtonFits
<1>4. FileInv'
  BY <1>1 DEF RunInv, FileInv, StoredFile, Released, Foreign
<1>5. OutcomeInv'
  BY <1>1 DEF RunInv, OutcomeInv, ShapedOutcome, Solved
<1>6. RestartSeedsPublished'
  BY <1>1 DEF RunInv, RestartSeedsPublished, Solved
<1>7. NativeInv'
  <2>1. CASE native' = native
    BY <2>1 DEF RunInv, NativeInv, WrittenBinary
  <2>2. CASE native' = [file |-> NativeFile, hash |-> hashed]
    <3>1. ShapedOutcome(outcome)
      BY <1>1 DEF RunInv, OutcomeInv, Solved
    <3>2. NativeFile.fields = <<>> \/ WrittenBinary(NativeFile)
      BY <3>1, WrittenNative
    <3>3. native'.file = NativeFile
      BY <2>2
    <3> QED
      BY <3>2, <3>3 DEF NativeInv, WrittenBinary
  <2> QED
    BY <1>1, <2>1, <2>2
<1> QED
  BY <1>1, <1>2, <1>3, <1>4, <1>5, <1>6, <1>7 DEF RunInv, SeedInv

LEMMA WriteCheckpointKeeps ==
  ASSUME RunInv, WriteCheckpoint
  PROVE  RunInv'
<1>1. /\ pc = "checkpoint" /\ pc' = "boozer"
      /\ options' = options /\ document' = document /\ seed' = seed
      /\ hashed' = hashed /\ consumed' = consumed /\ problem' = problem
      /\ outcome' = outcome /\ native' = native
      /\ checkpoint' = checkpoint \/ checkpoint' = CheckpointOf(outcome)
  BY DEF WriteCheckpoint, request, input
<1>2. ControlInv'
  BY <1>1 DEF RunInv, ControlInv
<1>3. InputInv'
  BY <1>1 DEF RunInv, InputInv, Solved, NewtonFits
<1>4. FileInv'
  <2>1. CASE checkpoint' = checkpoint
    BY <2>1 DEF RunInv, FileInv, StoredFile, Released, Foreign
  <2>2. CASE checkpoint' = CheckpointOf(outcome)
    <3>1. ShapedOutcome(outcome)
      BY <1>1 DEF RunInv, OutcomeInv, Solved
    <3>2. StoredFile(CheckpointOf(outcome))
      BY <3>1, WrittenCheckpoint
    <3>3. StoredFile(checkpoint')
      BY <2>2, <3>2
    <3> QED
      BY <3>3 DEF FileInv, StoredFile, Released
  <2> QED
    BY <1>1, <2>1, <2>2
<1>5. OutcomeInv'
  BY <1>1 DEF RunInv, OutcomeInv, ShapedOutcome, Solved
<1>6. RestartSeedsPublished'
  BY <1>1 DEF RunInv, RestartSeedsPublished, Solved
<1>7. NativeInv'
  BY <1>1 DEF RunInv, NativeInv, WrittenBinary
<1> QED
  BY <1>1, <1>2, <1>3, <1>4, <1>5, <1>6, <1>7 DEF RunInv, SeedInv

LEMMA FinishKeeps ==
  ASSUME RunInv, Finish
  PROVE  RunInv'
<1>1. /\ pc = "boozer" /\ pc' = "exited"
      /\ options' = options /\ document' = document
      /\ native' = native /\ checkpoint' = checkpoint
  BY DEF Finish, Exit, request, files
<1>2. ControlInv'
  BY <1>1 DEF RunInv, ControlInv
<1>3. FileInv'
  BY <1>1 DEF RunInv, FileInv, StoredFile, Released, Foreign
<1>4. NativeInv'
  BY <1>1 DEF RunInv, NativeInv, WrittenBinary
<1> QED
  BY <1>1, <1>2, <1>3, <1>4
     DEF RunInv, InputInv, OutcomeInv, SeedInv, RestartSeedsPublished, Solved

LEMMA NextJobKeeps ==
  ASSUME RunInv, NextJob
  PROVE  RunInv'
<1>1. /\ pc' = "options" /\ checkpoint' = checkpoint
      /\ native' = [file |-> NoFile, hash |-> NoDocument]
      /\ \E later \in LaterJobs : document' = later.document /\ options' = later.options
  BY DEF NextJob
<1>2. ControlInv'
  BY <1>1, JobsAssumption DEF ControlInv
<1>3. FileInv'
  BY <1>1 DEF RunInv, FileInv, StoredFile, Released, Foreign
<1>4. NativeInv'
  BY <1>1 DEF NativeInv, NoFile
<1> QED
  BY <1>1, <1>2, <1>3, <1>4
     DEF RunInv, InputInv, OutcomeInv, SeedInv, RestartSeedsPublished, Solved

LEMMA ReplaceInputKeeps ==
  ASSUME RunInv, ReplaceInput
  PROVE  RunInv'
<1>1. /\ pc = "parse" /\ pc' = "parse" /\ document' \in Documents
      /\ options' = options /\ seed' = seed
      /\ hashed' = hashed /\ consumed' = consumed /\ problem' = problem
      /\ outcome' = outcome /\ native' = native /\ checkpoint' = checkpoint
  BY JobsAssumption DEF ReplaceInput, request, input, files
<1>2. ControlInv'
  BY <1>1 DEF RunInv, ControlInv
<1>3. InputInv'
  BY <1>1 DEF RunInv, InputInv, Solved, NewtonFits
<1>4. FileInv'
  BY <1>1 DEF RunInv, FileInv, StoredFile, Released, Foreign
<1>5. OutcomeInv'
  BY <1>1 DEF RunInv, OutcomeInv, ShapedOutcome, Solved
<1>6. RestartSeedsPublished'
  BY <1>1 DEF RunInv, RestartSeedsPublished, Solved, FirstStage
<1>7. NativeInv'
  BY <1>1 DEF RunInv, NativeInv, WrittenBinary
<1> QED
  BY <1>1, <1>2, <1>3, <1>4, <1>5, <1>6, <1>7 DEF RunInv, SeedInv

LEMMA InterruptCopyKeeps ==
  ASSUME RunInv, InterruptCopy
  PROVE  RunInv'
<1>1. /\ pc = "restart" /\ pc' = "restart" /\ document' = document
      /\ options' = options /\ seed' = seed
      /\ hashed' = hashed /\ consumed' = consumed /\ problem' = problem
      /\ outcome' = outcome /\ native' = native
  BY DEF InterruptCopy, request, input
<1>2. PICK n \in 0 .. Len(checkpoint.fields) - 1 :
        checkpoint' = [checkpoint EXCEPT !.fields = SubSeq(@, 1, n)]
  BY DEF InterruptCopy
<1>3. ControlInv'
  BY <1>1 DEF RunInv, ControlInv
<1>4. InputInv'
  BY <1>1 DEF RunInv, InputInv, Solved, NewtonFits
<1>5. FileInv'
  <2>1. StoredFile(checkpoint) \/ Foreign(checkpoint)
    BY DEF RunInv, FileInv
  <2>2. StoredFile(checkpoint') \/ Foreign(checkpoint')
    BY <1>2, <2>1, InterruptedIsStored
  <2> QED
    BY <2>2 DEF FileInv, StoredFile, Foreign
<1>6. NativeInv'
  BY <1>1 DEF RunInv, NativeInv, WrittenBinary
<1> QED
  BY <1>1, <1>3, <1>4, <1>5, <1>6
     DEF RunInv, OutcomeInv, SeedInv, RestartSeedsPublished, Solved

LEMMA StutterKeeps ==
  ASSUME RunInv, UNCHANGED vars
  PROVE  RunInv'
<1>1. /\ pc' = pc /\ options' = options /\ document' = document /\ seed' = seed
      /\ hashed' = hashed /\ consumed' = consumed /\ problem' = problem
      /\ outcome' = outcome /\ native' = native /\ checkpoint' = checkpoint
  BY DEF vars, request, input, files
<1>2. FileInv'
  BY <1>1 DEF RunInv, FileInv, StoredFile, Released, Foreign
<1>3. NativeInv'
  BY <1>1 DEF RunInv, NativeInv, WrittenBinary
<1> QED
  BY <1>1, <1>2, <1>3
     DEF RunInv, ControlInv, InputInv, NewtonFits, OutcomeInv, ShapedOutcome,
         SeedInv, RestartSeedsPublished, MatchesFirstGrid, FirstStage, Solved

(* The inductive invariant of a sequence of jobs: the problem is the one     *)
(* validated from the document consumed, the checkpoint path holds what a    *)
(* writer put there as far as the copy of it got or something no reader      *)
(* takes for a checkpoint, the result is one the containers can hold and the *)
(* native binary is what the writer made of such a result, and a restart     *)
(* holds the state of the file from the moment it was read.                  *)
THEOREM JobsInv == Spec => []RunInv
<1>1. Init => RunInv
  BY InitRunInv
<1>2. RunInv /\ [Next]_vars => RunInv'
  <2> SUFFICES ASSUME RunInv, [Next]_vars
               PROVE  RunInv'
    OBVIOUS
  <2>1. CASE CheckOptions
    BY <2>1, CheckOptionsKeeps
  <2>2. CASE HashInput
    BY <2>2, HashInputKeeps
  <2>3. CASE ParseInput
    BY <2>3, ParseInputKeeps
  <2>4. CASE ReadRestart
    BY <2>4, ReadRestartKeeps
  <2>5. CASE Solve
    BY <2>5, SolveKeeps
  <2>6. CASE WriteNative
    BY <2>6, WriteNativeKeeps
  <2>7. CASE WriteCheckpoint
    BY <2>7, WriteCheckpointKeeps
  <2>8. CASE Finish
    BY <2>8, FinishKeeps
  <2>9. CASE NextJob
    BY <2>9, NextJobKeeps
  <2>10. CASE ReplaceInput
    BY <2>10, ReplaceInputKeeps
  <2>11. CASE InterruptCopy
    BY <2>11, InterruptCopyKeeps
  <2>12. CASE UNCHANGED vars
    BY <2>12, StutterKeeps
  <2> QED
    BY <2>1, <2>2, <2>3, <2>4, <2>5, <2>6, <2>7, <2>8, <2>9, <2>10, <2>11, <2>12
       DEF Next
<1> QED
  BY <1>1, <1>2, PTL DEF Spec

(* Whatever the documents, the options and the moments at which the input is *)
(* replaced: a problem that main() has solved says what the document said    *)
(* that it was read from, and is one the solver can be given.                *)
THEOREM SolvedIsWritten == Spec => []SolvedAsWritten
<1>1. RunInv => SolvedAsWritten
  <2> SUFFICES ASSUME RunInv, Solved
               PROVE  SolvedAsWritten
    BY DEF SolvedAsWritten
  <2>1. /\ consumed.form = "object" /\ (consumed.unknown => options.compatibility)
        /\ Says(consumed, problem) /\ Validated(problem)
    BY InputHeld DEF RunInv, Solved
  <2>2. /\ options.newton => NewtonFits(problem)
        /\ options.newton => ~problem.lasym
        /\ options.newton => DoubleBuild
    BY DEF RunInv, InputInv, ControlInv, Solved
  <2>3. Solvable(problem)
    BY <2>1, <2>2, ValidatedSolvable DEF Solvable, NewtonFits
  <2> QED
    BY <2>1, <2>3 DEF SolvedAsWritten, Says, StagesAsWritten, Grids
<1> QED
  BY <1>1, JobsInv, PTL

(* The problem that was solved, written as an input by problem_spec_to_json  *)
(* and read strictly, is the same problem, for every document there is.      *)
THEOREM WrittenSpecIsTheProblem == Spec => []WrittenSpecReadsBack
<1>1. RunInv => WrittenSpecReadsBack
  <2> SUFFICES ASSUME RunInv, pc = "native"
               PROVE  LET r == ReadAndValidate(WrittenSpec(problem), TRUE)
                      IN  r.ok /\ r.problem = problem
    BY DEF WrittenSpecReadsBack
  <2>1. Validated(problem)
    BY InputHeld DEF RunInv
  <2> QED
    BY <2>1, ReadsBack
<1> QED
  BY <1>1, JobsInv, PTL

(* A run with --restart starts from the state of one published file of its   *)
(* own grid and symmetry, however often copies of it were interrupted and    *)
(* whatever the release that wrote it.                                       *)
THEOREM RestartsFromOneFile == Spec => []RestartSeedsPublished
<1>1. RunInv => RestartSeedsPublished
  BY DEF RunInv
<1> QED
  BY <1>1, JobsInv, PTL

(* The state that read_checkpoint() accepts from the checkpoint path is the  *)
(* state its writer was given, at any time and in every layout.              *)
THEOREM CheckpointReadsItsState ==
  Spec => [](ReadCheckpoint(checkpoint.fields, FALSE).ok =>
               StateIs(ReadCheckpoint(checkpoint.fields, FALSE), checkpoint.of.snapshot))
<1>1. RunInv => (ReadCheckpoint(checkpoint.fields, FALSE).ok =>
               StateIs(ReadCheckpoint(checkpoint.fields, FALSE), checkpoint.of.snapshot))
  BY AcceptedState DEF RunInv
<1> QED
  BY <1>1, JobsInv, PTL

(* A binary result of any release, and no result at all.                     *)
LEMMA WrittenReads ==
  ASSUME NEW f, f.fields = <<>> \/ WrittenBinary(f)
  PROVE  BinaryReads(f)
<1> SUFFICES ASSUME NEW asked \in BOOLEAN
             PROVE  LET r == ReadBinary(f.fields, asked)
                    IN  /\ r.ok => /\ StateIs(r, f.of.snapshot)
                                   /\ asked => /\ ReportIs(r, f.of.report)
                                               /\ RecordIs(r, f.of.params, f.layout)
                        /\ Len(f.fields) > 0 /\ ~(asked /\ f.layout.version = 9) => r.ok
  BY DEF BinaryReads
<1>1. CASE f.fields = <<>>
  <2>1. ~ReadBinary(<<>>, asked).ok
    BY EmptyRefused
  <2>2. ~(Len(<<>>) > 0)
    OBVIOUS
  <2> QED
    BY <1>1, <2>1, <2>2
<1>2. CASE WrittenBinary(f)
  <2> DEFINE s == f.of.snapshot
             p == f.of.params
             report == f.of.report
             layout == f.layout
  <2>1. /\ BinaryWritten(s, p, report, layout)
        /\ f.fields = BinaryFile(s, p, report, layout)
    BY <1>2 DEF WrittenBinary
  <2> HIDE DEF s, p, report, layout
  <2>2. LET r == ReadBinary(BinaryFile(s, p, report, layout), asked)
        IN  /\ r.ok => /\ StateIs(r, s)
                       /\ asked => ReportIs(r, report) /\ RecordIs(r, p, layout)
            /\ ~(asked /\ layout.version = 9) => r.ok
    BY <2>1, BinaryIsRead
  <2>3. LET r == ReadBinary(f.fields, asked)
        IN  /\ r.ok => /\ StateIs(r, s)
                       /\ asked => ReportIs(r, report) /\ RecordIs(r, p, layout)
            /\ ~(asked /\ layout.version = 9) => r.ok
    BY <2>1, <2>2
  <2> QED
    BY <2>3 DEF s, p, report, layout
<1> QED
  BY <1>1, <1>2

(* The result of this run, had an earlier release written it.                *)
LEMMA LegacyIsRead ==
  ASSUME NEW o, ShapedOutcome(o)
  PROVE  LegacyReads(o)
<1> SUFFICES ASSUME NEW v \in {1, 2, 3, 4, 5, 6, 7, 9}, o.snapshot.lasym => v = 9
             PROVE  BinaryReads(LegacyBinary(o, v))
  <2>1. DOMAIN LegacyBinaries = {1, 2, 3, 4, 5, 6, 7, 9}
    BY DEF LegacyBinaries
  <2> QED
    BY <2>1 DEF LegacyReads
<1> DEFINE layout == LegacyBinaries[v]
           f == LegacyBinary(o, v)
<1>1. /\ f.of = o /\ f.layout = layout
      /\ f.fields = BinaryFile(o.snapshot, o.params, o.report, layout)
  BY DEF LegacyBinary
<1>2. BinaryWellFormed(layout) /\ layout.version = v
  BY LegacyBinaryIs
<1>3. /\ StateOk(o.snapshot) /\ o.snapshot.ns >= 2 /\ o.snapshot.fields = "complete"
      /\ o.params.lasym = o.snapshot.lasym
      /\ o.params.stages \in Nat /\ o.params.embedded \in BOOLEAN
      /\ o.report \in Seq(Nat) /\ o.report # <<>>
  BY DEF ShapedOutcome, Shaped
<1>4. o.snapshot.lasym \in BOOLEAN
  BY <1>3 DEF StateOk
<1> HIDE DEF f, layout
<1>5. /\ o.snapshot.lasym => layout.count
      /\ layout.record = "typed" => (layout.asymmetric <=> o.snapshot.lasym)
  BY <1>2, <1>4 DEF BinaryWellFormed
<1>6. BinaryWritten(o.snapshot, o.params, o.report, layout)
  BY <1>2, <1>3, <1>5 DEF BinaryWritten
<1>7. WrittenBinary(f)
  BY <1>1, <1>6 DEF WrittenBinary
<1>8. BinaryReads(f)
  BY <1>7, WrittenReads
<1> QED
  BY <1>8 DEF f

(* Whatever a reader accepts, of the checkpoint on the path at any time, of  *)
(* the native binary and of the files that this or an earlier release makes  *)
(* of a result in either of the named formats, is what the writer was given; *)
(* and no whole file is refused, but for a checkpoint of version 7, a binary *)
(* of version 9 asked for its report and record, and an asymmetric result in *)
(* a named format asked for them: for every state, number of stages,         *)
(* restarts and modes, and for every place where a copy of the checkpoint    *)
(* was interrupted.                                                          *)
THEOREM WhatIsReadIsWritten == Spec => []ReadIsWritten
<1>1. RunInv => ReadIsWritten
  <2> SUFFICES ASSUME RunInv
               PROVE  ReadIsWritten
    OBVIOUS
  <2>1. CheckpointReads(checkpoint)
    BY StoredReads, ForeignReads DEF RunInv, FileInv
  <2>2. BinaryReads(native.file)
    BY WrittenReads DEF RunInv, NativeInv
  <2>3. ASSUME pc = "native"
        PROVE  NamedReads(outcome) /\ LegacyReads(outcome)
    <3>1. ShapedOutcome(outcome)
      BY <2>3 DEF RunInv, OutcomeInv, Solved
    <3>2. Shaped(outcome.snapshot, outcome.params, outcome.report)
      BY <3>1 DEF ShapedOutcome
    <3> QED
      BY <3>1, <3>2, LegacyIsRead, NamedIsRead
  <2> QED
    BY <2>1, <2>2, <2>3 DEF ReadIsWritten
<1> QED
  BY <1>1, JobsInv, PTL
=============================================================================
