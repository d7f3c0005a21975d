---------------------------- MODULE ProblemInput ----------------------------
(* From the text of an input file to a validated problem: the mapping of the *)
(* JSON document (json_reader.cpp), which replaces what it cannot use by a   *)
(* default and records an error, and validate(), which sees the mapped       *)
(* values only.  A document is a record; keys that the code treats alike     *)
(* share one entry:                                                          *)
(*   form        "object", or "other": no JSON, or no object at the top      *)
(*   scalar      "absent", "text" (a value of the wrong type), "rejected" (a *)
(*               value validate() refuses), "default" (the default, spelt    *)
(*               out) or "accepted" (another)                                *)
(*   ns niter ftol   the stage arrays                                        *)
(*   free        lfreeb; mgrid, coils, file, extcur say which are not empty  *)
(*   embedded    makegrid_parameters: "absent", "partial", "unfit" or "fit"  *)
(*   axis        "absent", "unfit" (not ntor + 1 entries) or "fit"           *)
(*   lasym, complement   the switch, and whether asymmetric keys are there   *)
(*   rbc zbs zbc the harmonics, each "inside", "outside" or "malformed"      *)
(*   flat        ntor = 0 and nzeta = 1;  modes  mpol and ntor               *)
(*   unknown     a key that is neither supported nor knowingly ignored       *)
EXTENDS Integers, Sequences

CONSTANT DoubleBuild     \* Real is double

MinSurfaces == 3
MaxSurfaces == 512

(* Stands for an array element that is no integer, or none that fits an int. *)
Malformed == 2147483647

(* Tolerances: not positive, reachable in double only, or reachable.         *)
ToleranceFloor == IF DoubleBuild THEN 1 ELSE 2

DefaultStage == [ns |-> 11, niter |-> 1000, ftol |-> 1]

Arrays == {"ns", "niter", "ftol"}

StageArray == [kind : {"absent", "text", "array"}, of : Seq(Int)]
Harmonics == SUBSET {"inside", "outside", "malformed"}

Documents ==
  [form : {"object", "other"},
   scalar : {"absent", "text", "rejected", "default", "accepted"},
   ns : StageArray, niter : StageArray, ftol : StageArray,
   free : BOOLEAN, mgrid : BOOLEAN, coils : BOOLEAN, file : BOOLEAN,
   extcur : BOOLEAN, embedded : {"absent", "partial", "unfit", "fit"},
   axis : {"absent", "unfit", "fit"}, lasym : BOOLEAN, complement : BOOLEAN,
   rbc : Harmonics, zbs : Harmonics, zbc : Harmonics,
   flat : BOOLEAN, modes : [mpol : Int, ntor : Int], unknown : BOOLEAN]

Elements(s) == {s[i] : i \in DOMAIN s}

(* read_int_array(), read_double_array(): an array keeps its length.         *)
ReadArray(a) ==
  IF a.kind # "array" THEN <<>>
  ELSE [i \in DOMAIN a.of |-> IF a.of[i] = Malformed THEN 0 ELSE a.of[i]]

ArrayErrors(key, a) ==
  IF a.kind # "array" \/ Malformed \in Elements(a.of) THEN {key} ELSE {}

Least(S) == CHOOSE n \in S : \A k \in S : n <= k

NotNegative(n) == IF n < 0 THEN 0 ELSE n

(* The stage schedule, all three arrays or none; the shortest one decides    *)
(* how many stages there are.                                                *)
MappedStages(doc) ==
  LET given == {k \in Arrays : doc[k].kind # "absent"}
      a == [k \in Arrays |-> ReadArray(doc[k])]
      grids == Least({Len(a[k]) : k \in Arrays})
  IN  CASE given = {} -> <<DefaultStage>>
        [] given # {} /\ given # Arrays -> <<>>
        [] given = Arrays ->
             [g \in 1 .. grids |-> [ns |-> NotNegative(a["ns"][g]),
                                    niter |-> NotNegative(a["niter"][g]),
                                    ftol |-> a["ftol"][g]]]

StageErrors(doc) ==
  LET given == {k \in Arrays : doc[k].kind # "absent"}
      Size(k) == Len(ReadArray(doc[k]))
  IN  CASE given = {} -> {}
        [] given # {} /\ given # Arrays -> {"ns"}
        [] given = Arrays ->
             {k \in {"niter", "ftol"} : Size(k) # Size("ns")}
               \cup UNION {ArrayErrors(k, doc[k]) : k \in Arrays}

(* read_boundary(): a malformed harmonic is left out.                        *)
ReadHarmonics(list) == list \ {"malformed"}

(* read_makegrid_parameters(): a member that is missing or of the wrong type *)
(* keeps its default, with which the grid is not a valid one.                *)
MappedMakegrid(embedded) == IF embedded = "partial" THEN "unfit" ELSE embedded

(* map_problem_spec(): the specification, the errors and the warnings.       *)
MappedSpec(doc) ==
  [scalar |-> IF doc.scalar \in {"absent", "text"} THEN "default" ELSE doc.scalar,
   stages |-> MappedStages(doc),
   free |-> doc.free, mgrid |-> doc.mgrid, coils |-> doc.coils,
   file |-> doc.file, extcur |-> doc.extcur,
   embedded |-> MappedMakegrid(doc.embedded),
   axis |-> doc.axis, hasAxis |-> doc.axis # "absent",
   lasym |-> doc.lasym, complement |-> doc.complement,
   rbc |-> ReadHarmonics(doc.rbc), zbs |-> ReadHarmonics(doc.zbs),
   zbc |-> ReadHarmonics(doc.zbc), flat |-> doc.flat, modes |-> doc.modes]

MappingErrors(doc, strict) ==
  {k \in {"scalar"} : doc.scalar = "text"}
  \cup {k \in {"embedded"} : doc.embedded = "partial"}
  \cup {k \in {"rbc", "zbs", "zbc"} : "malformed" \in doc[k]}
  \cup {k \in {"unknown"} : doc.unknown /\ strict}
  \cup StageErrors(doc)

MappingWarnings(doc, strict) ==
  {k \in {"unknown"} : doc.unknown /\ ~strict}
  \cup {k \in {"embedded"} : doc.file /\ doc.embedded # "absent"}

(* validate(): what a specification is refused for.                          *)
ScheduleErrors(stages) ==
  {k \in {"ns"} :
     \/ stages = <<>>
     \/ \E g \in DOMAIN stages : stages[g].ns \notin MinSurfaces .. MaxSurfaces
     \/ \E g \in DOMAIN stages : g > 1 /\ stages[g].ns <= stages[g - 1].ns}
  \cup {k \in {"niter"} : \E g \in DOMAIN stages : stages[g].niter < 1}
  \cup {k \in {"ftol"} : \E g \in DOMAIN stages : stages[g].ftol < ToleranceFloor}

FreeBoundaryErrors(p) ==
  LET inline == p.coils /\ (p.file \/ p.embedded # "absent")
      parts == p.coils \/ p.file \/ p.embedded # "absent"
  IN  IF ~p.free THEN {}
      ELSE {k \in {"source"} : IF p.mgrid THEN parts ELSE ~inline}
           \cup {k \in {"extcur"} : ~p.extcur}
           \cup {k \in {"embedded"} : p.embedded = "unfit"}

Kept(harmonics) == harmonics \ {"outside"}

ScalarErrors(p) ==
  {k \in {"scalar"} : p.scalar = "rejected"}
  \cup {k \in {"mpol"} : p.modes.mpol \notin 2 .. 16}
  \cup {k \in {"ntor"} : p.modes.ntor \notin 0 .. 15}

SymmetryErrors(p) ==
  {k \in {"axis"} : p.axis = "unfit"}
  \cup {k \in {"lasym"} : ~p.lasym /\ (p.complement \/ p.zbc # {})}

BoundaryErrors(p) ==
  {k \in {"rbc"} : Kept(p.rbc) = {}}
  \cup {k \in {"zbs"} : Kept(p.zbs) = {} /\ Kept(p.zbc) = {}}

SpecErrors(p) ==
  ScalarErrors(p) \cup FreeBoundaryErrors(p) \cup SymmetryErrors(p)
  \cup ScheduleErrors(p.stages) \cup BoundaryErrors(p)

SpecWarnings(p) == {k \in {"rbc", "zbs", "zbc"} : "outside" \in p[k]}

WrittenSpec_DropsStages(p) ==   \* mutant: leaves the schedule to the defaults
  LET Entries(k) == [kind |-> "absent", of |-> <<>>]
  IN  [form |-> "object", scalar |-> p.scalar,
       ns |-> Entries("ns"), niter |-> Entries("niter"), ftol |-> Entries("ftol"),
       free |-> p.free, mgrid |-> p.mgrid, coils |-> p.coils, file |-> p.file,
       extcur |-> p.extcur, embedded |-> p.embedded,
       axis |-> IF p.hasAxis THEN p.axis ELSE "absent",
       lasym |-> p.lasym, complement |-> p.complement,
       rbc |-> p.rbc, zbs |-> p.zbs, zbc |-> IF p.lasym THEN p.zbc ELSE {},
       flat |-> p.flat, modes |-> p.modes, unknown |-> FALSE]

(* problem_spec_to_json(): the document of a specification.  A schedule or   *)
(* an axis that is not there is left out, everything else is spelt out.      *)
WrittenSpec(p) ==
  LET Entries(k) ==
        IF p.stages = <<>> THEN [kind |-> "absent", of |-> <<>>]
        ELSE [kind |-> "array", of |-> [g \in DOMAIN p.stages |-> p.stages[g][k]]]
  IN  [form |-> "object", scalar |-> p.scalar,
       ns |-> Entries("ns"), niter |-> Entries("niter"), ftol |-> Entries("ftol"),
       free |-> p.free, mgrid |-> p.mgrid, coils |-> p.coils, file |-> p.file,
       extcur |-> p.extcur, embedded |-> p.embedded,
       axis |-> IF p.hasAxis THEN p.axis ELSE "absent",
       lasym |-> p.lasym, complement |-> p.complement,
       rbc |-> p.rbc, zbs |-> p.zbs, zbc |-> IF p.lasym THEN p.zbc ELSE {},
       flat |-> p.flat, modes |-> p.modes, unknown |-> FALSE]

(* The immutable model: axis padded, boundary reduced to what is kept.       *)
Assembled(p) ==
  [p EXCEPT !.axis = "fit", !.rbc = Kept(@), !.zbs = Kept(@), !.zbc = Kept(@)]

ReadAndValidate_SpecOnly(doc, strict) ==  \* mutant: forgets the mapping errors
  LET spec == MappedSpec(doc)
      mapping == MappingErrors(doc, strict)
      e == SpecErrors(spec)
  IN  IF doc.form # "object" THEN [ok |-> FALSE, issues |-> {"form"}]
      ELSE IF e # {} THEN [ok |-> FALSE, issues |-> mapping \cup e]
      ELSE [ok |-> TRUE, problem |-> Assembled(spec),
            warnings |-> MappingWarnings(doc, strict) \cup SpecWarnings(spec)]

(* read_and_validate(): a field that kept its default because of a type      *)
(* error looks fine to validate(), so the errors of both phases count.       *)
ReadAndValidate(doc, strict) ==
  LET spec == MappedSpec(doc)
      mapping == MappingErrors(doc, strict)
      e == SpecErrors(spec)
  IN  IF doc.form # "object" THEN [ok |-> FALSE, issues |-> {"form"}]
      ELSE IF mapping \cup e # {} THEN [ok |-> FALSE, issues |-> mapping \cup e]
      ELSE [ok |-> TRUE, problem |-> Assembled(spec),
            warnings |-> MappingWarnings(doc, strict) \cup SpecWarnings(spec)]
=============================================================================
