----------------------------- MODULE Containers -----------------------------
(* The two containers cuMES writes itself, the checkpoint and the versioned  *)
(* binary, as sequences of typed fields, and their readers.  A field is a    *)
(* run of numbers, vectors or strings that the code writes in one go; where  *)
(* a reader takes a field for one of another type, it gets garbage.  The     *)
(* version decides which fields a file has, in a writer as in a reader, and  *)
(* the two lineages (profile types, free boundary) make it irregular.        *)
(*   snapshot  [ns, modes, lasym, state, fields]                             *)
(*   params    [lasym, stages, embedded], the parts that shape the record    *)
(*   report    the restarts of each stage                                    *)
EXTENDS Integers, Sequences

Garbage == "garbage"

F(type, value) == [type |-> type, value |-> value]

Components(lasym) == IF lasym THEN 12 ELSE 6

(* The entries of f, and those of g under other names.                       *)
Over(f, g) ==
  [x \in DOMAIN f \cup DOMAIN g |-> IF x \in DOMAIN f THEN f[x] ELSE g[x]]

Optional(condition, fields) == IF condition THEN fields ELSE <<>>

-----------------------------------------------------------------------------
(* Writing.  A layout names what a version contains: the component count,    *)
(* the result fields, the policy strings, the input record, and in the       *)
(* record the profile types, 0 to 3 steps of the free-boundary extension and *)
(* the asymmetric vectors.                                                   *)

FullRecord(lasym) ==
  [record |-> "typed", types |-> TRUE, free |-> 3, asymmetric |-> lasym]

CheckpointLayout(lasym) ==
  Over([version |-> IF lasym THEN 8 ELSE 6, count |-> lasym], FullRecord(lasym))

BinaryLayout(lasym) ==
  Over([version |-> IF lasym THEN 10 ELSE 8, count |-> lasym,
        fields |-> TRUE, policy |-> TRUE], FullRecord(lasym))

(* write_input_params().                                                     *)
InputRecord(p, layout) ==
  CASE layout.record = "none" -> <<>>
    [] layout.record = "json" -> <<F("json", "json")>>
    [] layout.record = "typed" ->
         <<F("scalars", "scalars"), F("schema", "schema")>>
      \o Optional(layout.types, <<F("types", "types")>>)
      \o <<F("profiles", "profiles"), F("count", p.stages)>>
      \o [g \in 1 .. p.stages |-> F("stage", <<"stage", g>>)]
      \o <<F("boundary", "boundary")>>
      \o Optional(layout.free >= 1, <<F("free", "free")>>)
      \o Optional(layout.free >= 2, <<F("coils", "coils")>>)
      \o Optional(layout.free >= 3,
                  <<F("count", IF p.embedded THEN 1 ELSE 0)>>
                  \o Optional(p.embedded, <<F("makegrid", "makegrid")>>))
      \o Optional(layout.asymmetric,
                  <<F("count", IF p.lasym THEN 1 ELSE 0), F("vectors", "vectors")>>)

(* write_state_families(): one field per family.                             *)
Families(s) ==
  [c \in 1 .. Components(s.lasym) |-> F("family", <<s.state, c>>)]

(* What fopen() to publish_atomic() put into the file.  The empty file is a  *)
(* refusal: nothing is published.                                            *)
CheckpointFile(s, p, layout) ==
  IF s.lasym # p.lasym THEN <<>>
  ELSE <<F("magic", "CUMECKP1"), F("count", layout.version),
         F("count", 0), F("count", s.ns), F("count", s.modes)>>
       \o Optional(layout.count, <<F("count", Components(s.lasym))>>)
       \o Families(s) \o InputRecord(p, layout)

(* write_derived_fields(): 0 stands for the absent marker.                   *)
DerivedFields(s) ==
  CASE s.fields = "none" -> <<F("count", 0)>>
    [] s.fields = "complete" -> <<F("count", 1), F("arrays", s.state)>>

StageRecords(report) ==
  [g \in 1 .. Len(report) |-> <<F("result", "result"), F("count", report[g])>>
                              \o [k \in 1 .. report[g] |-> F("count", k)]]

Concatenated(seqs) ==
  LET upto[n \in 0 .. Len(seqs)] ==
        IF n = 0 THEN <<>> ELSE upto[n - 1] \o seqs[n]
  IN  upto[Len(seqs)]

(* VersionedBinaryWriter::write_atomic().                                    *)
BinaryFile(s, p, report, layout) ==
  IF s.lasym # p.lasym \/ s.fields = "partial" THEN <<>>
  ELSE <<F("magic", "CUMES001"), F("count", layout.version),
         F("count", s.ns), F("count", s.modes)>>
       \o Optional(layout.count, <<F("count", Components(s.lasym))>>)
       \o Families(s)
       \o Optional(layout.fields, DerivedFields(s))
       \o <<F("status", "status"), F("count", Len(report)), F("build", "build"),
            IF layout.policy THEN F("policy", "policy") ELSE F("scalar", "scalar"),
            F("provenance", "provenance")>>
       \o Concatenated(StageRecords(report))
       \o InputRecord(p, layout)

-----------------------------------------------------------------------------
(* Files of earlier releases, as docs/output-formats.md describes them.      *)

LegacyRecord(record, types, free) ==
  [record |-> record, types |-> types, free |-> free, asymmetric |-> FALSE]

LegacyCheckpoints ==
  [v \in {1, 2, 3, 4, 5, 7} |->
     Over([version |-> v, count |-> v = 7],
      CASE v = 1 -> LegacyRecord("none", FALSE, 0)
        [] v = 2 -> LegacyRecord("typed", FALSE, 0)
        [] v = 3 -> LegacyRecord("typed", TRUE, 0)
        [] v = 4 -> LegacyRecord("typed", FALSE, 2)
        [] v = 5 -> LegacyRecord("typed", FALSE, 3)
        [] v = 7 -> LegacyRecord("json", FALSE, 0))]

LegacyBinaries ==
  [v \in {1, 2, 3, 4, 5, 6, 7, 9} |->
     Over([version |-> v, count |-> v = 9, fields |-> v >= 8, policy |-> v >= 2],
      CASE v \in {1, 2} -> LegacyRecord("none", FALSE, 0)
        [] v = 3 -> LegacyRecord("typed", FALSE, 0)
        [] v = 4 -> LegacyRecord("typed", TRUE, 0)
        [] v = 5 -> LegacyRecord("typed", FALSE, 2)
        [] v = 6 -> LegacyRecord("typed", FALSE, 3)
        [] v = 7 -> LegacyRecord("typed", TRUE, 3)
        [] v = 9 -> LegacyRecord("json", FALSE, 0))]

-----------------------------------------------------------------------------
(* Reading.  A reader has used up `at` fields and holds what it `got`.       *)

Start == [ok |-> TRUE, at |-> 0, got |-> <<>>]

(* A count taken from other bytes is out of range, as any count < 0 is.      *)
Taken(field, type) ==
  CASE field.type = type -> field.value
    [] field.type # type /\ type = "count" -> -1
    [] field.type # type /\ type \in {"family", "stage"} -> <<Garbage, 0>>
    [] OTHER -> Garbage

(* The next fields, each with the type it is read as and the name it gets.   *)
Take(r, file, items) ==
  LET names == {items[i][2] : i \in DOMAIN items}
      At(name) == CHOOSE i \in DOMAIN items : items[i][2] = name
  IN  IF ~r.ok \/ r.at + Len(items) > Len(file) THEN [r EXCEPT !.ok = FALSE]
      ELSE [ok |-> TRUE, at |-> r.at + Len(items),
            got |-> Over([x \in names |-> Taken(file[r.at + At(x)], items[At(x)][1])],
                         r.got)]

TakeIf(condition, r, file, items) ==
  IF condition THEN Take(r, file, items) ELSE r

(* A check between two reads; behind a failed read there is nothing to check. *)
Demand(r, condition) == [r EXCEPT !.ok = r.ok /\ condition]

Got(r, name, default) == IF name \in DOMAIN r.got THEN r.got[name] ELSE default

(* n fields of one type, under one name.                                     *)
TakeMany(r, file, type, n, name) ==
  IF ~r.ok \/ n < 0 \/ r.at + n > Len(file) THEN [r EXCEPT !.ok = FALSE]
  ELSE [ok |-> TRUE, at |-> r.at + n,
        got |-> Over([x \in {name} |-> [i \in 1 .. n |-> Taken(file[r.at + i], type)]],
                     r.got)]

(* check_state_dimensions() and read_state_families().                       *)
ReadFamilies(r, file) ==
  LET n == Got(r, "components", 6)
      d == Demand(r, r.ok /\ n \in {6, 12}
                          /\ Got(r, "ns", 0) >= 1 /\ Got(r, "modes", 0) >= 1)
  IN  TakeMany(d, file, "family", n, "families")

(* read_derived_fields().                                                    *)
ReadDerived(r, file) ==
  LET d == Take(r, file, <<<<"count", "dims">>>>)
      n == Got(d, "dims", 0)
      e == Demand(d, n = 0 \/ (n = 1 /\ Got(d, "ns", 0) >= 2))
  IN  TakeIf(e.ok /\ n = 1, e, file, <<<<"arrays", "fields">>>>)

(* read_input_params(), told by the version which extensions to expect.      *)
ReadRecord(r, file, flags) ==
  LET a == Take(r, file, <<<<"scalars", "scalars">>, <<"schema", "schema">>>>)
      b == TakeIf(flags.types, a, file, <<<<"types", "types">>>>)
      c == Take(b, file, <<<<"profiles", "profiles">>, <<"count", "stages">>>>)
      d == TakeMany(c, file, "stage", Got(c, "stages", -1), "schedule")
      e == Take(d, file, <<<<"boundary", "boundary">>>>)
      f == TakeIf(flags.free >= 1, e, file, <<<<"free", "free">>>>)
      g == TakeIf(flags.free >= 2, f, file, <<<<"coils", "coils">>>>)
      h == TakeIf(flags.free >= 3, g, file, <<<<"count", "embedded">>>>)
      i == TakeIf(Got(h, "embedded", 0) # 0, h, file, <<<<"makegrid", "makegrid">>>>)
      j == TakeIf(flags.asymmetric, i, file, <<<<"count", "lasym">>>>)
      k == Demand(j, Got(j, "lasym", 0) \in {0, 1})
  IN  TakeIf(flags.asymmetric, k, file, <<<<"vectors", "vectors">>>>)

SymmetryAgrees(r) ==
  Got(r, "lasym", 0) = 1 <=> Got(r, "components", 6) = 12

CheckpointFlags_Monotone(v) ==    \* mutant: every version after 3 has the types
  [types |-> v >= 3, free |-> IF v >= 6 THEN 3 ELSE IF v >= 4 THEN v - 2 ELSE 0,
   asymmetric |-> v >= 8]

CheckpointFlags(v) ==
  [types |-> v = 3 \/ v >= 6,
   free |-> IF v >= 6 THEN 3 ELSE IF v >= 4 THEN v - 2 ELSE 0,
   asymmetric |-> v >= 8]

BinaryFlags(v) ==
  [types |-> v = 4 \/ v >= 7,
   free |-> IF v >= 7 THEN 3 ELSE IF v >= 5 THEN v - 3 ELSE 0,
   asymmetric |-> v >= 10]

(* read_checkpoint(); `asked` says whether the caller wants the record.      *)
ReadCheckpoint(file, asked) ==
  LET h == Take(Start, file,
                <<<<"magic", "magic">>, <<"count", "version">>, <<"count", "precision">>,
                  <<"count", "ns">>, <<"count", "modes">>>>)
      v == Got(h, "version", 0)
      i == Demand(h, /\ Got(h, "magic", "") = "CUMECKP1"
                     /\ v \in 1 .. 8 /\ Got(h, "precision", 0) = 0)
      c == TakeIf(v >= 7, i, file, <<<<"count", "components">>>>)
      s == ReadFamilies(c, file)
      p == ReadRecord(Demand(s, v # 7), file, CheckpointFlags(v))
  IN  IF asked /\ v >= 2 THEN Demand(p, SymmetryAgrees(p)) ELSE s

ReadStage(r, file) ==
  LET a == Take(r, file, <<<<"result", "result">>, <<"count", "restarts">>>>)
      b == TakeMany(a, file, "count", Got(a, "restarts", -1), "list")
  IN  [b EXCEPT !.got = Over([report |-> Append(Got(b, "report", <<>>),
                                                Got(b, "restarts", 0))], @)]

(* The trailer of one stage after the other.                                 *)
ReadStages(r, file) ==
  LET n == Got(r, "grids", -1)
      read[g \in 0 .. n] == IF g = 0 THEN r ELSE ReadStage(read[g - 1], file)
  IN  IF ~r.ok \/ n < 0 THEN Demand(r, FALSE) ELSE read[n]

(* VersionedBinaryReader::read(); `asked` for the run report.                *)
ReadBinary(file, asked) ==
  LET h == Take(Start, file,
                <<<<"magic", "magic">>, <<"count", "version">>,
                  <<"count", "ns">>, <<"count", "modes">>>>)
      v == Got(h, "version", 0)
      i == Demand(h, Got(h, "magic", "") = "CUMES001" /\ v \in 1 .. 10)
      c == TakeIf(v >= 9, i, file, <<<<"count", "components">>>>)
      s == ReadFamilies(c, file)
      d == IF v >= 8 THEN ReadDerived(s, file) ELSE s
      t == Take(Demand(d, v # 9), file,
                <<<<"status", "status">>, <<"count", "grids">>, <<"build", "build">>>>)
      u == Take(t, file, <<IF v >= 2 THEN <<"policy", "policy">> ELSE <<"scalar", "scalar">>,
                           <<"provenance", "provenance">>>>)
      w == ReadStages(u, file)
      p == ReadRecord(w, file, BinaryFlags(v))
  IN  IF ~asked THEN d
      ELSE IF v >= 3 THEN Demand(p, SymmetryAgrees(p)) ELSE w

-----------------------------------------------------------------------------
(* What a caller must find in a container that was accepted: the state, the  *)
(* record as far as the version carries it, and defaults for the rest.       *)

StateIs(r, s) ==
  /\ r.got["ns"] = s.ns /\ r.got["modes"] = s.modes
  /\ r.got["families"] = [c \in 1 .. Components(s.lasym) |-> <<s.state, c>>]

ReportIs(r, report) == Got(r, "report", <<>>) = report

(* Every field that a read record consists of is the field of that name.     *)
RecordIs(r, p, layout) ==
  LET Present(name) == name \in DOMAIN r.got
      Own(name) == Present(name) => r.got[name] = name
  IN  layout.record = "typed" =>
        /\ Present("types") <=> layout.types
        /\ Present("free") <=> layout.free >= 1
        /\ Present("coils") <=> layout.free >= 2
        /\ Present("makegrid") <=> layout.free >= 3 /\ p.embedded
        /\ Present("vectors") <=> p.lasym
        /\ \A name \in {"scalars", "schema", "types", "profiles", "boundary",
                        "free", "coils", "makegrid", "vectors"} : Own(name)
        /\ r.got["schedule"] = [g \in 1 .. p.stages |-> <<"stage", g>>]
=============================================================================
