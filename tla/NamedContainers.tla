-------------------------- MODULE NamedContainers --------------------------
(* The NetCDF and HDF5 results: arrays found by their names, so that a       *)
(* reader knows a version by what is there and what is not.  Arrays that the *)
(* code writes, omits and reads alike share one name here.  An array has an  *)
(* extent per dimension; in NetCDF the dimensions are shared and have names  *)
(* of their own, and one of length 0 is unlimited, of which a classic file   *)
(* may have one.                                                             *)
EXTENDS Containers, FiniteSets, SequencesExt

Array(dims, value) == [dims |-> dims, value |-> value]

NoArrays == [dims |-> <<>>, arrays |-> <<>>]
Refused(file) == file.arrays = <<>>

Restricted(f, S) == [x \in S |-> f[x]]
Only(condition, names) == IF condition THEN names ELSE {}

Vectors == {"profiles", "axis", "extcur"}
InputLength(name) ==
  CASE name = "profiles" -> "n_profiles"
    [] name = "axis" -> "n_axis"
    [] name = "extcur" -> "n_extcur"

(* The restarts of the first so many stages.                                 *)
Counted(report) ==
  LET upto[g \in 0 .. Len(report)] ==
        IF g = 0 THEN 0 ELSE upto[g - 1] + report[g]
  IN  upto

(* Where the restarts of a stage begin in the list of all of them.           *)
Offsets(report) == [g \in DOMAIN report |-> Counted(report)[g - 1]]

Restarts(report) == Counted(report)[Len(report)]

(* The dimensions, of a result and of its input record.                      *)
Lengths(s, p, report) ==
  LET every ==
        [ns |-> s.ns, mnmax |-> s.modes, nstages |-> Len(report),
         nrestarts |-> Restarts(report), nrbc |-> p.harmonics["rbc"],
         nzbs |-> p.harmonics["zbs"], n_boundary |-> s.modes,
         ns_half |-> s.ns - 1, n_angles |-> 1,
         n_profiles |-> p.lengths["profiles"], n_axis |-> p.lengths["axis"],
         n_extcur |-> p.lengths["extcur"], nstages_in |-> p.stages,
         n_rbs |-> p.harmonics["rbs"], n_zbc |-> p.harmonics["zbc"]]
  IN  Restricted(every, DOMAIN every
                          \ (Only(s.fields # "complete", {"ns_half", "n_angles"})
                              \cup Only(~s.lasym, {"n_rbs", "n_zbc"})))

(* The arrays, both writers' alike: the state with its fields, the outcome   *)
(* with the history of the stages, and the input record.                     *)
StateArrays(s) ==
  LET Families6(first) ==
        Array(<<"ns", "mnmax">>, [c \in 1 .. 6 |-> <<s.state, first + c>>])
  IN  [families |-> Families6(0), complement |-> Families6(6),
       half |-> Array(<<"ns_half", "n_angles">>, s.state),
       full |-> Array(<<"ns", "n_angles">>, s.state)]

ReportArrays(report) ==
  [outcome |-> Array(<<>>, "outcome"), provenance |-> Array(<<>>, "provenance"),
   stage_history |-> Array(<<"nstages">>, Offsets(report)),
   restart_iteration |-> Array(<<"nrestarts">>, "iterations")]

BoundaryArrays ==
  [rbc |-> Array(<<"nrbc">>, "rbc"), zbs |-> Array(<<"nzbs">>, "zbs"),
   folded |-> Array(<<"n_boundary">>, "folded")]

RecordArrays(p) ==
  Over([scalars |-> Array(<<>>, "scalars"), types |-> Array(<<>>, "types"),
        free |-> Array(<<>>, p.embedded), makegrid |-> Array(<<>>, "makegrid"),
        stages |-> Array(<<"nstages_in">>, "stages")],
       [v \in Vectors |-> Array(<<InputLength(v)>>, v)])

AsymmetricArrays ==
  [lasym |-> Array(<<>>, 1), complement_folded |-> Array(<<"n_boundary">>, "folded"),
   rbs |-> Array(<<"n_rbs">>, "rbs"), zbc |-> Array(<<"n_zbc">>, "zbc")]

(* Which of them a file has.  A layout names the parts of its record.        *)
ArrayNames(s, layout) ==
  {"families"} \cup DOMAIN ReportArrays(<<>>) \cup DOMAIN BoundaryArrays
  \cup Only(s.lasym, {"complement"}) \cup Only(s.fields = "complete", {"half", "full"})
  \cup Only(layout.record = "typed",
            {"scalars", "stages"} \cup Vectors \cup Only(layout.types, {"types"})
            \cup Only(layout.free, {"free", "makegrid"})
            \cup Only(s.lasym, DOMAIN AsymmetricArrays))

AllArrays(s, p, report, layout) ==
  Restricted(Over(StateArrays(s), Over(ReportArrays(report),
               Over(BoundaryArrays, Over(RecordArrays(p), AsymmetricArrays)))),
             ArrayNames(s, layout))

Written(s, p) == s.lasym = p.lasym /\ s.fields # "partial"

(* An empty list of the input record gets no dimension; those of the result  *)
(* and of the boundary always do.                                            *)
WithoutDimension(lengths) ==
  {d \in {"n_profiles", "n_axis", "n_extcur", "nstages_in", "n_rbs", "n_zbc"} :
     d \in DOMAIN lengths /\ lengths[d] = 0}

(* NetcdfV1Writer::write_atomic(): no array without its dimensions.          *)
NetcdfFile(s, p, report, layout) ==
  LET lengths == Lengths(s, p, report)
      dims == Restricted(lengths, DOMAIN lengths \ WithoutDimension(lengths))
      all == AllArrays(s, p, report, layout)
      unlimited == {d \in DOMAIN dims : dims[d] = 0}
  IN  IF ~Written(s, p) \/ Cardinality(unlimited) > 1 THEN NoArrays
      ELSE [dims |-> dims,
            arrays |-> Restricted(all, {x \in DOMAIN all :
                                          ToSet(all[x].dims) \subseteq DOMAIN dims})]

(* Hdf5V1Writer::write_atomic(): every array has its own extents; lists of   *)
(* the result and the boundary are omitted when they are empty, others not.  *)
Hdf5File(s, p, report, layout) ==
  LET lengths == Lengths(s, p, report)
      all == AllArrays(s, p, report, layout)
      Extents(x) == [d \in DOMAIN all[x].dims |-> lengths[all[x].dims[d]]]
      omitted == {x \in {"restart_iteration", "rbc", "zbs"} : Extents(x) = <<0>>}
  IN  IF ~Written(s, p) THEN NoArrays
      ELSE [dims |-> <<>>,
            arrays |-> [x \in DOMAIN all \ omitted |->
                          Array(Extents(x), all[x].value)]]

-----------------------------------------------------------------------------
(* Reading.  An array must have exactly the dimensions it is read with.      *)

Has(f, x) == x \in DOMAIN f.arrays

Fetch(r, f, x, dims) ==
  IF ~r.ok \/ ~Has(f, x) \/ f.arrays[x].dims # dims THEN [r EXCEPT !.ok = FALSE]
  ELSE [r EXCEPT !.got = Over([y \in {x} |-> f.arrays[x].value], @)]

FetchIf(condition, r, f, x, dims) == IF condition THEN Fetch(r, f, x, dims) ELSE r

(* Its first extent, whatever it is; -1 if there is no such array.           *)
Extent(f, x) == IF Has(f, x) THEN f.arrays[x].dims[1] ELSE -1

(* validate_restart_offsets(), and the restarts of each stage from them.     *)
OffsetsValid(offsets, n) ==
  /\ offsets # <<>> => offsets[1] = 0
  /\ \A g \in DOMAIN offsets :
       /\ offsets[g] \in 0 .. n
       /\ g > 1 => offsets[g - 1] <= offsets[g]

ReportOf(offsets, n) ==
  [g \in DOMAIN offsets |->
     (IF g < Len(offsets) THEN offsets[g + 1] ELSE n) - offsets[g]]

WithReport(r, n) ==
  LET valid == Demand(r, r.ok /\ OffsetsValid(Got(r, "stage_history", <<>>), n))
  IN  IF ~valid.ok THEN valid
      ELSE [valid EXCEPT !.got =
              Over([report |-> ReportOf(valid.got["stage_history"], n)], @)]

(* The asymmetric families and the derived fields: all of them or none.      *)
StateOf(r, f, surfaces, modes, half, angles) ==
  LET a == Fetch(r, f, "families", <<surfaces, modes>>)
      b == FetchIf(Has(f, "complement"), a, f, "complement", <<surfaces, modes>>)
      c == Demand(b, Has(f, "half") <=> Has(f, "full"))
      d == FetchIf(Has(f, "half"), c, f, "half", <<half, angles>>)
  IN  FetchIf(Has(f, "full"), d, f, "full", <<surfaces, angles>>)

(* What the readers do alike with the record's scalars.                      *)
ScalarsOf(r, f) ==
  LET a == Fetch(r, f, "scalars", <<>>)
      b == FetchIf(Has(f, "types"), a, f, "types", <<>>)
      c == FetchIf(Has(f, "free"), b, f, "free", <<>>)
  IN  FetchIf(Got(c, "free", FALSE), c, f, "makegrid", <<>>)

Listed(r, f, x, n) == FetchIf(Has(f, x), r, f, x, <<n>>)

(* The history of the stages; restart_iteration may be absent only when the  *)
(* dimension says that there was no restart.                                 *)
NetcdfReport(s, f) ==
  LET o == Fetch(Fetch(s, f, "outcome", <<>>), f, "provenance", <<>>)
      d == Demand(o, o.ok /\ {"nstages", "nrestarts"} \subseteq DOMAIN f.dims)
      h == Fetch(d, f, "stage_history", <<"nstages">>)
      i == IF Has(f, "restart_iteration")
           THEN Fetch(h, f, "restart_iteration", <<"nrestarts">>)
           ELSE Demand(h, h.ok /\ f.dims["nrestarts"] = 0)
  IN  IF i.ok THEN WithReport(i, f.dims["nrestarts"]) ELSE i

(* The vectors and the stages of the input may be absent, the boundary not.  *)
NetcdfRecord(w, f) ==
  LET Input(r, v) == Listed(r, f, v, InputLength(v))
      v == Input(Input(Input(ScalarsOf(w, f), "profiles"), "axis"), "extcur")
      s == Listed(v, f, "stages", "nstages_in")
  IN  Fetch(Fetch(Fetch(s, f, "rbc", <<"nrbc">>), f, "zbs", <<"nzbs">>),
            f, "folded", <<"n_boundary">>)

NetcdfAsymmetric(r, f) ==
  LET l == Fetch(Demand(r, Has(f, "scalars")), f, "lasym", <<>>)
      m == Fetch(l, f, "complement_folded", <<"n_boundary">>)
  IN  Listed(Listed(m, f, "rbs", "n_rbs"), f, "zbc", "n_zbc")

(* NetcdfV1Reader::read(); `asked` for the run report.                       *)
ReadNetcdf(f, asked) ==
  LET Dim(d) == d \in DOMAIN f.dims
      a == Demand(Start, Dim("ns") /\ Dim("mnmax") /\ f.dims["ns"] >= 1
                                                   /\ f.dims["mnmax"] >= 1)
      b == Demand(a, a.ok /\ (Has(f, "half") =>
                                Dim("ns_half") /\ f.dims["ns_half"] = f.dims["ns"] - 1))
      s == StateOf(b, f, "ns", "mnmax", "ns_half", "n_angles")
      w == NetcdfReport(s, f)
      r == IF Has(f, "scalars") THEN NetcdfRecord(w, f) ELSE w
  IN  IF ~asked THEN s
      ELSE IF Has(f, "complement") THEN NetcdfAsymmetric(r, f) ELSE r

(* The extents of an HDF5 array are checked against those of the one its     *)
(* size is taken from.                                                       *)
Hdf5State(f) ==
  LET ns == Extent(f, "families")
      modes == IF Has(f, "families") THEN f.arrays["families"].dims[2] ELSE -1
      angles == IF Has(f, "half") THEN f.arrays["half"].dims[2] ELSE -1
  IN  StateOf(Demand(Start, ns >= 1 /\ modes >= 1), f, ns, modes, ns - 1, angles)

Hdf5Report(s, f) ==
  LET o == Fetch(Fetch(s, f, "outcome", <<>>), f, "provenance", <<>>)
      h == Fetch(o, f, "stage_history", <<Extent(f, "stage_history")>>)
      n == IF Has(f, "restart_iteration") THEN Extent(f, "restart_iteration") ELSE 0
  IN  WithReport(FetchIf(n > 0, h, f, "restart_iteration", <<n>>), n)

Own(f, r, x) == Fetch(r, f, x, <<Extent(f, x)>>)

(* Only the coil currents may be absent.                                     *)
Hdf5Record(w, f) ==
  LET v == Own(f, Own(f, ScalarsOf(w, f), "profiles"), "axis")
      e == IF Has(f, "extcur") THEN Own(f, v, "extcur") ELSE v
  IN  Own(f, Own(f, Own(f, Own(f, e, "stages"), "rbc"), "zbs"), "folded")

Hdf5Asymmetric(r, f) ==
  LET l == Fetch(Demand(r, Has(f, "scalars")), f, "lasym", <<>>)
  IN  Own(f, Own(f, Own(f, l, "complement_folded"), "rbs"), "zbc")

(* Hdf5V1Reader::read().                                                     *)
ReadHdf5(f, asked) ==
  LET s == Hdf5State(f)
      w == Hdf5Report(s, f)
      r == IF Has(f, "scalars") THEN Hdf5Record(w, f) ELSE w
  IN  IF ~asked THEN s
      ELSE IF Has(f, "complement") THEN Hdf5Asymmetric(r, f) ELSE r

-----------------------------------------------------------------------------
(* Files of this release and of the earlier ones that docs/output-formats.md *)
(* describes: without a record, without profile types or free boundary, and  *)
(* the asymmetric ones that held the input as a JSON string.                 *)
NamedLayouts ==
  {[record |-> "typed", types |-> t, free |-> b] : t \in BOOLEAN, b \in BOOLEAN}
    \cup {[record |-> r, types |-> FALSE, free |-> FALSE] : r \in {"none", "json"}}

CurrentLayout == [record |-> "typed", types |-> TRUE, free |-> TRUE]

(* What is read, of what was written: state, fields, report and record.      *)
NamedAgrees(r, s, p, report, layout, asked) ==
  LET Fields == IF s.fields = "complete" THEN {"half", "full"} ELSE {}
      Length(x) == IF x \in Vectors THEN p.lengths[x] ELSE p.harmonics[x]
      Lists == Vectors \cup (IF s.lasym THEN {"rbs", "zbc"} ELSE {})
  IN  /\ r.got["families"] \o Got(r, "complement", <<>>)
           = [c \in 1 .. Components(s.lasym) |-> <<s.state, c>>]
      /\ \A x \in {"half", "full"} :
           IF x \in Fields THEN r.got[x] = s.state ELSE x \notin DOMAIN r.got
      /\ asked =>
           /\ r.got["report"] = report
           /\ layout.record = "typed" =>
                /\ "types" \in DOMAIN r.got <=> layout.types
                /\ "makegrid" \in DOMAIN r.got <=> layout.free /\ p.embedded
                /\ {"scalars", "stages", "rbc", "zbs", "folded"} \subseteq DOMAIN r.got
                /\ \A x \in Lists : Length(x) > 0 => x \in DOMAIN r.got
=============================================================================
