----------------------------- MODULE CommandLine -----------------------------
(* The program from its arguments to its exit status: main() checks the      *)
(* options, reads and validates the input, reads the checkpoint to restart   *)
(* from, has EquilibriumSolver::solve() run, and writes what was asked for.  *)
(* The solve itself is one step here (Multigrid has its stages), and so is   *)
(* the publication of a file (AtomicPublish).  Jobs follow one another and   *)
(* share the files; between any two steps the user may replace the input, or *)
(* copy a checkpoint back and be interrupted.                                *)
EXTENDS NamedContainers, ProblemInput

CONSTANTS
  FirstJobs,     \* a first job's document, its options and the file on the
                 \* checkpoint path before it
  LaterJobs,     \* the document and the options of the jobs after it
  Replacements,  \* what the input may be replaced by at any time
  Formats,       \* the output formats this build has, among bin, nc and h5
  MaxJobs

NoOutcome == [status |-> "none"]
NoSeed == [from |-> "nothing"]

(* A file is its fields and, for the properties, what its writer was given.  *)
NoFile == [of |-> NoOutcome, fields |-> <<>>, named |-> NoArrays]

NoDocument == [form |-> "none"]
NoProblem == [free |-> FALSE]

Options ==
  [output : STRING, boozer : {"no", "yes", "invalid", "unavailable"},
   restart : BOOLEAN, checkpoint : BOOLEAN, compatibility : BOOLEAN,
   newton : BOOLEAN, environment : {"valid", "invalid"}]

(* What may lie on the checkpoint path: a checkpoint of this release or of   *)
(* an earlier one, which knew asymmetric states only where it recorded the   *)
(* number of components; or whatever does not begin as a checkpoint does.    *)
CheckpointLayouts ==
  {CheckpointLayout(lasym) : lasym \in BOOLEAN}
    \cup {LegacyCheckpoints[v] : v \in DOMAIN LegacyCheckpoints}

Released(f) ==
  /\ {"of", "fields", "layout"} \subseteq DOMAIN f
  /\ f.layout \in CheckpointLayouts
  /\ f.of.snapshot.lasym \in BOOLEAN /\ f.of.params.lasym = f.of.snapshot.lasym
  /\ f.of.snapshot.lasym => f.layout.count
  /\ f.layout.asymmetric => f.of.snapshot.lasym
  /\ f.of.snapshot.ns \in Nat \ {0} /\ f.of.snapshot.modes \in Nat \ {0}
  /\ f.of.params.stages \in Nat /\ f.of.params.embedded \in BOOLEAN

Foreign(f) ==
  /\ "fields" \in DOMAIN f
  /\ Len(f.fields) \in Nat /\ f.fields = [i \in 1 .. Len(f.fields) |-> f.fields[i]]
  /\ f.fields # <<>> => f.fields[1].type # "magic" \/ f.fields[1].value # "CUMECKP1"

ASSUME JobsAssumption ==
  /\ \A first \in FirstJobs :
       /\ first.document \in Documents /\ first.options \in Options
       /\ \/ Foreign(first.file)
          \/ /\ Released(first.file)
             /\ first.file.fields = CheckpointFile(first.file.of.snapshot,
                                       first.file.of.params, first.file.layout)
  /\ \A later \in LaterJobs : later.document \in Documents /\ later.options \in Options
  /\ Replacements \subseteq Documents

VARIABLES
  pc, job,
  options,       \* the command line of this job
  document,      \* the input path
  hashed,        \* the document source_hash was computed from
  consumed,      \* the document the problem was mapped from
  problem,       \* the ValidatedProblem
  seed,          \* the state the first stage starts from
  outcome,       \* SolveOutcome
  checkpoint,    \* the file on the checkpoint path
  native,        \* the native result, and the hash recorded in it
  outputOk, exit

files == <<checkpoint, native>>
request == <<job, options>>
input == <<hashed, consumed, problem>>
vars == <<pc, request, document, input, seed, outcome, files, outputOk, exit>>

Init ==
  /\ pc = "options" /\ job = 1
  /\ \E first \in FirstJobs :
       /\ options = first.options /\ document = first.document
       /\ checkpoint = first.file
  /\ native = [file |-> NoFile, hash |-> NoDocument]
  /\ hashed = NoDocument /\ consumed = NoDocument /\ problem = NoProblem
  /\ seed = NoSeed /\ outcome = NoOutcome
  /\ outputOk = TRUE /\ exit = "none"

Exit(status) == pc' = "exited" /\ exit' = status

-----------------------------------------------------------------------------
(* Options that are wrong whatever the build has, then what the build lacks. *)
OptionsInvalid(o) ==
  \/ o.newton /\ ~DoubleBuild
  \/ o.output # "default" /\ o.boozer # "no"
  \/ o.boozer = "invalid"

(* resolve_output_spec() and output_format_available(): the default is a     *)
(* binary file in the current directory.                                     *)
Format(o) == IF o.output = "default" THEN "bin" ELSE o.output

OutputUnavailable(o) ==
  \/ o.boozer = "unavailable"
  \/ o.boozer = "no" /\ Format(o) \notin Formats

CheckOptions ==
  /\ pc = "options"
  /\ CASE OptionsInvalid(options) -> Exit("invalid")
       [] ~OptionsInvalid(options) /\ OutputUnavailable(options) -> Exit("failure")
       [] OTHER -> pc' = "hash" /\ UNCHANGED exit
  /\ UNCHANGED <<request, document, input, seed, outcome, files, outputOk>>

(* read_file_bytes() and hash_bytes().                                       *)
HashInput ==
  /\ pc = "hash" /\ pc' = "parse"
  /\ hashed' = document
  /\ UNCHANGED <<request, document, consumed, problem, seed, outcome, files,
                 outputOk, exit>>

(* The rest of an axisymmetric, fixed-boundary problem is asked of Newton.   *)
NewtonFits(p) == ~p.free /\ p.flat

(* cumes::read_and_validate() opens the path again.                          *)
ParseInput ==
  LET r == ReadAndValidate(document, ~options.compatibility)
  IN  /\ pc = "parse"
      /\ consumed' = document
      /\ CASE ~r.ok -> Exit("failure") /\ UNCHANGED problem
           [] r.ok /\ options.newton /\ ~NewtonFits(r.problem) ->
                Exit("invalid") /\ UNCHANGED problem
           [] OTHER ->
                /\ pc' = IF options.restart THEN "restart" ELSE "solve"
                /\ problem' = r.problem
                /\ UNCHANGED exit
      /\ UNCHANGED <<request, document, hashed, seed, outcome, files, outputOk>>

FirstStage == problem.stages[1]

(* Number of modes; the only trace of mpol and ntor outside the record.      *)
Modes(p) == p.modes.mpol * (p.modes.ntor + 1)

MatchesFirstGrid(ns, modes) == ns = FirstStage.ns /\ modes = Modes(problem)

(* cumes::read_checkpoint() without the record, and the shape checks.        *)
ReadRestart ==
  LET r == ReadCheckpoint(checkpoint.fields, FALSE)
  IN  /\ pc = "restart"
      /\ IF r.ok /\ MatchesFirstGrid(r.got["ns"], r.got["modes"])
         THEN /\ pc' = "solve"
              /\ seed' = [from |-> "checkpoint", ns |-> r.got["ns"],
                          modes |-> r.got["modes"], families |-> r.got["families"]]
              /\ UNCHANGED exit
         ELSE Exit("failure") /\ UNCHANGED seed
      /\ UNCHANGED <<request, document, input, outcome, files, outputOk>>

-----------------------------------------------------------------------------
(* What solve() and restart_state() throw for before a stage runs.           *)
FacadeRefuses_AnySymmetry ==   \* mutant: the symmetries are not compared
  \/ options.newton /\ (~NewtonFits(problem) \/ problem.lasym)
  \/ options.environment = "invalid"
  \/ seed.from = "checkpoint" /\ ~MatchesFirstGrid(seed.ns, seed.modes)

FacadeRefuses ==
  \/ options.newton /\ (~NewtonFits(problem) \/ problem.lasym)
  \/ options.environment = "invalid"
  \/ seed.from = "checkpoint"
       /\ \/ ~MatchesFirstGrid(seed.ns, seed.modes)
          \/ Len(seed.families) # Components(problem.lasym)

(* init_state() interpolates from the axis and the boundary of the input.    *)
ColdSeed == [from |-> "input", boundary |-> "input"]

(* The boundary row of a restart is the input's, unless it is free to move.  *)
Seeded ==
  IF seed.from = "checkpoint"
  THEN Over(seed, [boundary |-> IF problem.free THEN "checkpoint" ELSE "input"])
  ELSE ColdSeed

Name(n) == CASE n = 1 -> "job1" [] n = 2 -> "job2" [] OTHER -> "job"

Grids == Len(problem.stages)

(* make_input_params(): the parts of the record whose length the containers  *)
(* depend on.  The axis has been padded.                                     *)
InputParams(p) ==
  [lasym |-> p.lasym, stages |-> Len(p.stages),
   embedded |-> p.embedded # "absent", modes |-> p.modes,
   harmonics |-> [rbc |-> Cardinality(p.rbc), zbs |-> Cardinality(p.zbs),
                  rbs |-> IF p.complement THEN 1 ELSE 0,
                  zbc |-> Cardinality(p.zbc)],
   lengths |-> [profiles |-> IF p.scalar = "default" THEN 0 ELSE 1,
                axis |-> p.modes.ntor + 1,
                extcur |-> IF p.extcur THEN 1 ELSE 0]]

(* A solve ends converged, at the cap of a stage, or with a CumesError.      *)
Solve ==
  /\ pc = "solve"
  /\ \E status \in {"converged", "capped", "throws"} :
       LET refused == FacadeRefuses \/ status = "throws"
           failed == status = "capped" /\ Grids > 1
       IN  IF refused \/ failed
           THEN Exit("failure") /\ UNCHANGED <<seed, outcome>>
           ELSE /\ pc' = "native"
                /\ seed' = Seeded
                /\ outcome' =
                     [status |-> status,
                      snapshot |-> [ns |-> problem.stages[Grids].ns,
                                    modes |-> Modes(problem), lasym |-> problem.lasym,
                                    state |-> Name(job), fields |-> "complete"],
                      params |-> InputParams(problem),
                      report |-> [g \in 1 .. Grids |-> g - 1]]
                /\ UNCHANGED exit
  /\ UNCHANGED <<request, document, input, files, outputOk>>

(* make_writer(): what the writer of a format makes of an outcome.           *)
NamedFile(format, o, layout) ==
  CASE format = "nc" -> NetcdfFile(o.snapshot, o.params, o.report, layout)
    [] format = "h5" -> Hdf5File(o.snapshot, o.params, o.report, layout)
    [] OTHER -> NoArrays

NativeFile ==
  [of |-> outcome,
   fields |-> Optional(Format(options) = "bin",
                BinaryFile(outcome.snapshot, outcome.params, outcome.report,
                           BinaryLayout(outcome.snapshot.lasym))),
   named |-> NamedFile(Format(options), outcome, CurrentLayout),
   layout |-> BinaryLayout(outcome.snapshot.lasym)]

NotWritten == NativeFile.fields = <<>> /\ Refused(NativeFile.named)

(* write_atomic().  Whichever way a file is not written, the run goes on to  *)
(* the next one.                                                             *)
WriteNative ==
  /\ pc = "native" /\ pc' = "checkpoint"
  /\ IF options.boozer # "no" THEN UNCHANGED <<native, outputOk>>
     ELSE \/ /\ ~NotWritten
             /\ native' = [file |-> NativeFile, hash |-> hashed]
             /\ UNCHANGED outputOk
          \/ outputOk' = FALSE /\ UNCHANGED native
  /\ UNCHANGED <<request, document, input, seed, outcome, checkpoint, exit>>

CheckpointOf(o) ==
  [of |-> o,
   fields |-> CheckpointFile(o.snapshot, o.params, CheckpointLayout(o.snapshot.lasym)),
   layout |-> CheckpointLayout(o.snapshot.lasym)]

WriteCheckpoint ==
  /\ pc = "checkpoint" /\ pc' = "boozer"
  /\ IF ~options.checkpoint THEN UNCHANGED <<checkpoint, outputOk>>
     ELSE \/ checkpoint' = CheckpointOf(outcome) /\ UNCHANGED outputOk
          \/ outputOk' = FALSE /\ UNCHANGED checkpoint
  /\ UNCHANGED <<request, document, input, seed, outcome, native, exit>>

(* The Boozer transform may throw; then the exit status.                     *)
Finish ==
  /\ pc = "boozer"
  /\ \E ok \in (IF options.boozer = "no" THEN {TRUE} ELSE BOOLEAN) :
       /\ outputOk' = (outputOk /\ ok)
       /\ Exit(IF outputOk' /\ outcome.status = "converged" THEN "success"
                                                            ELSE "failure")
  /\ UNCHANGED <<request, document, input, seed, outcome, files>>

-----------------------------------------------------------------------------
(* The user.                                                                 *)

(* Results are put away, checkpoints are kept.                               *)
NextJob ==
  /\ pc = "exited" /\ job < MaxJobs
  /\ pc' = "options" /\ job' = job + 1
  /\ \E later \in LaterJobs : document' = later.document /\ options' = later.options
  /\ hashed' = NoDocument /\ consumed' = NoDocument /\ problem' = NoProblem
  /\ seed' = NoSeed /\ outcome' = NoOutcome
  /\ native' = [file |-> NoFile, hash |-> NoDocument]
  /\ outputOk' = TRUE /\ exit' = "none"
  /\ UNCHANGED checkpoint

(* At any time, but it only matters before the last step that reads the path *)
(* and after the first: a job starts with any document.                      *)
ReplaceInput ==
  /\ pc = "parse"
  /\ document' \in Replacements
  /\ UNCHANGED <<pc, request, input, seed, outcome, files, outputOk, exit>>

(* A copy of a checkpoint that stops after some of its fields.               *)
InterruptCopy ==
  /\ pc = "restart"
  /\ \E n \in 0 .. Len(checkpoint.fields) - 1 :
       checkpoint' = [checkpoint EXCEPT !.fields = SubSeq(@, 1, n)]
  /\ UNCHANGED <<pc, request, document, input, seed, outcome, native, outputOk, exit>>

Next ==
  \/ CheckOptions \/ HashInput \/ ParseInput \/ ReadRestart \/ Solve
  \/ WriteNative \/ WriteCheckpoint \/ Finish
  \/ NextJob \/ ReplaceInput \/ InterruptCopy

Spec == Init /\ [][Next]_vars

-----------------------------------------------------------------------------
Solved == pc \in {"native", "checkpoint", "boozer"}

(* What the solver takes for granted of a problem.                           *)
Solvable(p) ==
  /\ p.stages # <<>>
  /\ \A g \in DOMAIN p.stages :
       /\ p.stages[g].ns >= MinSurfaces /\ p.stages[g].niter >= 1
       /\ g > 1 => p.stages[g - 1].ns < p.stages[g].ns
  /\ p.rbc # {} /\ p.zbs \cup p.zbc # {} /\ p.axis = "fit"
  /\ p.free => p.extcur /\ (p.mgrid <=> ~p.coils)
  /\ ~p.lasym => p.zbc = {} /\ ~p.complement
  /\ options.newton => ~p.free /\ p.flat /\ ~p.lasym /\ DoubleBuild

(* A problem that is solved says what the document that was read says: a     *)
(* value the reader could not use never ends as its default, no stage is     *)
(* dropped because one of the three arrays is shorter, no harmonic is lost   *)
(* but those outside the resolution, no key is ignored unless asked; and the *)
(* problem is one the solver can be given.                                   *)
SolvedAsWritten ==
  Solved =>
    /\ consumed.form = "object"
    /\ problem.scalar = (IF consumed.scalar = "absent" THEN "default"
                                                       ELSE consumed.scalar)
    /\ \/ /\ \A k \in Arrays : consumed[k].kind = "absent"
          /\ problem.stages = <<DefaultStage>>
       \/ \A k \in Arrays : /\ consumed[k].kind = "array"
                            /\ consumed[k].of = [g \in 1 .. Grids |-> problem.stages[g][k]]
    /\ \A k \in {"rbc", "zbs", "zbc"} : problem[k] = consumed[k] \ {"outside"}
    /\ consumed.unknown => options.compatibility
    /\ problem.embedded = consumed.embedded
    /\ Solvable(problem)

(* The problem that was solved, written as an input of its own, is the input *)
(* of the same problem: nothing that validation resolved, padded or left out *)
(* is lost or refused when it is read back, however strict the reader is.    *)
WrittenSpecReadsBack ==
  pc = "native" =>
    LET r == ReadAndValidate(WrittenSpec(problem), TRUE)
    IN  r.ok /\ r.problem = problem

(* A run asked to restart never starts cold: it starts from the state of one *)
(* file that a run published whole, of this grid and this symmetry, though   *)
(* the copy may have been interrupted; its boundary row is the input's just  *)
(* when the boundary is fixed.                                               *)
RestartSeedsPublished ==
  Solved /\ options.restart =>
    /\ seed.from = "checkpoint"
    /\ seed.boundary = (IF problem.free THEN "checkpoint" ELSE "input")
    /\ pc = "native" =>
         LET s == checkpoint.of.snapshot
         IN  /\ s.ns = FirstStage.ns /\ s.lasym = problem.lasym
             /\ seed.families = [c \in 1 .. Components(problem.lasym) |-> <<s.state, c>>]

CheckpointReads(f) ==
  \A asked \in BOOLEAN :
    LET r == ReadCheckpoint(f.fields, asked)
    IN  /\ r.ok => /\ StateIs(r, f.of.snapshot)
                   /\ asked => RecordIs(r, f.of.params, f.layout)
        /\ Released(f) /\ f.layout.version # 7
             /\ f.fields = CheckpointFile(f.of.snapshot, f.of.params, f.layout) => r.ok

BinaryReads(f) ==
  \A asked \in BOOLEAN :
    LET r == ReadBinary(f.fields, asked)
    IN  /\ r.ok => /\ StateIs(r, f.of.snapshot)
                   /\ asked => /\ ReportIs(r, f.of.report)
                               /\ RecordIs(r, f.of.params, f.layout)
        /\ Len(f.fields) > 0 /\ ~(asked /\ f.layout.version = 9) => r.ok

(* Binary results of earlier releases, which knew no asymmetric ones but v9. *)
LegacyBinary(o, v) ==
  [of |-> o, layout |-> LegacyBinaries[v],
   fields |-> BinaryFile(o.snapshot, o.params, o.report, LegacyBinaries[v])]

LegacyReads(o) ==
  \A v \in DOMAIN LegacyBinaries :
    (o.snapshot.lasym => v = 9) => BinaryReads(LegacyBinary(o, v))

ReadNamed(format, f, asked) ==
  IF format = "nc" THEN ReadNetcdf(f, asked) ELSE ReadHdf5(f, asked)

(* The same for the formats whose arrays have names, of any release.         *)
NamedReads(o) ==
  \A format \in {"nc", "h5"}, layout \in NamedLayouts, asked \in BOOLEAN :
    LET f == NamedFile(format, o, layout)
        r == ReadNamed(format, f, asked)
    IN  /\ ~Refused(f) /\ r.ok =>
             NamedAgrees(r, o.snapshot, o.params, o.report, layout, asked)
        /\ ~Refused(f) /\ ~asked => r.ok
        /\ ~Refused(f) /\ ~o.params.lasym => r.ok

(* Whatever a reader accepts from a file that some release wrote, whole or   *)
(* cut short, is what that writer was given: no field is taken for another,  *)
(* although versions add and drop the profile types and the free-boundary    *)
(* extension, and the restarts are those of their stages.  A whole file is   *)
(* accepted but for a checkpoint of version 7, a binary of version 9 when    *)
(* the report and the record are asked for, and a result of an asymmetric    *)
(* problem in a named format when they are.                                  *)
ReadIsWritten ==
  /\ CheckpointReads(checkpoint) /\ BinaryReads(native.file)
  /\ pc = "native" => NamedReads(outcome) /\ LegacyReads(outcome)

(* main.cu:292: "the v1 provenance source_hash must be the hash of the bytes *)
(* the solver actually consumed".  So the hash in a native result is that of *)
(* the document its problem was mapped from, whenever the path is replaced.  *)
(* The bytes are read for the hash and the path is opened again to parse it. *)
HashOfInputSolved == native.hash # NoDocument => native.hash = consumed

(* "--restart" checks the modes: the state a run restarts from is one of its *)
(* own mpol and ntor.  main() and solve() compare the number of modes, which *)
(* other pairs share; the record in the file, which has both, is not read.   *)
RestartKeepsModes ==
  pc = "native" /\ options.restart => checkpoint.of.params.modes = problem.modes

(* docs/output-formats.md: results round trip "through binary, NetCDF, and   *)
(* HDF5", empty lists of harmonics included.  An asymmetric boundary may     *)
(* have Z harmonics of one kind only: the NetCDF writer then needs a second  *)
(* unlimited dimension in a run without restarts and gives up, and the HDF5  *)
(* reader wants a dataset that the writer left out.                          *)
ResultsReadBack ==
  pc = "native" => \A format \in {"nc", "h5"} :
    LET f == NamedFile(format, outcome, CurrentLayout)
    IN  ~Refused(f) /\ ReadNamed(format, f, TRUE).ok
=============================================================================
