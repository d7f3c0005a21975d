--------------------------- MODULE MCCommandLine ---------------------------
(* Inputs that each differ from a plain one in a section or two, command     *)
(* lines that each ask for one thing more, and the files that may lie on the *)
(* checkpoint path from earlier releases.                                    *)
EXTENDS CommandLine

None == [kind |-> "absent", of |-> <<>>]
List(s) == [kind |-> "array", of |-> s]

MCPlain ==
  [form |-> "object", scalar |-> "accepted",
   ns |-> List(<<9>>), niter |-> List(<<2>>), ftol |-> List(<<2>>),
   free |-> FALSE, mgrid |-> FALSE, coils |-> FALSE, file |-> FALSE,
   extcur |-> FALSE, embedded |-> "absent", axis |-> "absent",
   lasym |-> FALSE, complement |-> FALSE,
   rbc |-> {"inside"}, zbs |-> {"inside"}, zbc |-> {},
   flat |-> TRUE, modes |-> [mpol |-> 6, ntor |-> 0], unknown |-> FALSE]

With(changes) == changes @@ MCPlain

MCTwoGrids == With([ns |-> List(<<5, 9>>), niter |-> List(<<1, 2>>),
                    ftol |-> List(<<2, 1>>)])
MCAsymmetric == With([lasym |-> TRUE, zbc |-> {"inside"}, complement |-> TRUE])
MCCosineOnly == With([lasym |-> TRUE, zbs |-> {}, zbc |-> {"inside"},
                     complement |-> TRUE])
MCFree == With([free |-> TRUE, coils |-> TRUE, extcur |-> TRUE,
                embedded |-> "fit", file |-> TRUE, flat |-> FALSE])
MCOtherModes == With([modes |-> [mpol |-> 3, ntor |-> 1], flat |-> FALSE])

MCReplacements == {MCAsymmetric}

MCDocuments ==
  {MCPlain, MCTwoGrids, MCAsymmetric, MCCosineOnly, MCFree}
  \cup {With(c) : c \in
         {[form |-> "other"]}
         \cup [scalar : {"absent", "text", "rejected"}]
         \cup [ns : {None, List(<<2>>), List(<<9, 5>>), List(<<Malformed>>),
                     List(<<5, 9>>), [kind |-> "text", of |-> <<>>]}]
         \cup [ns : {None}, niter : {None}, ftol : {None}]
         \cup [niter : {List(<<0>>), List(<<Malformed>>), List(<<2, 2>>)}]
         \cup [ftol : {List(<<0>>), List(<<1>>), List(<<2, 2>>)}]
         \cup [ns : {List(<<5, 9>>), List(<<9, 5>>)}, niter : {List(<<1, -1>>), List(<<2, 2>>)},
               ftol : {List(<<2, 2>>)}]
         \cup [free : {TRUE}, mgrid : BOOLEAN, coils : BOOLEAN, extcur : BOOLEAN,
               embedded : {"absent", "partial", "unfit", "fit"}]
         \cup [axis : {"unfit", "fit"}]
         \cup [lasym : BOOLEAN, complement : BOOLEAN, zbc : {{}, {"inside"}}]
         \cup [rbc : {{}, {"outside"}, {"inside", "outside"}, {"inside", "malformed"}}]
         \cup [zbs : {{}, {"outside"}, {"inside", "malformed"}}]
         \cup [unknown : {TRUE}]}

MCOption ==
  [output |-> "default", boozer |-> "no", restart |-> FALSE, checkpoint |-> TRUE,
   compatibility |-> FALSE, newton |-> FALSE, environment |-> "valid"]

MCOptions ==
  {c @@ MCOption : c \in
     [output : {"default", "nc", "h5", "txt"}]
     \cup [boozer : {"yes", "invalid", "unavailable"}]
     \cup [restart : {TRUE}, checkpoint : BOOLEAN]
     \cup [output : {"bin"}, boozer : {"yes"}]
     \cup [compatibility : {TRUE}] \cup [newton : {TRUE}]
     \cup [environment : {"invalid"}]}

(* Files of an earlier release, one per layout, and a native result that was *)
(* taken for a checkpoint.                                                   *)
Earlier(embedded) ==
  [snapshot |-> [ns |-> 9, modes |-> 6, lasym |-> FALSE, state |-> "earlier",
                 fields |-> "complete"],
   params |-> [lasym |-> FALSE, stages |-> 2, embedded |-> embedded,
               modes |-> MCPlain.modes],
   report |-> <<1, 0>>]

File(o, layout) ==
  [of |-> o, fields |-> CheckpointFile(o.snapshot, o.params, layout),
   named |-> NoArrays, layout |-> layout]

MCForeign ==
  {File(Earlier(e), LegacyCheckpoints[v]) : e \in BOOLEAN, v \in {1, 2, 3, 4, 5, 7}}
  \cup {[of |-> Earlier(FALSE), layout |-> BinaryLayout(FALSE), named |-> NoArrays,
         fields |-> BinaryFile(Earlier(FALSE).snapshot, Earlier(FALSE).params, <<1, 0>>,
                               BinaryLayout(FALSE))]}

Job(d, o, f) == [document |-> d, options |-> o, file |-> f]

MCRestart == [MCOption EXCEPT !.restart = TRUE]

MCFirstJobs ==
  {Job(d, MCOption, NoFile) : d \in MCDocuments}
  \cup {Job(d, o, NoFile) : d \in {MCPlain, MCAsymmetric, MCFree}, o \in MCOptions}
  \cup {Job(With([unknown |-> TRUE]), [MCOption EXCEPT !.compatibility = TRUE], NoFile)}
  \cup {Job(MCTwoGrids, o, NoFile) : o \in {MCOption, [MCOption EXCEPT !.boozer = "yes"]}}
  \cup {Job(d, MCRestart, f) : d \in {MCPlain, MCAsymmetric, MCFree}, f \in MCForeign}

MCLaterJobs ==
  {[document |-> d, options |-> MCRestart] : d \in {MCPlain, MCTwoGrids, MCFree, MCOtherModes}}
=============================================================================
