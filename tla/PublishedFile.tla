--------------------------- MODULE PublishedFile ---------------------------
(* What the writers promise of an output path, without files: the path holds *)
(* one complete version at a time.  A new version replaces the old one in a  *)
(* single step, and a crash leaves the visible version or one that it has    *)
(* replaced since the directory was last synchronized.                       *)
CONSTANT Versions      \* complete versions of the output

VARIABLES
  visible,             \* the version a reader of the path finds
  survivors            \* the versions a crash may leave there

pvars == <<visible, survivors>>

Init == visible \in Versions /\ survivors = {visible}

Replace ==
  /\ visible' \in Versions
  /\ survivors' = survivors \cup {visible'}

Settle ==
  /\ survivors' = {visible}
  /\ UNCHANGED visible

Crash ==
  /\ visible' \in survivors
  /\ survivors' = {visible'}

Next == Replace \/ Settle \/ Crash

Spec == Init /\ [][Next]_pvars
=============================================================================
