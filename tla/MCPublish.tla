----------------------------- MODULE MCPublish -----------------------------
(* Two writers of one path, one of them through a library, and a third in a  *)
(* process started after a crash that drew the process number of the first.  *)
EXTENDS AtomicPublish

MCWriters == {"first", "second", "third"}
MCTemp == [first |-> "tmp.1.0", second |-> "tmp.1.1", third |-> "tmp.1.0"]
=============================================================================
