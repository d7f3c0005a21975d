--------------------------- MODULE AtomicPublish ---------------------------
(* The protocol of writer_helpers.hpp, by which every writer publishes its   *)
(* output: fill a temporary file of the same directory, fsync and close it,  *)
(* rename it over the path, fsync the directory.  Writers are threads of one *)
(* process or processes; the file system is external, and promises what      *)
(* POSIX does: rename replaces a directory entry at once, and what has not   *)
(* been synchronized may or may not outlive a crash.                         *)
(*                                                                           *)
(* An inode is named after the writer that created it, its content after the *)
(* writer that wrote it: "torn" is anything but one complete output.         *)
EXTENDS FiniteSets

CONSTANTS
  Writers,
  Library,      \* those whose file belongs to NetCDF or HDF5 until closed
  Restarted,    \* those of a process started after the crash
  Temp,         \* temp_path_for(): the temporary name of each
  Previous      \* the version in place before

ASSUME PublishAssumption ==
  /\ Library \subseteq Writers
  /\ Restarted \subseteq Writers
  /\ Previous \notin Writers
  /\ {"torn", "none"} \cap (Writers \cup {Previous}) = {}

VARIABLES
  pc,           \* where each writer is
  file,         \* the inode it has opened
  temps,        \* the inode behind each temporary name
  path,         \* the inode behind the output path
  entries,      \* the inodes a crash may leave behind the path
  data,         \* the content a reader of an inode sees
  disk,         \* the content known to be on disk
  crashed,      \* the machine has crashed, once
  later         \* history: the writers that renamed after each writer did

vars == <<pc, file, temps, path, entries, data, disk, crashed, later>>

Versions == Writers \cup {Previous}
Inodes == Versions
Contents == Versions \cup {"torn"}
None == "none"
Names == {Temp[w] : w \in Writers}

Busy == {"filling", "reopening", "syncing", "closing", "renaming", "settling"}

TypeOK ==
  /\ pc \in [Writers -> Busy \cup {"idle", "ok", "failed", "dead"}]
  /\ file \in [Writers -> Inodes \cup {None}]
  /\ temps \in [Names -> Inodes \cup {None}]
  /\ path \in Inodes
  /\ entries \subseteq Inodes
  /\ data \in [Inodes -> Contents]
  /\ disk \in [Inodes -> Contents]
  /\ crashed \in BOOLEAN
  /\ later \in [Writers -> SUBSET Writers]

Init ==
  /\ pc = [w \in Writers |-> "idle"]
  /\ file = [w \in Writers |-> None]
  /\ temps = [n \in Names |-> None]
  /\ path = Previous /\ entries = {Previous}
  /\ data = [i \in Inodes |-> IF i = Previous THEN Previous ELSE "torn"]
  /\ disk = data
  /\ crashed = FALSE
  /\ later = [w \in Writers |-> {}]

Goto(w, label) == pc' = [pc EXCEPT ![w] = label]

(* fopen("wb"), NC_CLOBBER, H5F_ACC_TRUNC: a file that exists is truncated,  *)
(* another writer's included; no call site opens with "wx".                  *)
Open(w) ==
  /\ pc[w] = "idle" /\ (w \in Restarted <=> crashed)
  /\ \/ LET i == IF temps[Temp[w]] = None THEN w ELSE temps[Temp[w]]
        IN  /\ temps' = [temps EXCEPT ![Temp[w]] = i]
            /\ file' = [file EXCEPT ![w] = i]
            /\ data' = [data EXCEPT ![i] = "torn"]
            /\ Goto(w, "filling")
     \/ Goto(w, "failed") /\ UNCHANGED <<file, temps, data>>
  /\ UNCHANGED <<path, entries, disk, crashed, later>>

Remove_Not(w) == UNCHANGED temps       \* mutant: the temporary file stays

Remove(w) == temps' = [temps EXCEPT ![Temp[w]] = None]

(* Every failure before the rename removes the temporary file.               *)
Fail(w) ==
  /\ pc[w] \in Busy \ {"settling"}
  /\ Remove(w)
  /\ Goto(w, "failed")
  /\ UNCHANGED <<file, path, entries, data, disk, crashed, later>>

Shared(w) == \E v \in Writers \ {w} : pc[v] \in Busy /\ file[v] = file[w]

(* All bytes are with the operating system: after fflush(), or after the     *)
(* library has closed the file.  Another writer of the inode may have mixed  *)
(* its own among them.                                                       *)
Fill(w) ==
  /\ pc[w] = "filling"
  /\ \E c \in IF Shared(w) THEN {w, "torn"} ELSE {w} :
       data' = [data EXCEPT ![file[w]] = c]
  /\ Goto(w, IF w \in Library THEN "reopening" ELSE "syncing")
  /\ UNCHANGED <<file, temps, path, entries, disk, crashed, later>>

(* publish_library_file() opens the file a second time, by name.             *)
Reopen(w) ==
  /\ pc[w] = "reopening"
  /\ temps[Temp[w]] # None
  /\ file' = [file EXCEPT ![w] = temps[Temp[w]]]
  /\ Goto(w, "syncing")
  /\ UNCHANGED <<temps, path, entries, data, disk, crashed, later>>

Sync_Not(w) ==                         \* mutant: close without fsync
  /\ pc[w] = "syncing"
  /\ Goto(w, "closing")
  /\ UNCHANGED <<file, temps, path, entries, data, disk, crashed, later>>

Sync(w) ==
  /\ pc[w] = "syncing"
  /\ disk' = [disk EXCEPT ![file[w]] = data[file[w]]]
  /\ Goto(w, "closing")
  /\ UNCHANGED <<file, temps, path, entries, data, crashed, later>>

Close(w) ==
  /\ pc[w] = "closing"
  /\ Goto(w, "renaming")
  /\ UNCHANGED <<file, temps, path, entries, data, disk, crashed, later>>

(* The entry is replaced for every reader at once; a crash may undo it.      *)
Rename(w) ==
  /\ pc[w] = "renaming"
  /\ temps[Temp[w]] # None
  /\ path' = temps[Temp[w]]
  /\ temps' = [temps EXCEPT ![Temp[w]] = None]
  /\ entries' = entries \cup {path'}
  /\ later' = [v \in Writers |->
                 IF pc[v] \in {"settling", "ok"} THEN later[v] \cup {w}
                 ELSE later[v]]
  /\ Goto(w, "settling")
  /\ UNCHANGED <<file, data, disk, crashed>>

SyncDirectory_Unchecked(w) ==          \* mutant: the result is ignored
  /\ pc[w] = "settling"
  /\ entries' \in {{path}, entries}
  /\ Goto(w, "ok")
  /\ UNCHANGED <<file, temps, path, data, disk, crashed, later>>

(* A failure of the last fsync is reported, with the new version in place.   *)
SyncDirectory(w) ==
  /\ pc[w] = "settling"
  /\ \/ entries' = {path} /\ Goto(w, "ok")
     \/ entries' \in {{path}, entries} /\ Goto(w, "failed")
  /\ UNCHANGED <<file, temps, path, data, disk, crashed, later>>

(* The process of a writer is killed; the machine goes on.                   *)
Kill(w) ==
  /\ pc[w] \in Busy
  /\ Goto(w, "dead")
  /\ UNCHANGED <<file, temps, path, entries, data, disk, crashed, later>>

(* Content that has not been synchronized may be on disk, in part or in      *)
(* whole; so may a directory entry, and a rename that is undone brings the   *)
(* temporary name back.                                                      *)
AfterCrash(i) ==
  IF data[i] = disk[i] THEN {data[i]} ELSE {data[i], disk[i], "torn"}

UndoneRenames(n) == {w \in Writers : Temp[w] = n /\ w \in entries}

Crash ==
  /\ ~crashed /\ crashed' = TRUE
  /\ path' \in entries /\ entries' = {path'}
  /\ data' \in {d \in [Inodes -> Contents] : \A i \in Inodes : d[i] \in AfterCrash(i)}
  /\ disk' = data'
  /\ temps' \in {t \in [Names -> Inodes \cup {None}] :
                   \A n \in Names :
                     t[n] \in {temps[n], None} \cup (UndoneRenames(n) \ {path'})}
  /\ pc' = [w \in Writers |-> IF pc[w] \in Busy THEN "dead" ELSE pc[w]]
  /\ UNCHANGED <<file, later>>

Next ==
  \/ Crash
  \/ \E w \in Writers :
       \/ Open(w) \/ Fill(w) \/ Reopen(w) \/ Sync(w) \/ Close(w)
       \/ Rename(w) \/ SyncDirectory(w) \/ Fail(w) \/ Kill(w)

Spec == Init /\ [][Next]_vars

-----------------------------------------------------------------------------
(* The path never names a torn file: not while a writer works, and not after *)
(* a crash, whatever the crash leaves behind it.                             *)
PathComplete == \A i \in entries \cup {path} : AfterCrash(i) \subseteq Versions

(* A writer that has returned success is not undone: what the path holds is  *)
(* its version or one published after it, crash or no crash.                 *)
SuccessIsDurable ==
  \A w \in Writers : pc[w] = "ok" =>
    \A i \in entries \cup {path} : data[i] \in {w} \cup later[w]

(* A writer that has returned leaves no temporary file, unless a crash of    *)
(* the machine brings one back.                                              *)
NoLitter ==
  ~crashed => \A w \in Writers : pc[w] \in {"ok", "failed"} => temps[Temp[w]] = None

(* Seen through the path, all of this is one register that changes at once.  *)
P == INSTANCE PublishedFile
       WITH visible <- data[path], survivors <- {data[i] : i \in entries}

PublishedSpec == P!Spec
=============================================================================
