----------------------- MODULE AtomicPublish_proofs ------------------------
(* The publication protocol keeps its promises for any number of writers, as *)
(* long as no two that run at the same time draw the same temporary name.    *)
EXTENDS AtomicPublish, TLAPS

(* The name holds the process number and a counter (writer_helpers.hpp:53).  *)
(* A process started after the crash may draw a number from before it.       *)
(* Open() does not ask whether the file is there, so the rest needs this.    *)
DistinctNames ==
  \A v, w \in Writers :
    /\ Temp[v] = Temp[w]
    /\ v \in Restarted <=> w \in Restarted
    => v = w

(* Its temporary name still leads to the file a writer has opened.           *)
Linked == Busy \ {"settling"}

(* No process outlives the crash, and none starts before its time.           *)
EraInv ==
  \A w \in Writers :
    /\ w \in Restarted /\ ~crashed => pc[w] = "idle"
    /\ w \notin Restarted /\ crashed => pc[w] \notin Busy

(* A writer's file was created under its own temporary name.                 *)
FileInv ==
  \A w \in Writers :
    /\ pc[w] \in Busy => file[w] \in Writers /\ Temp[file[w]] = Temp[w]
    /\ pc[w] \in Linked => temps[Temp[w]] = file[w]

(* A temporary name leads to a file created under it, which is not the one   *)
(* behind the path, nor one that a crash could leave there.                  *)
NameInv ==
  \A n \in Names : temps[n] # None =>
    /\ temps[n] \in Writers /\ Temp[temps[n]] = n
    /\ temps[n] \notin entries

(* A writer that has not started has no file yet.                            *)
UnusedInv ==
  \A w \in Writers : pc[w] = "idle" =>
    w \notin entries /\ \A n \in Names : temps[n] # w

(* What the path leads to, now or after a crash, is complete and on disk.    *)
EntryInv ==
  /\ path \in entries
  /\ \A i \in entries : data[i] = disk[i] /\ data[i] \in Versions

(* What a writer has written is its own, and on disk before the rename.      *)
ContentInv ==
  \A w \in Writers :
    /\ pc[w] \in {"reopening", "syncing"} => data[file[w]] = w
    /\ pc[w] \in {"closing", "renaming"} => data[file[w]] = w /\ disk[file[w]] = w

(* Behind the path is the version of the last to rename.                     *)
DurableInv ==
  \A w \in Writers :
    /\ pc[w] = "ok" => \A i \in entries : data[i] \in {w} \cup later[w]
    /\ pc[w] = "settling" => data[path] \in {w} \cup later[w]

(* A temporary file that is left over belongs to a writer that is at work or *)
(* was killed.                                                               *)
LitterInv ==
  ~crashed => \A n \in Names : temps[n] # None =>
    \E w \in Writers : Temp[w] = n /\ pc[w] \in Linked \cup {"dead"}

PublishInv ==
  /\ TypeOK /\ EraInv /\ FileInv /\ NameInv /\ UnusedInv
  /\ EntryInv /\ ContentInv /\ DurableInv /\ LitterInv

-----------------------------------------------------------------------------
LEMMA PublishInit == Init => PublishInv
<1> SUFFICES ASSUME Init PROVE PublishInv
  OBVIOUS
<1> USE PublishAssumption DEF Init
<1>1. TypeOK
  BY DEF TypeOK, Inodes, Versions, Contents
<1>2. EraInv /\ FileInv /\ ContentInv /\ DurableInv
  BY DEF EraInv, FileInv, Linked, Busy, ContentInv, DurableInv
<1>3. NameInv /\ UnusedInv /\ LitterInv
  BY DEF NameInv, UnusedInv, LitterInv, Names, None
<1>4. EntryInv
  BY DEF EntryInv, Inodes, Versions
<1> QED
  BY <1>1, <1>2, <1>3, <1>4 DEF PublishInv

(* Two writers at work, or one at work and one about to start, do not share  *)
(* a temporary name, and so do not share a file.                             *)
LEMMA Apart ==
  ASSUME DistinctNames, EraInv, NEW v \in Writers, NEW w \in Writers, v # w,
         pc[v] \in Busy,
         pc[w] \in Busy \/ (w \in Restarted <=> crashed)
  PROVE  Temp[v] # Temp[w]
BY DEF DistinctNames, EraInv, Busy

LEMMA Alone ==
  ASSUME DistinctNames, EraInv, FileInv, NEW w \in Writers, pc[w] \in Busy
  PROVE  ~Shared(w)
BY Apart DEF Shared, FileInv

(* The file of a writer before its rename is not one that the path leads to. *)
LEMMA Hidden ==
  ASSUME FileInv, NameInv, NEW w \in Writers, pc[w] \in Linked
  PROVE  /\ Temp[w] \in Names
         /\ file[w] \in Writers /\ file[w] \notin entries
         /\ temps[Temp[w]] = file[w]
<1>1. Temp[w] \in Names
  BY DEF Names
<1>2. file[w] \in Writers /\ temps[Temp[w]] = file[w]
  BY DEF FileInv, Linked, Busy
<1>3. file[w] # None
  BY <1>2, PublishAssumption DEF None
<1> QED
  BY <1>1, <1>2, <1>3 DEF NameInv

LEMMA TypeKept == TypeOK /\ [Next]_vars => TypeOK'
<1> SUFFICES ASSUME TypeOK, [Next]_vars PROVE TypeOK'
  OBVIOUS
<1> USE DEF TypeOK, Goto
<1>0. /\ \A w \in Writers : Temp[w] \in Names /\ w \in Inodes /\ w \in Contents
      /\ "torn" \in Contents
  BY DEF Names, Inodes, Versions, Contents
<1>1. ASSUME NEW w \in Writers, Open(w) PROVE TypeOK'
  BY <1>0, <1>1 DEF Open, Busy
<1>2. ASSUME NEW w \in Writers, Fail(w) \/ Fill(w) \/ Reopen(w) \/ Sync(w) PROVE TypeOK'
  BY <1>0, <1>2 DEF Fail, Remove, Fill, Reopen, Sync, Busy
<1>3. ASSUME NEW w \in Writers, Close(w) \/ SyncDirectory(w) \/ Kill(w) PROVE TypeOK'
  BY <1>0, <1>3 DEF Close, SyncDirectory, Kill, Busy
<1>4. ASSUME NEW w \in Writers, Rename(w) PROVE TypeOK'
  BY <1>0, <1>4 DEF Rename, Busy
<1>5. CASE Crash
  BY <1>0, <1>5 DEF Crash, Busy
<1>6. CASE UNCHANGED vars
  BY <1>6 DEF vars
<1> QED
  BY <1>1, <1>2, <1>3, <1>4, <1>5, <1>6 DEF Next

-----------------------------------------------------------------------------
(* Each step keeps the invariant.                                            *)
LEMMA OpenKeeps ==
  ASSUME DistinctNames, PublishInv, TypeOK', NEW w \in Writers, Open(w)
  PROVE  PublishInv'
<1> USE DEF PublishInv
<1>1. /\ pc[w] = "idle" /\ (w \in Restarted <=> crashed)
      /\ UNCHANGED <<path, entries, disk, crashed, later>>
      /\ pc' = [pc EXCEPT ![w] = "filling"] \/ pc' = [pc EXCEPT ![w] = "failed"]
  BY DEF Open, Goto
<1>2. \A v \in Writers : v # w => pc'[v] = pc[v]
  BY <1>1 DEF TypeOK
<1>3. EraInv'
  BY <1>1, <1>2 DEF EraInv, Busy, TypeOK
<1>4. CASE Goto(w, "failed") /\ UNCHANGED <<file, temps, data>>
  <2>1. pc'[w] = "failed"
    BY <1>4 DEF Goto, TypeOK
  <2>2. FileInv' /\ NameInv' /\ UnusedInv'
    BY <1>1, <1>2, <1>4, <2>1 DEF FileInv, NameInv, UnusedInv, Busy, Linked
  <2>3. EntryInv' /\ ContentInv' /\ DurableInv'
    BY <1>1, <1>2, <1>4, <2>1 DEF EntryInv, ContentInv, DurableInv
  <2>4. LitterInv'
    BY <1>1, <1>2, <1>4, <2>1 DEF LitterInv, Busy, Linked
  <2> QED
    BY <1>3, <2>2, <2>3, <2>4
<1>5. ASSUME NEW i, i = IF temps[Temp[w]] = None THEN w ELSE temps[Temp[w]],
             temps' = [temps EXCEPT ![Temp[w]] = i],
             file' = [file EXCEPT ![w] = i],
             data' = [data EXCEPT ![i] = "torn"],
             Goto(w, "filling")
      PROVE  PublishInv'
  <2>1. pc'[w] = "filling" /\ Temp[w] \in Names
    BY <1>5 DEF Goto, TypeOK, Names
  <2>2. i \in Writers /\ Temp[i] = Temp[w] /\ i \notin entries
    BY <1>1, <1>5, <2>1 DEF NameInv, UnusedInv
  <2>3. /\ file'[w] = i /\ temps'[Temp[w]] = i
        /\ \A v \in Writers : v # w => file'[v] = file[v]
        /\ \A n \in Names : n # Temp[w] => temps'[n] = temps[n]
        /\ \A j \in Inodes : j # i => data'[j] = data[j]
    BY <1>5, <2>1, <2>2 DEF TypeOK
  <2>4. \A v \in Writers : v # w /\ pc[v] \in Busy
          => Temp[v] # Temp[w] /\ Temp[v] \in Names /\ file[v] # i /\ file[v] \in Inodes
    BY <1>1, <2>2, Apart DEF FileInv, Names, Inodes, Versions
  <2>5. FileInv'
    BY <1>2, <2>1, <2>2, <2>3, <2>4 DEF FileInv, Linked, Busy
  <2>6. NameInv'
    BY <1>1, <2>2, <2>3 DEF NameInv
  <2>7. UnusedInv'
    <3> SUFFICES ASSUME NEW v \in Writers, pc'[v] = "idle"
                 PROVE  v \notin entries /\ \A n \in Names : temps'[n] # v
      BY <1>1 DEF UnusedInv
    <3>1. v # w /\ pc[v] = "idle"
      BY <1>2, <2>1
    <3>2. v # i
      BY <1>5, <2>1, <3>1 DEF UnusedInv
    <3> QED
      BY <2>3, <3>1, <3>2 DEF UnusedInv
  <2>8. EntryInv'
    BY <1>1, <2>2, <2>3 DEF EntryInv, TypeOK
  <2>9. ContentInv'
    BY <1>1, <1>2, <2>1, <2>3, <2>4 DEF ContentInv, Busy
  <2>10. DurableInv'
    BY <1>1, <1>2, <2>1, <2>2, <2>3 DEF DurableInv, EntryInv, TypeOK
  <2>11. LitterInv'
    BY <1>1, <1>2, <2>1, <2>3 DEF LitterInv, Linked, Busy
  <2> QED
    BY <1>3, <2>5, <2>6, <2>7, <2>8, <2>9, <2>10, <2>11
<1> QED
  BY <1>4, <1>5 DEF Open

LEMMA FillKeeps ==
  ASSUME DistinctNames, PublishInv, TypeOK', NEW w \in Writers, Fill(w)
  PROVE  PublishInv'
<1> USE DEF PublishInv
<1>1. /\ pc[w] = "filling" /\ pc[w] \in Linked /\ pc[w] \in Busy
      /\ UNCHANGED <<file, temps, path, entries, disk, crashed, later>>
      /\ pc'[w] \in {"reopening", "syncing"}
      /\ \A v \in Writers : v # w => pc'[v] = pc[v]
  BY DEF Fill, Goto, Linked, Busy, TypeOK
<1>2. file[w] \in Writers /\ file[w] \notin entries
  BY <1>1, Hidden
<1>3. /\ data'[file[w]] = w
      /\ \A j \in Inodes : j # file[w] => data'[j] = data[j]
  BY <1>1, <1>2, Alone DEF Fill, TypeOK, Inodes, Versions
<1>4. \A v \in Writers : v # w /\ pc[v] \in Busy
        => file[v] # file[w] /\ file[v] \in Inodes
  BY <1>1, Alone DEF Shared, FileInv, Inodes, Versions
<1>5. EraInv' /\ FileInv' /\ NameInv' /\ UnusedInv'
  BY <1>1 DEF EraInv, FileInv, NameInv, UnusedInv, Busy, Linked
<1>6. EntryInv' /\ DurableInv'
  BY <1>1, <1>2, <1>3 DEF EntryInv, DurableInv, TypeOK
<1>7. ContentInv'
  BY <1>1, <1>3, <1>4 DEF ContentInv, Busy
<1>8. LitterInv'
  BY <1>1 DEF LitterInv, Busy, Linked
<1> QED
  BY <1>5, <1>6, <1>7, <1>8

LEMMA ReopenKeeps ==
  ASSUME DistinctNames, PublishInv, TypeOK', NEW w \in Writers, Reopen(w)
  PROVE  PublishInv'
<1> USE DEF PublishInv
<1>1. /\ pc[w] = "reopening" /\ pc[w] \in Linked
      /\ UNCHANGED <<temps, path, entries, data, disk, crashed, later>>
      /\ pc'[w] = "syncing"
      /\ \A v \in Writers : v # w => pc'[v] = pc[v]
  BY DEF Reopen, Goto, Linked, Busy, TypeOK
<1>2. file' = file
  BY <1>1, Hidden DEF Reopen, TypeOK
<1>3. EraInv' /\ FileInv' /\ NameInv' /\ UnusedInv'
  BY <1>1, <1>2 DEF EraInv, FileInv, NameInv, UnusedInv, Busy, Linked
<1>4. EntryInv' /\ DurableInv' /\ ContentInv'
  BY <1>1, <1>2 DEF EntryInv, DurableInv, ContentInv
<1>5. LitterInv'
  BY <1>1 DEF LitterInv, Busy, Linked
<1> QED
  BY <1>3, <1>4, <1>5

LEMMA SyncKeeps ==
  ASSUME DistinctNames, PublishInv, TypeOK', NEW w \in Writers, Sync(w) \/ Close(w)
  PROVE  PublishInv'
<1> USE DEF PublishInv
<1>1. /\ pc[w] \in {"syncing", "closing"} /\ pc[w] \in Linked /\ pc[w] \in Busy
      /\ UNCHANGED <<file, temps, path, entries, data, crashed, later>>
      /\ pc'[w] \in {"closing", "renaming"}
      /\ \A v \in Writers : v # w => pc'[v] = pc[v]
  BY DEF Sync, Close, Goto, Linked, Busy, TypeOK
<1>2. file[w] \in Inodes /\ file[w] \notin entries
  BY <1>1, Hidden DEF Inodes, Versions
<1>3. /\ disk'[file[w]] = data[file[w]]
      /\ \A j \in Inodes : j # file[w] => disk'[j] = disk[j]
  <2>1. CASE Sync(w)
    BY <1>2, <2>1 DEF Sync, TypeOK
  <2>2. CASE Close(w)
    BY <2>2 DEF Close, ContentInv
  <2> QED
    BY <2>1, <2>2
<1>4. \A v \in Writers : v # w /\ pc[v] \in Busy
        => file[v] # file[w] /\ file[v] \in Inodes
  BY <1>1, Alone DEF Shared, FileInv, Inodes, Versions
<1>5. data[file[w]] = w
  BY <1>1 DEF ContentInv
<1>6. EraInv' /\ FileInv' /\ NameInv' /\ UnusedInv'
  BY <1>1 DEF EraInv, FileInv, NameInv, UnusedInv, Busy, Linked
<1>7. EntryInv' /\ DurableInv'
  BY <1>1, <1>2, <1>3 DEF EntryInv, DurableInv, TypeOK
<1>8. ContentInv'
  BY <1>1, <1>3, <1>4, <1>5 DEF ContentInv, Busy
<1>9. LitterInv'
  BY <1>1 DEF LitterInv, Busy, Linked
<1> QED
  BY <1>6, <1>7, <1>8, <1>9

LEMMA FailKeeps ==
  ASSUME DistinctNames, PublishInv, TypeOK', NEW w \in Writers, Fail(w)
  PROVE  PublishInv'
<1> USE DEF PublishInv
<1>1. /\ pc[w] \in Linked /\ pc[w] \in Busy
      /\ UNCHANGED <<file, path, entries, data, disk, crashed, later>>
      /\ pc'[w] = "failed"
      /\ \A v \in Writers : v # w => pc'[v] = pc[v]
  BY DEF Fail, Goto, Linked, Busy, TypeOK
<1>2. /\ temps'[Temp[w]] = None /\ Temp[w] \in Names
      /\ \A n \in Names : n # Temp[w] => temps'[n] = temps[n]
  BY DEF Fail, Remove, TypeOK, Names
<1>3. \A v \in Writers : v # w /\ pc[v] \in Busy
        => Temp[v] # Temp[w] /\ Temp[v] \in Names
  BY <1>1, Apart DEF Names
<1>4. EraInv' /\ FileInv' /\ NameInv'
  BY <1>1, <1>2, <1>3 DEF EraInv, FileInv, NameInv, Busy, Linked
<1>5. UnusedInv'
  BY <1>1, <1>2, PublishAssumption DEF UnusedInv, None
<1>6. EntryInv' /\ DurableInv' /\ ContentInv'
  BY <1>1 DEF EntryInv, DurableInv, ContentInv
<1>7. LitterInv'
  BY <1>1, <1>2 DEF LitterInv, Busy, Linked
<1> QED
  BY <1>4, <1>5, <1>6, <1>7

LEMMA RenameKeeps ==
  ASSUME DistinctNames, PublishInv, TypeOK', NEW w \in Writers, Rename(w)
  PROVE  PublishInv'
<1> USE DEF PublishInv
<1>1. /\ pc[w] = "renaming" /\ pc[w] \in Linked /\ pc[w] \in Busy
      /\ UNCHANGED <<file, data, disk, crashed>>
      /\ pc'[w] = "settling"
      /\ \A v \in Writers : v # w => pc'[v] = pc[v]
  BY DEF Rename, Goto, Linked, Busy, TypeOK
<1>2. /\ path' = file[w] /\ entries' = entries \cup {file[w]}
      /\ file[w] \in Writers /\ Temp[file[w]] = Temp[w] /\ temps[Temp[w]] = file[w]
  BY <1>1, Hidden DEF Rename, FileInv
<1>3. /\ temps'[Temp[w]] = None /\ Temp[w] \in Names
      /\ \A n \in Names : n # Temp[w] => temps'[n] = temps[n]
  BY DEF Rename, TypeOK, Names
<1>4. \A v \in Writers : v # w /\ pc[v] \in Busy
        => Temp[v] # Temp[w] /\ Temp[v] \in Names
  BY <1>1, Apart DEF Names
<1>5. data[file[w]] = w /\ disk[file[w]] = w
  BY <1>1 DEF ContentInv
<1>6. EraInv' /\ FileInv'
  BY <1>1, <1>3, <1>4 DEF EraInv, FileInv, Busy, Linked
<1>7. NameInv'
  BY <1>1, <1>2, <1>3 DEF NameInv
<1>8. UnusedInv'
  BY <1>1, <1>2, <1>3, PublishAssumption DEF UnusedInv, None
<1>9. EntryInv'
  BY <1>1, <1>2, <1>5 DEF EntryInv, Versions
<1>10. ContentInv'
  BY <1>1 DEF ContentInv
<1>11. DurableInv'
  <2>1. \A v \in Writers :
          /\ pc[v] \in {"settling", "ok"} => later'[v] = later[v] \cup {w}
          /\ later[v] \subseteq later'[v]
    BY DEF Rename
  <2> QED
    BY <1>1, <1>2, <1>5, <2>1 DEF DurableInv
<1>12. LitterInv'
  BY <1>1, <1>3 DEF LitterInv, Busy, Linked
<1> QED
  BY <1>6, <1>7, <1>8, <1>9, <1>10, <1>11, <1>12

LEMMA SyncDirectoryKeeps ==
  ASSUME DistinctNames, PublishInv, TypeOK', NEW w \in Writers, SyncDirectory(w)
  PROVE  PublishInv'
<1> USE DEF PublishInv
<1>1. /\ pc[w] = "settling"
      /\ UNCHANGED <<file, temps, path, data, disk, crashed, later>>
      /\ \/ pc'[w] = "ok" /\ entries' = {path}
         \/ pc'[w] = "failed" /\ entries' \in {{path}, entries}
      /\ \A v \in Writers : v # w => pc'[v] = pc[v]
  BY DEF SyncDirectory, Goto, TypeOK
<1>2. path \in entries /\ entries' \subseteq entries /\ path \in entries'
  BY <1>1 DEF EntryInv
<1>3. EraInv' /\ FileInv' /\ NameInv' /\ UnusedInv'
  BY <1>1, <1>2 DEF EraInv, FileInv, NameInv, UnusedInv, Busy, Linked
<1>4. EntryInv' /\ ContentInv'
  BY <1>1, <1>2 DEF EntryInv, ContentInv
<1>5. DurableInv'
  BY <1>1, <1>2 DEF DurableInv
<1>6. LitterInv'
  BY <1>1 DEF LitterInv, Linked, Busy
<1> QED
  BY <1>3, <1>4, <1>5, <1>6

LEMMA KillKeeps ==
  ASSUME DistinctNames, PublishInv, TypeOK', NEW w \in Writers, Kill(w)
  PROVE  PublishInv'
<1> USE DEF PublishInv
<1>1. /\ pc[w] \in Busy
      /\ UNCHANGED <<file, temps, path, entries, data, disk, crashed, later>>
      /\ pc'[w] = "dead"
      /\ \A v \in Writers : v # w => pc'[v] = pc[v]
  BY DEF Kill, Goto, TypeOK
<1>2. EraInv' /\ FileInv' /\ NameInv' /\ UnusedInv'
  BY <1>1 DEF EraInv, FileInv, NameInv, UnusedInv, Busy, Linked
<1>3. EntryInv' /\ DurableInv' /\ ContentInv'
  BY <1>1 DEF EntryInv, DurableInv, ContentInv
<1>4. LitterInv'
  BY <1>1 DEF LitterInv, Linked, Busy
<1> QED
  BY <1>2, <1>3, <1>4

(* A crash leaves one entry, and undone renames of the others.               *)
LEMMA CrashKeeps ==
  ASSUME DistinctNames, PublishInv, TypeOK', Crash
  PROVE  PublishInv'
<1> USE DEF PublishInv
<1>1. /\ crashed' = TRUE /\ path' \in entries /\ entries' = {path'}
      /\ UNCHANGED <<file, later>> /\ disk' = data'
      /\ ~crashed
  BY DEF Crash
<1>2. \A w \in Writers : pc'[w] = IF pc[w] \in Busy THEN "dead" ELSE pc[w]
  BY DEF Crash
<1>3. \A i \in entries : data'[i] = data[i]
  BY DEF Crash, AfterCrash, EntryInv, TypeOK
<1>4. \A n \in Names :
        temps'[n] \in {temps[n], None} \cup (UndoneRenames(n) \ {path'})
  BY DEF Crash
<1>5. EraInv' /\ FileInv' /\ ContentInv'
  BY <1>1, <1>2 DEF EraInv, FileInv, ContentInv, Busy, Linked
<1>6. NameInv'
  BY <1>1, <1>4 DEF NameInv, UndoneRenames
<1>7. UnusedInv'
  <2> SUFFICES ASSUME NEW w \in Writers, pc'[w] = "idle"
               PROVE  w \notin entries' /\ \A n \in Names : temps'[n] # w
    BY DEF UnusedInv
  <2>1. pc[w] = "idle"
    BY <1>2
  <2>2. w \notin entries /\ w # None
    BY <2>1, PublishAssumption DEF UnusedInv, None
  <2> QED
    BY <1>1, <1>4, <2>1, <2>2 DEF UnusedInv, UndoneRenames
<1>8. EntryInv'
  BY <1>1, <1>3 DEF EntryInv
<1>9. DurableInv'
  BY <1>1, <1>2, <1>3 DEF DurableInv, Busy
<1>10. LitterInv'
  BY <1>1 DEF LitterInv
<1> QED
  BY <1>5, <1>6, <1>7, <1>8, <1>9, <1>10

LEMMA PublishStep ==
  ASSUME DistinctNames, PublishInv, [Next]_vars
  PROVE  PublishInv'
<1>1. TypeOK'
  BY TypeKept DEF PublishInv
<1>2. CASE UNCHANGED vars
  BY <1>2 DEF vars, PublishInv, TypeOK, EraInv, FileInv, NameInv, UnusedInv,
              EntryInv, ContentInv, DurableInv, LitterInv
<1> QED
  BY <1>1, <1>2, OpenKeeps, FillKeeps, ReopenKeeps, SyncKeeps, FailKeeps,
     RenameKeeps, SyncDirectoryKeeps, KillKeeps, CrashKeeps DEF Next

LEMMA PublishInductive == DistinctNames => (Spec => []PublishInv)
<1> SUFFICES ASSUME DistinctNames PROVE Spec => []PublishInv
  OBVIOUS
<1>1. PublishInv /\ [Next]_vars => PublishInv'
  BY PublishStep
<1> QED
  BY <1>1, PublishInit, PTL DEF Spec

-----------------------------------------------------------------------------
(* Type correctness of the protocol.                                         *)
THEOREM PublishTypeCorrect == DistinctNames => (Spec => []TypeOK)
<1>1. PublishInv => TypeOK
  BY DEF PublishInv
<1> QED
  BY <1>1, PublishInductive, PTL

(* A reader of the path, before or after a crash, never finds a torn file.   *)
THEOREM PathStaysComplete == DistinctNames => (Spec => []PathComplete)
<1>1. PublishInv => PathComplete
  BY DEF PublishInv, EntryInv, PathComplete, AfterCrash
<1> QED
  BY <1>1, PublishInductive, PTL

(* publish_*() == ok is final: the version survives a crash, or a later one. *)
THEOREM SuccessLasts == DistinctNames => (Spec => []SuccessIsDurable)
<1>1. PublishInv => SuccessIsDurable
  BY DEF PublishInv, EntryInv, DurableInv, SuccessIsDurable
<1> QED
  BY <1>1, PublishInductive, PTL

(* Whatever call fails, the temporary file of the writer is gone.            *)
THEOREM FailuresCleanUp == DistinctNames => (Spec => []NoLitter)
<1> SUFFICES ASSUME DistinctNames PROVE Spec => []NoLitter
  OBVIOUS
<1>1. PublishInv => NoLitter
  <2> SUFFICES ASSUME PublishInv, ~crashed, NEW w \in Writers,
                      pc[w] \in {"ok", "failed"}, temps[Temp[w]] # None
               PROVE  FALSE
    BY DEF NoLitter
  <2>1. PICK v \in Writers : Temp[v] = Temp[w] /\ pc[v] \in Linked \cup {"dead"}
    BY DEF PublishInv, LitterInv, Names
  <2>2. v \notin Restarted /\ w \notin Restarted
    BY <2>1 DEF PublishInv, EraInv, Linked, Busy
  <2> QED
    BY <2>1, <2>2 DEF DistinctNames, Linked, Busy
<1> QED
  BY <1>1, PublishInductive, PTL

(* The protocol implements one register that changes at once: a rename is    *)
(* the change, the directory's fsync settles it, and nothing else shows.     *)
LEMMA PublishMaps ==
  ASSUME DistinctNames, PublishInv, PublishInv', [Next]_vars
  PROVE  [P!Next]_(P!pvars)
<1> USE DEF PublishInv
<1>1. ASSUME UNCHANGED <<path, entries>>, \A i \in entries : data'[i] = data[i]
      PROVE  UNCHANGED P!pvars
  BY <1>1 DEF EntryInv, P!pvars
<1>2. ASSUME NEW w \in Writers,
             Reopen(w) \/ Sync(w) \/ Close(w) \/ Fail(w) \/ Kill(w)
      PROVE  UNCHANGED P!pvars
  BY <1>1, <1>2 DEF Reopen, Sync, Close, Fail, Kill
<1>3. ASSUME NEW w \in Writers, Open(w) PROVE UNCHANGED P!pvars
  <2>1. pc[w] = "idle" /\ Temp[w] \in Names /\ UNCHANGED <<path, entries>>
    BY <1>3 DEF Open, Names
  <2>2. \A i \in entries : data'[i] = data[i]
    BY <1>3, <2>1 DEF Open, NameInv, UnusedInv, TypeOK
  <2> QED
    BY <1>1, <2>1, <2>2
<1>4. ASSUME NEW w \in Writers, Fill(w) PROVE UNCHANGED P!pvars
  <2>1. pc[w] \in Linked /\ UNCHANGED <<path, entries>>
    BY <1>4 DEF Fill, Linked, Busy
  <2>2. \A i \in entries : data'[i] = data[i]
    BY <1>4, <2>1, Hidden DEF Fill, TypeOK
  <2> QED
    BY <1>1, <2>1, <2>2
<1>5. ASSUME NEW w \in Writers, Rename(w) PROVE P!Next
  <2>1. path' \in entries' /\ entries' = entries \cup {path'} /\ data' = data
    BY <1>5 DEF Rename
  <2>2. data'[path'] \in Versions
    BY <2>1 DEF EntryInv
  <2>3. {data'[i] : i \in entries'} = {data[i] : i \in entries} \cup {data'[path']}
    BY <2>1
  <2> QED
    BY <2>2, <2>3 DEF P!Next, P!Replace
<1>6. ASSUME NEW w \in Writers, SyncDirectory(w) PROVE P!Next \/ UNCHANGED P!pvars
  <2>1. UNCHANGED <<path, data>> /\ entries' \in {{path}, entries}
    BY <1>6 DEF SyncDirectory
  <2>2. CASE entries' = {path}
    BY <2>1, <2>2 DEF P!Next, P!Settle
  <2>3. CASE entries' = entries
    BY <1>1, <2>1, <2>3
  <2> QED
    BY <2>1, <2>2, <2>3
<1>7. ASSUME Crash PROVE P!Next
  <2>1. path' \in entries /\ entries' = {path'} /\ data'[path'] = data[path']
    BY <1>7 DEF Crash, AfterCrash, EntryInv, TypeOK
  <2>2. data'[path'] \in {data[i] : i \in entries}
    BY <2>1
  <2>3. {data'[i] : i \in entries'} = {data'[path']}
    BY <2>1
  <2> QED
    BY <2>2, <2>3 DEF P!Next, P!Crash
<1>8. CASE UNCHANGED vars
  BY <1>1, <1>8 DEF vars
<1> QED
  BY <1>2, <1>3, <1>4, <1>5, <1>6, <1>7, <1>8 DEF Next

(* As long as the names are distinct, publication is that register: a reader *)
(* sees one whole version replaced by another, and a crash undoes none that  *)
(* has been reported.                                                        *)
THEOREM PublicationIsAtomic == DistinctNames => (Spec => PublishedSpec)
<1> SUFFICES ASSUME DistinctNames PROVE Spec => PublishedSpec
  OBVIOUS
<1>1. Init => P!Init
  BY DEF Init, P!Init, Versions, Inodes
<1>2. PublishInv /\ PublishInv' /\ [Next]_vars => [P!Next]_(P!pvars)
  BY PublishMaps
<1> QED
  BY <1>1, <1>2, PublishInductive, PTL DEF Spec, PublishedSpec, P!Spec
=============================================================================
