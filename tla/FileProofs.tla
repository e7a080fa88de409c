----------------------------- MODULE FileProofs -----------------------------
(* Theorems about the files of the backup directory: whose dumps go to a    *)
(* stem, what a COMPLETED row may rely on, what is left in the clear, what  *)
(* a restore reads.                                                         *)
EXTENDS RestoreProofs, CoroutineProofs

-----------------------------------------------------------------------------
(* What one step does to rows, coroutines, requests and files. *)

\* A row is inserted without a path, moved on by its one coroutine, or deleted;
\* only the commit of COMPLETED gives it a path.
LEMMA RowSteps ==
    ASSUME IInv, [Next]_vars, NEW b \in BackupIds
    PROVE  \/ backups'[b] = backups[b]
           \/ /\ backups[b].status = "absent"
              /\ backups'[b].status = "pending"
              /\ backups'[b].path = None
           \/ backups'[b] = NoBackup("deleted")
           \/ \E w \in Workers, s \in Schedules :
                 /\ tasks[w][s].backup = b
                 /\ backups'[b].server = backups[b].server
                 /\ \/ /\ Begin(w, s)
                       /\ backups[b].status = "pending"
                       /\ backups'[b].status = "in_progress"
                       /\ backups'[b].path = backups[b].path
                    \/ /\ Fail(w, s)
                       /\ backups[b].status = "in_progress"
                       /\ backups'[b].status = "failed"
                       /\ backups'[b].path = backups[b].path
                    \/ /\ Complete(w, s)
                       /\ backups[b].status = "in_progress"
                       /\ backups'[b].status = "completed"
                       /\ backups'[b].path = tasks[w][s].path
<1>1. /\ TypeOK /\ TaskShape /\ RowFollowsTask /\ TaskServer /\ BackupHasServer
      /\ backups \in [BackupIds -> Backup] /\ backups[b] \in Backup
  BY DEF IInv, TypeOK, StoreTypeOK
<1>2. ASSUME NEW w \in Workers, NEW s \in Schedules, TaskStep(w, s),
             backups'[b] # backups[b]
      PROVE  \/ InsertRow(w, s)
             \/ /\ tasks[w][s].backup = b
                /\ Begin(w, s) \/ Fail(w, s) \/ Complete(w, s)
  <2>1. ~ (LoadServer(w, s) /\ Present(tasks[w][s].backup) /\ ServerOf[s] \notin servers)
    <3>1. tasks[w][s] \in Task
      BY <1>1 DEF TypeOK, TaskTypeOK
    <3>2. tasks[w][s].pc = "server" => tasks[w][s].backup \in BackupIds
                                         /\ tasks[w][s].backup # None
      BY <1>1, <3>1 DEF Task, TaskShape
    <3>3. QED
      BY <1>1, <3>2 DEF LoadServer, At, TaskServer, BackupHasServer
  <2>2. QED
    BY <1>1, <1>2, <2>1 DEF TaskStep, Fire, InsertRow, LoadRow, LoadServer, Begin,
       Dump, DumpFails, DumpHangs, Compress, Encrypt, Size, Torn, Onward, Raise,
       FileFault, Incomplete, Complete, Fail, Notify, Stale, DbFault, SetStatus,
       storeVars, registry, holds
<1>3. ASSUME NEW w \in Workers, NEW s \in Schedules, InsertRow(w, s),
             backups'[b] # backups[b]
      PROVE  /\ backups[b].status = "absent"
             /\ backups'[b].status = "pending" /\ backups'[b].path = None
  BY <1>1, <1>3 DEF InsertRow, InsertBackup
<1>4. ASSUME NEW w \in Workers, NEW s \in Schedules, tasks[w][s].backup = b,
             Begin(w, s) \/ Fail(w, s) \/ Complete(w, s)
      PROVE  /\ backups'[b].server = backups[b].server
             /\ Begin(w, s) => /\ backups[b].status = "pending"
                              /\ backups'[b].status = "in_progress"
                              /\ backups'[b].path = backups[b].path
             /\ Fail(w, s) => /\ backups[b].status = "in_progress"
                             /\ backups'[b].status = "failed"
                             /\ backups'[b].path = backups[b].path
             /\ Complete(w, s) => /\ backups[b].status = "in_progress"
                                 /\ backups'[b].status = "completed"
                                 /\ backups'[b].path = tasks[w][s].path
  <2>1. backups[b].status \in {"deleted"} \cup RowAt(tasks[w][s].pc) /\ b # None
    BY <1>1, <1>4, StoreAssumption DEF RowFollowsTask
  <2>2. CASE Begin(w, s)
    <3>1. tasks[w][s].pc = "begin" /\ Present(b)
      BY <1>4, <2>2 DEF Begin, At
    <3>2. backups[b].status = "pending"
      <4>1. RowAt(tasks[w][s].pc) = {"pending"}
        BY <3>1 DEF RowAt, Before, During
      <4>2. QED
        BY <2>1, <3>1, <4>1 DEF Present, Live
    <3>3. QED
      BY <1>1, <1>4, <2>2, <3>1, <3>2 DEF Begin, Fail, Complete, At, SetStatus, Backup
  <2>3. CASE Fail(w, s)
    <3>1. tasks[w][s].pc = "fail" /\ Present(b)
      BY <1>4, <2>3 DEF Fail, At
    <3>2. backups[b].status = "in_progress"
      BY <2>1, <3>1 DEF RowAt, Before, During, Present, Live
    <3>3. QED
      BY <1>1, <1>4, <2>3, <3>1, <3>2 DEF Begin, Fail, Complete, At, SetStatus, Backup
  <2>4. CASE Complete(w, s)
    <3>1. tasks[w][s].pc = "commit" /\ Present(b)
      BY <1>4, <2>4 DEF Complete, At
    <3>2. backups[b].status = "in_progress"
      BY <2>1, <3>1 DEF RowAt, Before, During, Present, Live
    <3>3. QED
      BY <1>1, <1>4, <2>4, <3>1, <3>2 DEF Begin, Fail, Complete, At, Backup
  <2>5. QED
    BY <1>4, <2>2, <2>3, <2>4
<1>5. CASE \E w \in Workers : BackupWork(w)
  BY <1>2, <1>3, <1>4, <1>5 DEF BackupWork
<1>6. CASE \E w \in Workers : Crash(w)
  BY <1>6 DEF Crash
<1>7. QED
  BY <1>1, <1>5, <1>6, RowsAndTasksElsewhere

\* A coroutine takes its row at the INSERT and its path at the dump, and keeps
\* both until it ends.
LEMMA TaskPaths ==
    ASSUME TypeOK, [Next]_vars, NEW w \in Workers, NEW s \in Schedules
    PROVE  \/ tasks'[w][s] = tasks[w][s]
           \/ tasks'[w][s] = Idle
           \/ /\ TaskStep(w, s)
              /\ tasks'[w][s].path = tasks[w][s].path
              /\ \/ /\ tasks'[w][s].backup = tasks[w][s].backup
                    /\ tasks[w][s].pc # "insert"
                 \/ /\ tasks[w][s].pc = "insert"
                    /\ tasks'[w][s].backup \in BackupIds
                    /\ backups[tasks'[w][s].backup].status = "absent"
           \/ /\ Dump(w, s)
              /\ tasks'[w][s].path = FileName(w, s)
              /\ tasks'[w][s].backup = tasks[w][s].backup
<1>1. tasks \in [Workers -> [Schedules -> Task]] /\ tasks[w][s] \in Task
  BY DEF TypeOK, TaskTypeOK
<1>2. ASSUME TaskStep(w, s), NEW pc \in Steps, Goto(w, s, pc)
      PROVE  /\ tasks'[w][s].path = tasks[w][s].path
             /\ tasks'[w][s].backup = tasks[w][s].backup
  <2>1. tasks'[w][s] = [tasks[w][s] EXCEPT !.pc = pc]
    BY <1>1, <1>2, GotoTask
  <2>2. QED
    BY <1>1, <2>1 DEF Task
<1>3. ASSUME End(w, s)
      PROVE  tasks'[w][s] = Idle
  BY <1>1, <1>3, EndTask
<1>4. CASE TaskStep(w, s)
  <2>1. CASE InsertRow(w, s)
    <3>1. ASSUME NEW b \in BackupIds, InsertBackup(b, ServerOf[s], TypeOf[s]),
                 tasks' = [tasks EXCEPT ![w][s].pc = "load", ![w][s].backup = b]
          PROVE  /\ tasks'[w][s].path = tasks[w][s].path
                 /\ tasks'[w][s].backup = b /\ backups[b].status = "absent"
      BY <1>1, <3>1 DEF Task, InsertBackup
    <3>2. QED
      BY <1>3, <1>4, <2>1, <3>1 DEF InsertRow, At
  <2>2. CASE Dump(w, s)
    BY <1>1, <2>2 DEF Dump, Task
  <2>3. CASE \/ Fire(w, s) \/ LoadRow(w, s) \/ Begin(w, s) \/ DumpFails(w, s)
             \/ DumpHangs(w, s) \/ Compress(w, s) \/ Encrypt(w, s) \/ Size(w, s)
             \/ Torn(w, s) \/ FileFault(w, s) \/ Complete(w, s) \/ Fail(w, s)
    <3>1. tasks[w][s].pc # "insert" \/ UNCHANGED tasks
      BY <2>3 DEF Fire, Running, LoadRow, Begin, DumpFails, DumpHangs, Compress,
         Encrypt, Size, Torn, FileFault, Incomplete, Complete, Fail, At
    <3>2. \/ UNCHANGED tasks
          \/ End(w, s)
          \/ \E pc \in Steps : Goto(w, s, pc)
      BY <2>3 DEF Fire, LoadRow, Begin, DumpFails, DumpHangs, Compress, Encrypt,
         Size, Torn, Onward, Raise, FileFault, Complete, Fail, Steps
    <3>3. QED
      BY <1>2, <1>3, <1>4, <3>1, <3>2
  <2>4. CASE Notify(w, s) \/ Stale(w, s) \/ DbFault(w, s)
    BY <1>3, <2>4 DEF Notify, Stale, DbFault
  <2>6. CASE LoadServer(w, s)
    <3>1. ASSUME NEW n, tasks' = [tasks EXCEPT ![w][s].pc = "begin", ![w][s].name = n]
          PROVE  /\ tasks'[w][s].path = tasks[w][s].path
                 /\ tasks'[w][s].backup = tasks[w][s].backup
      BY <1>1, <3>1 DEF Task
    <3>2. QED
      BY <1>3, <1>4, <2>6, <3>1 DEF LoadServer, At
  <2>5. QED
    BY <1>4, <2>1, <2>2, <2>3, <2>4, <2>6 DEF TaskStep
<1>5. CASE \E u \in Workers : BackupWork(u)
  BY <1>4, <1>5, TaskOthers DEF BackupWork
<1>6. ASSUME NEW u \in Workers, Crash(u)
      PROVE  tasks'[w][s] = tasks[w][s] \/ tasks'[w][s] = Idle
  BY <1>1, <1>6 DEF Crash
<1>7. QED
  BY <1>4, <1>5, <1>6, RowsAndTasksElsewhere DEF taskVars

\* A request that names a file read the row of one backup, which named it.
LEMMA RequestPaths ==
    ASSUME TypeOK, [Next]_vars, NEW h \in Handlers
    PROVE  \/ requests'[h] = requests[h]
           \/ requests'[h] = NoRequest
           \/ /\ DeleteUnlink(h)
              /\ requests[h].pc = "unlink" /\ requests'[h].pc = "erase"
              /\ requests'[h].ids = requests[h].ids
              /\ requests'[h].path = requests[h].path
           \/ \E b \in BackupIds : /\ DeleteSelect(h, b)
                                   /\ requests[h].pc = "idle"
                                   /\ Present(b) /\ UNCHANGED storeVars
                                   /\ requests'[h].pc = "unlink"
                                   /\ requests'[h].ids = {b}
                                   /\ requests'[h].path = backups[b].path
           \/ /\ requests[h].pc = "idle" /\ requests'[h].path = None
<1>1. requests \in [Handlers -> Request] /\ requests[h] \in Request
  BY DEF TypeOK, RoutesTypeOK
<1>2. ASSUME NEW g \in Handlers, DeleteStep(g)
      PROVE  \/ requests'[h] = requests[h]
             \/ requests'[h] = NoRequest
             \/ /\ DeleteUnlink(h)
                /\ requests[h].pc = "unlink" /\ requests'[h].pc = "erase"
                /\ requests'[h].ids = requests[h].ids
                /\ requests'[h].path = requests[h].path
  BY <1>1, <1>2 DEF DeleteStep, DeleteUnlink, DeleteCommit, RequestFault, Request
<1>3. ASSUME NEW g \in Handlers, NEW b \in BackupIds, DeleteSelect(g, b)
      PROVE  \/ requests'[h] = requests[h]
             \/ /\ DeleteSelect(h, b)
                /\ requests[h].pc = "idle"
                /\ Present(b) /\ UNCHANGED storeVars
                /\ requests'[h].pc = "unlink"
                /\ requests'[h].ids = {b}
                /\ requests'[h].path = backups[b].path
  BY <1>1, <1>3 DEF DeleteSelect
<1>4. ASSUME NEW g \in Handlers, NEW B, BatchSelect(g, B)
      PROVE  \/ requests'[h] = requests[h]
             \/ requests[h].pc = "idle" /\ requests'[h].path = None
  BY <1>1, <1>4 DEF BatchSelect
<1>5. CASE BackupApi
  BY <1>2, <1>3, <1>4, <1>5 DEF BackupApi, CreateBackup, RunScheduledBackup
<1>6. CASE ~ BackupApi
  <2>1. UNCHANGED requests
    BY <1>6 DEF Next, Operator, Clock, RestoreApi, CreateSelect, CreationStep,
       CreateInsert, CreatePush, CreationFault, BackupWork, RestoreStep, PopRestore,
       SelectBackup, SelectServer, BeginRestore, Decrypt, Decompress,
       DecompressFails, LRaise, Apply, ApplyHangs, CompleteRestore, NotifyRestore,
       FailRestore, RestoreDbFault, Crash, elsewhere, vars
  <2>2. QED
    BY <2>1
<1>7. QED
  BY <1>5, <1>6

\* The files of one stem at a time, and in which way.
Writes(p, f) == /\ p \in Stems /\ disk'[p] = f
                /\ \A q \in Stems : q # p => disk'[q] = disk[q]

LEMMA PutWrites ==
    ASSUME disk \in [Stems -> [Suffixes -> BackupIds \cup {None}]],
           NEW p \in Stems, NEW k, NEW c, PutFile(p, k, c)
    PROVE  Writes(p, [disk[p] EXCEPT ![k] = c])
BY DEF PutFile, Writes

LEMMA MoveWrites ==
    ASSUME disk \in [Stems -> [Suffixes -> BackupIds \cup {None}]],
           NEW p \in Stems, NEW j \in Suffixes, NEW k \in Suffixes, j # k,
           MoveFile(p, j, k)
    PROVE  Writes(p, [disk[p] EXCEPT ![k] = disk[p][j], ![j] = None])
BY DEF MoveFile, Writes

\* Any of the stem's files may be gone, as it was or written by the coroutine;
\* the archive is not removed.
Mixed(p, b) ==
    \E x, y, z \in BackupIds \cup {None} :
        /\ x \in {None, b, disk[p]["ldif"]}
        /\ y \in {None, b, disk[p]["gz"]}
        /\ z \in {b, disk[p]["enc"]}
        /\ Writes(p, [disk[p] EXCEPT !["ldif"] = x, !["gz"] = y, !["enc"] = z])

\* What a coroutine does to the files of its stem.
TaskDisk(w, s) ==
    LET p == tasks[w][s].path
        b == tasks[w][s].backup
    IN \/ /\ Dump(w, s)
          /\ Writes(FileName(w, s), [disk[FileName(w, s)] EXCEPT !["ldif"] = b])
       \/ /\ Compress(w, s)
          /\ Writes(p, [disk[p] EXCEPT !["gz"] = disk[p]["ldif"], !["ldif"] = None])
       \/ /\ Encrypt(w, s)
          /\ Writes(p, [disk[p] EXCEPT !["enc"] = disk[p]["gz"], !["gz"] = None])
       \/ Torn(w, s) /\ Mixed(p, b)
       \/ /\ FileFault(w, s) \/ Crash(w)
          /\ \/ /\ At(w, s, "compress")
                /\ Writes(p, [disk[p] EXCEPT !["gz"] = b])
             \/ /\ At(w, s, "encrypt")
                /\ Writes(p, [disk[p] EXCEPT !["enc"] = b])

LEMMA IncompleteWrites ==
    ASSUME IInv, NEW w \in Workers, NEW s \in Schedules, Incomplete(w, s)
    PROVE  LET p == tasks[w][s].path
               b == tasks[w][s].backup
           IN \/ UNCHANGED disk
              \/ At(w, s, "compress") /\ Writes(p, [disk[p] EXCEPT !["gz"] = b])
              \/ At(w, s, "encrypt") /\ Writes(p, [disk[p] EXCEPT !["enc"] = b])
<1> DEFINE p == tasks[w][s].path
           b == tasks[w][s].backup
<1>1. TaskShape /\ disk \in [Stems -> [Suffixes -> BackupIds \cup {None}]]
         /\ tasks[w][s] \in Task
  BY DEF IInv, TypeOK, StoreTypeOK, TaskTypeOK
<1>2. p \in Stems
  BY <1>1 DEF Incomplete, Task, TaskShape
<1>3. \/ UNCHANGED disk
      \/ At(w, s, "compress") /\ PutFile(p, "gz", b)
      \/ At(w, s, "encrypt") /\ PutFile(p, "enc", b)
  BY DEF Incomplete, At
<1>4. QED
  BY <1>1, <1>2, <1>3, PutWrites

LEMMA TornWrites ==
    ASSUME IInv, NEW w \in Workers, NEW s \in Schedules, Torn(w, s)
    PROVE  TaskDisk(w, s)
<1> DEFINE p == tasks[w][s].path
           b == tasks[w][s].backup
           File == BackupIds \cup {None}
<1>1. /\ disk \in [Stems -> [Suffixes -> File]] /\ met \subseteq Stems
      /\ tasks[w][s] \in Task
  BY DEF IInv, TypeOK, StoreTypeOK, TaskTypeOK
<1>2. p \in Stems /\ b \in File
  BY <1>1 DEF Torn, Task
<1>3. disk[p] \in [Suffixes -> File] /\ {"ldif", "gz", "enc"} = Suffixes
  BY <1>1, <1>2 DEF Suffixes
<1> DEFINE F(x, y, z) == [disk[p] EXCEPT !["ldif"] = x, !["gz"] = y, !["enc"] = z]
<1>4. PICK x \in {None, b, disk[p]["ldif"]}, y \in {None, b, disk[p]["gz"]},
           z \in {b, disk[p]["enc"]} :
         disk' = [disk EXCEPT ![p] = F(x, y, z)]
  <2>1. ASSUME NEW x \in {None, b, disk[p]["ldif"]}, NEW y \in {None, b, disk[p]["gz"]},
               disk' = [disk EXCEPT ![p]["ldif"] = x, ![p]["gz"] = y]
        PROVE  disk' = [disk EXCEPT ![p] = F(x, y, disk[p]["enc"])]
    <3>1. [disk[p] EXCEPT !["ldif"] = x, !["gz"] = y] = F(x, y, disk[p]["enc"])
      BY <1>3
    <3>2. disk' = [disk EXCEPT ![p] = [disk[p] EXCEPT !["ldif"] = x, !["gz"] = y]]
      BY <1>1, <1>2, <2>1
    <3>3. QED
      BY <3>1, <3>2
  <2>2. ASSUME NEW y \in {None, b, disk[p]["gz"]},
               disk' = [disk EXCEPT ![p]["gz"] = y, ![p]["enc"] = b]
        PROVE  disk' = [disk EXCEPT ![p] = F(disk[p]["ldif"], y, b)]
    <3>1. [disk[p] EXCEPT !["gz"] = y, !["enc"] = b] = F(disk[p]["ldif"], y, b)
      BY <1>3
    <3>2. disk' = [disk EXCEPT ![p] = [disk[p] EXCEPT !["gz"] = y, !["enc"] = b]]
      BY <1>1, <1>2, <2>2
    <3>3. QED
      BY <3>1, <3>2
  <2>3. ASSUME NEW y \in {None, b, disk[p]["gz"]}, PutFile(p, "gz", y)
        PROVE  disk' = [disk EXCEPT ![p] = F(disk[p]["ldif"], y, disk[p]["enc"])]
    <3>1. [disk[p] EXCEPT !["gz"] = y] = F(disk[p]["ldif"], y, disk[p]["enc"])
      BY <1>3
    <3>2. disk' = [disk EXCEPT ![p] = [disk[p] EXCEPT !["gz"] = y]]
      BY <1>1, <1>2, <2>3 DEF PutFile
    <3>3. QED
      BY <3>1, <3>2
  <2> HIDE DEF F
  <2>4. QED
    BY <2>1, <2>2, <2>3 DEF Torn
<1>5. x \in File /\ y \in File
  BY <1>2, <1>3
<1>6. Writes(p, F(x, y, z))
  <2> HIDE DEF F
  <2>1. QED
    BY <1>1, <1>2, <1>4 DEF Writes
<1>7. z \in File
  BY <1>2, <1>3
<1>8. QED
  BY <1>4, <1>5, <1>6, <1>7 DEF TaskDisk, Mixed

LEMMA DiskSteps ==
    ASSUME IInv, [Next]_vars
    PROVE  \/ UNCHANGED disk
           \/ \E w \in Workers, s \in Schedules : TaskDisk(w, s)
           \/ \E h \in Handlers :
                 LET p == requests[h].path IN
                 /\ DeleteUnlink(h)
                 /\ Writes(p, [disk[p] EXCEPT !["enc"] = None])
           \/ \E w \in Workers :
                 LET p == loops[w].path IN
                 \/ /\ Decrypt(w)
                    /\ Writes(p, [disk[p] EXCEPT !["gz"] = disk[p]["enc"]])
                 \/ /\ Decompress(w) \/ DecompressFails(w)
                    /\ Writes(p, [disk[p] EXCEPT !["ldif"] = disk[p]["gz"]])
<1>1. /\ TypeOK /\ TaskShape /\ RestoreShape
      /\ disk \in [Stems -> [Suffixes -> BackupIds \cup {None}]]
  BY DEF IInv, TypeOK, StoreTypeOK
<1>2. ASSUME NEW w \in Workers, NEW s \in Schedules, TaskStep(w, s)
      PROVE  UNCHANGED disk \/ TaskDisk(w, s)
  <2> DEFINE p == tasks[w][s].path
             b == tasks[w][s].backup
  <2>1. tasks[w][s].pc \in {"compress", "encrypt"} => p \in Stems
    <3>1. tasks[w][s] \in Task
      BY <1>1 DEF TypeOK, TaskTypeOK
    <3>2. QED
      BY <1>1, <3>1 DEF Task, TaskShape
  <2>2. CASE Dump(w, s)
    <3>1. PutFile(FileName(w, s), "ldif", b) /\ FileName(w, s) \in Stems
      BY <1>1, <2>2, FileNameType DEF Dump, At, TaskShape
    <3>2. QED
      BY <1>1, <2>2, <3>1, PutWrites DEF TaskDisk
  <2>3. CASE Compress(w, s)
    <3>1. UNCHANGED disk \/ MoveFile(p, "ldif", "gz")
      BY <2>3 DEF Compress
    <3>2. p \in Stems /\ "ldif" \in Suffixes /\ "gz" \in Suffixes
      BY <2>1, <2>3 DEF Compress, At, Suffixes
    <3>3. QED
      BY <1>1, <2>3, <3>1, <3>2, MoveWrites DEF TaskDisk
  <2>4. CASE Encrypt(w, s)
    <3>1. UNCHANGED disk \/ MoveFile(p, "gz", "enc")
      BY <2>4 DEF Encrypt
    <3>2. p \in Stems /\ "gz" \in Suffixes /\ "enc" \in Suffixes
      BY <2>1, <2>4 DEF Encrypt, At, Suffixes
    <3>3. QED
      BY <1>1, <2>4, <3>1, <3>2, MoveWrites DEF TaskDisk
  <2>5. CASE FileFault(w, s)
    BY <2>5, IncompleteWrites DEF FileFault, TaskDisk
  <2>6. CASE Torn(w, s)
    BY <2>6, TornWrites
  <2>7. CASE \/ Fire(w, s) \/ InsertRow(w, s) \/ LoadRow(w, s) \/ LoadServer(w, s)
             \/ Begin(w, s) \/ DumpFails(w, s) \/ DumpHangs(w, s) \/ Size(w, s)
             \/ Complete(w, s) \/ Fail(w, s) \/ Notify(w, s) \/ Stale(w, s)
             \/ DbFault(w, s)
    BY <2>7 DEF Fire, InsertRow, LoadRow, LoadServer, Begin, DumpFails, DumpHangs,
       Size, Complete, Fail, Notify, Stale, DbFault, storeVars
  <2>8. QED
    BY <1>2, <2>2, <2>3, <2>4, <2>5, <2>6, <2>7 DEF TaskStep
<1>3. ASSUME NEW h \in Handlers, DeleteStep(h)
      PROVE  \/ UNCHANGED disk
             \/ /\ DeleteUnlink(h)
                /\ Writes(requests[h].path,
                          [disk[requests[h].path] EXCEPT !["enc"] = None])
  <2>1. requests[h].path \in Stems \cup {None}
    <3>1. requests[h] \in Request
      BY <1>1 DEF TypeOK, RoutesTypeOK
    <3>2. QED
      BY <3>1 DEF Request
  <2>2. \/ UNCHANGED disk
        \/ /\ DeleteUnlink(h) /\ requests[h].path # None
           /\ PutFile(requests[h].path, "enc", None)
    BY <1>3 DEF DeleteStep, DeleteUnlink, DeleteCommit, RequestFault
  <2>3. QED
    BY <1>1, <2>1, <2>2, PutWrites
<1>4. ASSUME NEW w \in Workers, RestoreStep(w)
      PROVE  LET p == loops[w].path IN
             \/ UNCHANGED disk
             \/ /\ Decrypt(w)
                /\ Writes(p, [disk[p] EXCEPT !["gz"] = disk[p]["enc"]])
             \/ /\ Decompress(w) \/ DecompressFails(w)
                /\ Writes(p, [disk[p] EXCEPT !["ldif"] = disk[p]["gz"]])
  <2> DEFINE p == loops[w].path
  <2>1. p \in Stems \cup {None} /\ (loops[w].pc = "decompress" => p \in Stems)
    <3>1. loops[w] \in Loop
      BY <1>1 DEF TypeOK, RestoreTypeOK
    <3>2. QED
      BY <1>1, <3>1 DEF Loop, RestoreShape
  <2>2. CASE Decrypt(w)
    <3>1. UNCHANGED disk \/ (p # None /\ PutFile(p, "gz", disk[p]["enc"]))
      BY <2>2 DEF Decrypt, FileAt
    <3>2. QED
      BY <1>1, <2>1, <2>2, <3>1, PutWrites
  <2>3. CASE Decompress(w) \/ DecompressFails(w)
    <3>1. p \in Stems /\ (UNCHANGED disk \/ PutFile(p, "ldif", disk[p]["gz"]))
      BY <2>1, <2>3 DEF Decompress, DecompressFails, LAt
    <3>2. QED
      BY <1>1, <2>3, <3>1, PutWrites
  <2>4. CASE ~ (Decrypt(w) \/ Decompress(w) \/ DecompressFails(w))
    BY <1>4, <2>4 DEF RestoreStep, PopRestore, SelectBackup, SelectServer,
       BeginRestore, Apply, ApplyHangs, CompleteRestore, NotifyRestore, FailRestore,
       RestoreDbFault, storeVars, registry, holds
  <2>5. QED
    BY <2>2, <2>3, <2>4
<1>5. CASE BackupApi
  BY <1>3, <1>5 DEF BackupApi, CreateBackup, RunScheduledBackup, DeleteSelect,
     BatchSelect, storeVars, registry, holds
<1>6. CASE \E w \in Workers : BackupWork(w)
  BY <1>2, <1>6 DEF BackupWork
<1>9. ASSUME NEW w \in Workers, Crash(w)
      PROVE  UNCHANGED disk \/ \E s \in Schedules : TaskDisk(w, s)
  BY <1>9, IncompleteWrites DEF Crash, TaskDisk
<1>7. CASE Operator \/ Clock \/ RestoreApi \/ UNCHANGED vars
  BY <1>7 DEF Operator, CreateSchedule, UpdateSchedule, DeleteSchedule,
     DeleteServer, RenameServer, Edit, Clock, Tick, RestoreApi, CreationStep,
     CreateSelect, CreateInsert, CreatePush, CreationFault, vars, storeVars
<1>8. QED
  BY <1>4, <1>5, <1>6, <1>7, <1>9 DEF Next

-----------------------------------------------------------------------------
(* Who owns a stem. *)

\* The step is a dump of backup b to stem p.
Dumps(b, p) == \E w \in Workers, s \in Schedules :
                   /\ Dump(w, s)
                   /\ tasks[w][s].backup = b /\ FileName(w, s) = p

\* A backup comes to a stem by its dump and in no other way.
LEMMA UsesStep ==
    ASSUME IInv, Fresh, [Next]_vars, NEW b \in BackupIds, NEW p \in Stems,
           Uses(b, p)'
    PROVE  Uses(b, p) \/ Dumps(b, p)
<1>1. /\ TypeOK /\ TaskShape
      /\ disk \in [Stems -> [Suffixes -> BackupIds \cup {None}]]
      /\ p # None /\ b # None
  BY StoreAssumption, PathAssumption DEF IInv, TypeOK, StoreTypeOK
<1>2. ASSUME backups'[b].path = p
      PROVE  Uses(b, p)
  <2>1. backups'[b].path = backups[b].path
        \/ \E w \in Workers, s \in Schedules : /\ tasks[w][s].backup = b
                                               /\ backups'[b].path = tasks[w][s].path
    BY <1>1, <1>2, RowSteps DEF NoBackup
  <2>2. QED
    BY <1>2, <2>1 DEF Uses
<1>3. ASSUME NEW w \in Workers, NEW s \in Schedules,
             tasks'[w][s].backup = b, tasks'[w][s].path = p
      PROVE  Uses(b, p) \/ Dumps(b, p)
  <2>1. tasks[w][s].pc = "insert" => tasks[w][s].path = None
    BY DEF Fresh
  <2>2. \/ tasks[w][s].backup = b /\ tasks[w][s].path = p
        \/ Dump(w, s) /\ FileName(w, s) = p /\ tasks[w][s].backup = b
    BY <1>1, <1>3, <2>1, TaskPaths DEF Idle
  <2>3. QED
    BY <2>2 DEF Uses, Dumps, Dump
<1>4. ASSUME NEW k \in Suffixes, disk'[p][k] = b
      PROVE  Uses(b, p) \/ Dumps(b, p)
  <2>1. \/ \E j \in Suffixes : disk[p][j] = b
        \/ \E w \in Workers, s \in Schedules :
              tasks[w][s].path = p /\ tasks[w][s].backup = b
        \/ Dumps(b, p)
    <3>1. CASE UNCHANGED disk
      BY <1>4, <3>1
    <3>2. ASSUME NEW w \in Workers, NEW s \in Schedules, Dump(w, s),
                 Writes(FileName(w, s), [disk[FileName(w, s)] EXCEPT
                                          !["ldif"] = tasks[w][s].backup])
          PROVE  disk[p][k] = b \/ Dumps(b, p)
      BY <1>1, <1>4, <3>2 DEF Writes, Dumps
    <3>3. ASSUME NEW w \in Workers, NEW s \in Schedules, NEW j \in Suffixes,
                 LET q == tasks[w][s].path IN
                 Writes(q, [disk[q] EXCEPT ![j] = tasks[w][s].backup])
          PROVE  \/ disk[p][k] = b
                 \/ tasks[w][s].path = p /\ tasks[w][s].backup = b
      BY <1>1, <1>4, <3>3 DEF Writes
    <3>4. ASSUME NEW q, NEW i \in Suffixes, NEW j \in Suffixes,
                 \/ Writes(q, [disk[q] EXCEPT ![i] = disk[q][j]])
                 \/ Writes(q, [disk[q] EXCEPT ![i] = disk[q][j], ![j] = None])
                 \/ Writes(q, [disk[q] EXCEPT ![i] = None])
          PROVE  \E l \in Suffixes : disk[p][l] = b
      <4>1. q \in Stems
        BY <3>4 DEF Writes
      <4>2. disk[q] \in [Suffixes -> BackupIds \cup {None}]
        BY <1>1, <4>1
      <4>3. disk'[p][k] \in {None} \cup {disk[p][l] : l \in Suffixes}
        BY <3>4, <4>2 DEF Writes
      <4>4. QED
        BY <1>1, <1>4, <4>3
    <3>5. "ldif" \in Suffixes /\ "gz" \in Suffixes /\ "enc" \in Suffixes
      BY DEF Suffixes
    <3>6. ASSUME NEW w \in Workers, NEW s \in Schedules,
                 Mixed(tasks[w][s].path, tasks[w][s].backup)
          PROVE  \/ \E l \in Suffixes : disk[p][l] = b
                 \/ tasks[w][s].path = p /\ tasks[w][s].backup = b
      <4> DEFINE q == tasks[w][s].path
                 c == tasks[w][s].backup
      <4>1. CASE q # p
        BY <1>4, <3>6, <4>1 DEF Writes, Mixed
      <4>2. CASE q = p
        <5>1. disk[p] \in [Suffixes -> BackupIds \cup {None}] /\ disk'[p][k] # None
          BY <1>1, <1>4
        <5>2. disk'[p][k] = c \/ \E l \in Suffixes : disk[p][l] = disk'[p][k]
          BY <3>5, <3>6, <4>2, <5>1 DEF Writes, Mixed, Suffixes
        <5>3. QED
          BY <1>4, <4>2, <5>2
      <4>3. QED
        BY <4>1, <4>2
    <3>7. ASSUME NEW w \in Workers, NEW s \in Schedules, TaskDisk(w, s)
          PROVE  \/ \E j \in Suffixes : disk[p][j] = b
                 \/ tasks[w][s].path = p /\ tasks[w][s].backup = b
                 \/ Dumps(b, p)
      BY <3>2, <3>3, <3>4, <3>5, <3>6, <3>7 DEF TaskDisk
    <3>8. QED
      BY <3>1, <3>4, <3>5, <3>7, DiskSteps
  <2>2. QED
    BY <2>1 DEF Uses
<1>5. ASSUME NEW h \in Handlers, requests'[h].path = p, b \in requests'[h].ids
      PROVE  Uses(b, p)
  <2>1. \/ requests[h].path = p /\ b \in requests[h].ids
        \/ backups[b].path = p
    BY <1>1, <1>5, RequestPaths DEF NoRequest
  <2>2. QED
    BY <2>1 DEF Uses
<1>6. QED
  BY <1>2, <1>3, <1>4, <1>5 DEF Uses

\* A server that remains keeps its name or gets one, which counts it among those
\* that bore it; nothing is struck off.
LEMMA RegistrySteps ==
    ASSUME IInv, [Next]_vars
    PROVE  /\ \A n \in Names : holders[n] \subseteq holders'[n]
           /\ \A v \in servers' : /\ v \in servers
                                  /\ \/ names'[v] = names[v]
                                     \/ v \in holders'[names'[v]]
<1>1. /\ servers \subseteq Servers /\ names \in [Servers -> Names]
      /\ holders \in [Names -> SUBSET Servers]
  BY DEF IInv, TypeOK, StoreTypeOK
<1>2. CASE UNCHANGED registry
  BY <1>2 DEF registry
<1>3. ASSUME NEW v \in Servers, DeleteServer(v)
      PROVE  /\ \A n \in Names : holders[n] \subseteq holders'[n]
             /\ \A u \in servers' : u \in servers /\ names'[u] = names[u]
  BY <1>3 DEF DeleteServer
<1>4. ASSUME NEW v \in Servers, NEW n \in Names, RenameServer(v, n)
      PROVE  /\ \A m \in Names : holders[m] \subseteq holders'[m]
             /\ \A u \in servers' : /\ u \in servers
                                    /\ \/ names'[u] = names[u]
                                       \/ u \in holders'[names'[u]]
  BY <1>1, <1>4 DEF RenameServer
<1>5. ASSUME NEW w \in Workers, NEW s \in Schedules, TaskStep(w, s)
      PROVE  UNCHANGED registry
  BY <1>5 DEF TaskStep, Fire, InsertRow, LoadRow, LoadServer, Begin, Dump, DumpFails,
     DumpHangs, Compress, Encrypt, Size, Torn, FileFault, Complete, Fail, Notify,
     Stale, DbFault, storeVars
<1>6. ASSUME NEW w \in Workers, RestoreStep(w) \/ Crash(w)
      PROVE  UNCHANGED registry
  BY <1>6 DEF RestoreStep, PopRestore, SelectBackup, SelectServer, BeginRestore,
     Decrypt, Decompress, DecompressFails, Apply, ApplyHangs, CompleteRestore,
     NotifyRestore, FailRestore, RestoreDbFault, Crash, storeVars
<1>7. CASE BackupApi \/ RestoreApi \/ Clock \/ UNCHANGED vars
  <2>1. UNCHANGED registry
    BY <1>7 DEF BackupApi, CreateBackup, RunScheduledBackup, DeleteSelect, BatchSelect,
       DeleteStep, DeleteUnlink, DeleteCommit, RequestFault, RestoreApi, CreateSelect,
       CreationStep, CreateInsert, CreatePush, CreationFault, Clock, Tick, storeVars,
       vars
  <2>2. QED
    BY <1>2, <2>1
<1>8. CASE Operator
  <2>1. ASSUME NEW s \in Schedules,
               CreateSchedule(s) \/ UpdateSchedule(s) \/ DeleteSchedule(s)
        PROVE  UNCHANGED registry
    BY <2>1 DEF CreateSchedule, UpdateSchedule, DeleteSchedule, Edit
  <2>2. QED
    BY <1>2, <1>3, <1>4, <1>8, <2>1 DEF Operator
<1>9. QED
  BY <1>2, <1>5, <1>6, <1>7, <1>8 DEF Next, BackupWork

\* A coroutine takes the name when it loads the server, and keeps it.
LEMMA TaskNames ==
    ASSUME TypeOK, [Next]_vars, NEW w \in Workers, NEW s \in Schedules
    PROVE  \/ tasks'[w][s].name = tasks[w][s].name
           \/ tasks'[w][s].name = None
           \/ /\ ServerOf[s] \in servers
              /\ tasks'[w][s].name = names[ServerOf[s]]
<1>1. tasks \in [Workers -> [Schedules -> Task]] /\ tasks[w][s] \in Task
  BY DEF TypeOK, TaskTypeOK
<1>2. ASSUME NEW pc \in Steps, Goto(w, s, pc)
      PROVE  tasks'[w][s].name = tasks[w][s].name
  <2>1. tasks'[w][s] = [tasks[w][s] EXCEPT !.pc = pc]
    BY <1>1, <1>2, GotoTask
  <2>2. QED
    BY <1>1, <2>1 DEF Task
<1>3. ASSUME End(w, s)
      PROVE  tasks'[w][s].name = None
  BY <1>1, <1>3, EndTask DEF Idle
<1>4. CASE TaskStep(w, s)
  <2>1. CASE InsertRow(w, s) \/ Dump(w, s)
    <3>1. ASSUME NEW b, tasks' = [tasks EXCEPT ![w][s].pc = "load", ![w][s].backup = b]
          PROVE  tasks'[w][s].name = tasks[w][s].name
      BY <1>1, <3>1 DEF Task
    <3>2. ASSUME NEW q, tasks' = [tasks EXCEPT ![w][s].pc = "compress", ![w][s].path = q]
          PROVE  tasks'[w][s].name = tasks[w][s].name
      BY <1>1, <3>2 DEF Task
    <3>3. QED
      BY <1>3, <2>1, <3>1, <3>2 DEF InsertRow, Dump
  <2>2. CASE LoadServer(w, s)
    <3>1. ASSUME NEW n, tasks' = [tasks EXCEPT ![w][s].pc = "begin", ![w][s].name = n]
          PROVE  tasks'[w][s].name = n
      BY <1>1, <3>1 DEF Task
    <3>2. QED
      BY <1>3, <2>2, <3>1 DEF LoadServer
  <2>3. CASE \/ Fire(w, s) \/ LoadRow(w, s) \/ Begin(w, s) \/ DumpFails(w, s)
             \/ DumpHangs(w, s) \/ Compress(w, s) \/ Encrypt(w, s) \/ Size(w, s)
             \/ Torn(w, s) \/ FileFault(w, s) \/ Complete(w, s) \/ Fail(w, s)
             \/ Notify(w, s) \/ Stale(w, s) \/ DbFault(w, s)
    <3>1. \/ UNCHANGED tasks
          \/ End(w, s)
          \/ \E pc \in Steps : Goto(w, s, pc)
      BY <2>3 DEF Fire, LoadRow, Begin, DumpFails, DumpHangs, Compress, Encrypt,
         Size, Torn, Onward, Raise, FileFault, Complete, Fail, Notify, Stale, DbFault,
         Steps
    <3>2. QED
      BY <1>2, <1>3, <3>1
  <2>4. QED
    BY <1>4, <2>1, <2>2, <2>3 DEF TaskStep
<1>5. CASE ~ TaskStep(w, s)
  BY <1>5, TaskPaths DEF Idle, TaskStep
<1>6. QED
  BY <1>4, <1>5

LEMMA NameBorneStep ==
    ASSUME IInv, NameBorne, [Next]_vars
    PROVE  NameBorne'
<1>1. /\ TypeOK /\ TypeOK' /\ servers \subseteq Servers /\ servers' \subseteq Servers
      /\ names \in [Servers -> Names]
  BY NextInv DEF IInv, TypeOK, StoreTypeOK
<1>2. \A v \in servers' : v \in holders'[names'[v]]
  BY <1>1, RegistrySteps DEF NameBorne
<1>3. ASSUME NEW w \in Workers, NEW s \in Schedules, tasks'[w][s].name # None
      PROVE  ServerOf[s] \in holders'[tasks'[w][s].name]
  <2>1. tasks'[w][s].name \in Names
    <3>1. tasks'[w][s] \in Task
      BY <1>1 DEF TypeOK, TaskTypeOK
    <3>2. QED
      BY <1>3, <3>1 DEF Task
  <2>2. ServerOf[s] \in holders[tasks'[w][s].name]
    BY <1>1, <1>3, TaskNames DEF NameBorne
  <2>3. QED
    BY <2>1, <2>2, RegistrySteps
<1>4. QED
  BY <1>2, <1>3 DEF NameBorne

\* What a coroutine, a queue loop and the rest do to what a worker holds.
LEMMA TaskHolds ==
    ASSUME IInv, NEW w \in Workers, NEW s \in Schedules, TaskStep(w, s)
    PROVE  \/ UNCHANGED holds
           \/ Release(w)
           \/ \E q \in Stems : Hold(w, q)
<1>1. \/ UNCHANGED holds
      \/ Release(w)
      \/ tasks[w][s].pc = "dump" /\ Hold(w, FileName(w, s))
  BY DEF TaskStep, Fire, InsertRow, LoadRow, LoadServer, Begin, Dump, DumpFails,
     DumpHangs, Compress, Encrypt, Size, Torn, FileFault, Onward, Raise, Complete,
     Fail, Notify, Stale, DbFault, At, storeVars
<1>2. tasks[w][s].pc = "dump" => FileName(w, s) \in Stems
  BY FileNameType DEF IInv, TaskShape
<1>3. QED
  BY <1>1, <1>2

LEMMA LoopHolds ==
    ASSUME IInv, NEW w \in Workers, RestoreStep(w)
    PROVE  \/ UNCHANGED holds
           \/ Release(w)
           \/ \E q \in Stems : Hold(w, q)
<1>1. \/ UNCHANGED holds
      \/ Release(w)
      \/ loops[w].path # None /\ Hold(w, loops[w].path)
  BY DEF RestoreStep, PopRestore, SelectBackup, SelectServer, BeginRestore, Decrypt,
     FileAt, Decompress, DecompressFails, LRaise, Apply, ApplyHangs, CompleteRestore,
     NotifyRestore, FailRestore, RestoreDbFault, storeVars
<1>2. loops[w].path \in Stems \cup {None}
  <2>1. loops[w] \in Loop
    BY DEF IInv, TypeOK, RestoreTypeOK
  <2>2. QED
    BY <2>1 DEF Loop
<1>3. QED
  BY <1>1, <1>2

LEMMA ElsewhereHolds ==
    ASSUME [Next]_vars, ~ \E w \in Workers : BackupWork(w) \/ RestoreStep(w) \/ Crash(w)
    PROVE  UNCHANGED holds
<1>1. CASE Operator \/ Clock \/ UNCHANGED vars
  BY <1>1 DEF Operator, CreateSchedule, UpdateSchedule, DeleteSchedule, DeleteServer,
     RenameServer, Edit, Clock, Tick, storeVars, vars
<1>2. CASE BackupApi \/ RestoreApi
  BY <1>2 DEF BackupApi, CreateBackup, RunScheduledBackup, DeleteSelect, BatchSelect,
     DeleteStep, DeleteUnlink, DeleteCommit, RequestFault, RestoreApi, CreateSelect,
     CreationStep, CreateInsert, CreatePush, CreationFault, storeVars
<1>3. QED
  BY <1>1, <1>2 DEF Next

\* Stems that two workers met in are not forgotten.
LEMMA MetStays ==
    ASSUME IInv, [Next]_vars
    PROVE  met \subseteq met'
<1>1. ASSUME NEW w \in Workers, BackupWork(w) \/ RestoreStep(w) \/ Crash(w)
      PROVE  \/ UNCHANGED holds
             \/ Release(w)
             \/ \E q \in Stems : Hold(w, q)
  BY <1>1, TaskHolds, LoopHolds DEF BackupWork, Crash
<1>2. QED
  BY <1>1, ElsewhereHolds DEF holds, Release, Hold

LEMMA NowSteps ==
    ASSUME [Next]_vars
    PROVE  Clock \/ UNCHANGED now
<1>1. CASE Operator \/ BackupApi \/ RestoreApi \/ UNCHANGED vars
  BY <1>1 DEF Operator, CreateSchedule, UpdateSchedule, DeleteSchedule,
     DeleteServer, RenameServer, Edit, RestoreApi, CreationStep, CreateSelect,
     CreateInsert, CreatePush, CreationFault, vars, storeVars, registry, holds,
     BackupApi, CreateBackup, RunScheduledBackup, DeleteSelect, BatchSelect,
     DeleteStep, DeleteUnlink, DeleteCommit, RequestFault
<1>2. ASSUME NEW w \in Workers, BackupWork(w)
      PROVE  UNCHANGED now
  BY <1>2 DEF BackupWork, TaskStep, Fire, InsertRow, LoadRow, LoadServer, Begin,
     Dump, DumpFails, DumpHangs, Compress, Encrypt, Size, Torn, Onward, Raise,
     FileFault, Incomplete, Complete, Fail, Notify, Stale, DbFault, storeVars,
     registry, holds
<1>3. ASSUME NEW w \in Workers, RestoreStep(w)
      PROVE  UNCHANGED now
  BY <1>3 DEF RestoreStep, PopRestore, SelectBackup, SelectServer, BeginRestore,
     Decrypt, Decompress, DecompressFails, LRaise, Apply, ApplyHangs,
     CompleteRestore, NotifyRestore, FailRestore, RestoreDbFault, storeVars,
     registry, holds
<1>4. ASSUME NEW w \in Workers, Crash(w)
      PROVE  UNCHANGED now
  BY <1>4 DEF Crash
<1>5. QED
  BY <1>1, <1>2, <1>3, <1>4 DEF Next

\* Between two ticks no trigger fires, and a coroutine starts only when one did.
LEMMA DueSteps ==
    ASSUME TypeOK, [Next]_vars, ~ Clock, NEW w \in Workers
    PROVE  /\ due'[w] \subseteq due[w]
           /\ \A s \in Schedules : Fire(w, s) => s \in due[w] /\ s \notin due'[w]
<1>1. due \in [Workers -> SUBSET Schedules]
  BY DEF TypeOK, SchedulingTypeOK
<1>2. ASSUME NEW u \in Workers, NEW r \in Schedules, Fire(u, r)
      PROVE  due'[w] \subseteq due[w] /\ (u = w => r \in due[w] /\ r \notin due'[w])
  BY <1>1, <1>2 DEF Fire
<1>3. ASSUME NEW u \in Workers, NEW r \in Schedules, TaskStep(u, r), ~ Fire(u, r)
      PROVE  UNCHANGED due
  BY <1>3 DEF TaskStep, InsertRow, LoadRow, LoadServer, Begin, Dump, DumpFails,
     DumpHangs, Compress, Encrypt, Size, Torn, Onward, Raise, FileFault, Incomplete,
     Complete, Fail, Notify, Stale, DbFault, schedulingVars
<1>4. ASSUME NEW u \in Workers, Crash(u)
      PROVE  due'[w] \subseteq due[w]
  BY <1>1, <1>4 DEF Crash, Load
<1>5. ASSUME ~ \E u \in Workers : BackupWork(u) \/ Crash(u)
      PROVE  due'[w] \subseteq due[w]
  <2>1. UNCHANGED due
    BY <1>5 DEF Next, Operator, CreateSchedule, UpdateSchedule, DeleteSchedule,
       DeleteServer, RenameServer, Edit, RestoreApi, CreationStep, CreateSelect,
       CreateInsert, CreatePush, CreationFault, vars, schedulingVars, elsewhere,
       BackupApi, CreateBackup, RunScheduledBackup, DeleteSelect, BatchSelect,
       DeleteStep, DeleteUnlink, DeleteCommit, RequestFault, RestoreStep,
       PopRestore, SelectBackup, SelectServer, BeginRestore, Decrypt, Decompress,
       DecompressFails, LRaise, Apply, ApplyHangs, CompleteRestore, NotifyRestore,
       FailRestore, RestoreDbFault
  <2>2. QED
    BY <2>1
<1>6. due'[w] \subseteq due[w]
  BY <1>2, <1>3, <1>4, <1>5 DEF BackupWork
<1>7. QED
  BY <1>2, <1>6

LEMMA DueIdleStep ==
    ASSUME TypeOK, DueIsIdle, [Next]_vars
    PROVE  DueIsIdle'
<1> SUFFICES ASSUME NEW w \in Workers, NEW s \in due'[w], tasks'[w][s].pc # "idle"
             PROVE  FALSE
  BY DEF DueIsIdle, Running
<1>1. tasks \in [Workers -> [Schedules -> Task]] /\ due \in [Workers -> SUBSET Schedules]
  BY DEF TypeOK, TaskTypeOK, SchedulingTypeOK
<1>2. CASE Clock
  BY <1>1, <1>2 DEF Clock, Tick, Running, taskVars
<1>3. CASE ~ Clock
  <2>1. s \in due[w] /\ s \in Schedules /\ ~ Fire(w, s)
    BY <1>1, <1>3, DueSteps
  <2>2. tasks[w][s].pc = "idle"
    BY <2>1 DEF DueIsIdle, Running
  <2>3. ~ (TaskStep(w, s) /\ ~ Fire(w, s))
    BY <2>2 DEF TaskStep, InsertRow, LoadRow, LoadServer, Begin, Dump, DumpFails,
       DumpHangs, Compress, Encrypt, Size, Torn, Onward, Raise, FileFault,
       Incomplete, Complete, Fail, Notify, Stale, DbFault, At
  <2>4. ~ Dump(w, s)
    BY <2>2 DEF Dump, At
  <2>5. tasks'[w][s] \in {tasks[w][s], Idle}
    BY <2>1, <2>3, <2>4, TaskPaths
  <2>6. QED
    BY <2>2, <2>5 DEF Idle
<1>4. QED
  BY <1>2, <1>3

\* A coroutine on its way to the dump was there before, with the same row, or
\* has just inserted it.
LEMMA BeforeSteps ==
    ASSUME TypeOK, [Next]_vars, NEW w \in Workers, NEW s \in Schedules,
           tasks'[w][s].pc \in BeforeDump
    PROVE  \/ /\ tasks[w][s].pc \in BeforeDump
              /\ tasks'[w][s].backup = tasks[w][s].backup
              /\ ~ Dump(w, s)
           \/ /\ tasks[w][s].pc = "insert"
              /\ tasks'[w][s].backup \in BackupIds
              /\ backups[tasks'[w][s].backup].status = "absent"
<1>1. tasks'[w][s].pc \notin {"idle", "insert", "compress", "fail", "hung"}
  BY DEF BeforeDump
<1>2. ASSUME Dump(w, s)
      PROVE  FALSE
  <2>1. TaskStep(w, s) /\ tasks[w][s].pc = "dump"
    BY <1>2 DEF TaskStep, Dump, At
  <2>2. tasks'[w][s].pc \in {"compress", "fail", "hung", "idle"}
    BY <2>1, TaskGoes DEF Idle
  <2>3. QED
    BY <1>1, <2>2
<1>3. CASE tasks'[w][s] = tasks[w][s]
  BY <1>2, <1>3
<1>4. CASE TaskStep(w, s) /\ tasks'[w][s] # tasks[w][s]
  <2>1. tasks[w][s].pc \in BeforeDump \cup {"insert"}
    BY <1>1, <1>4, TaskGoes DEF BeforeDump, Idle
  <2>2. QED
    BY <1>1, <1>2, <1>4, <2>1, TaskPaths DEF Idle, BeforeDump
<1>5. QED
  BY <1>1, <1>2, <1>3, <1>4, TaskPaths DEF Idle

\* The history of the dumps grows by one entry, when a dump writes its file.
LEMMA DumpSteps ==
    ASSUME IInv, [Next]_vars
    PROVE  UNCHANGED dumps \/ \E w \in Workers, s \in Schedules : Dump(w, s)
<1>1. ASSUME NEW w \in Workers, NEW s \in Schedules, TaskStep(w, s)
      PROVE  UNCHANGED dumps \/ Dump(w, s)
  BY <1>1 DEF TaskStep, Fire, InsertRow, LoadRow, LoadServer, Begin, DumpFails,
     DumpHangs, Compress, Encrypt, Size, Torn, FileFault, Complete, Fail, Notify,
     Stale, DbFault
<1>2. CASE \E w \in Workers : BackupWork(w)
  BY <1>1, <1>2 DEF BackupWork
<1>3. CASE \E w \in Workers : Crash(w)
  BY <1>3 DEF Crash
<1>4. QED
  BY <1>2, <1>3, RowsAndTasksElsewhere DEF IInv, taskVars

LEMMA DumpedBy ==
    ASSUME IInv, [Next]_vars, NEW b \in BackupIds, dumps'[b] # dumps[b]
    PROVE  \E w \in Workers, s \in Schedules :
              /\ Dump(w, s)
              /\ tasks[w][s].backup = b /\ tasks[w][s].pc = "dump"
              /\ backups[b].status \in {"in_progress", "deleted"}
              /\ UNCHANGED <<backups, now, due>>
              /\ dumps'[b] = [path |-> FileName(w, s), by |-> <<w, s>>]
              /\ \A c \in BackupIds : c # b => dumps'[c] = dumps[c]
<1>1. TypeOK /\ RowFollowsTask /\ dumps \in [BackupIds -> DumpNote] /\ b # None
  BY StoreAssumption DEF IInv, TypeOK, TaskTypeOK
<1>2. PICK w \in Workers, s \in Schedules : Dump(w, s)
  BY DumpSteps
<1>3. tasks[w][s].backup = b
  BY <1>1, <1>2 DEF Dump, NoteDump
<1>4. tasks[w][s].pc = "dump" /\ UNCHANGED <<backups, now, due>>
  BY <1>2 DEF Dump, At, schedulingVars
<1>5. backups[b].status \in {"in_progress", "deleted"}
  <2>1. RowAt("dump") = {"in_progress"}
    BY DEF RowAt, Before, During
  <2>2. QED
    BY <1>1, <1>3, <1>4, <2>1 DEF RowFollowsTask
<1>6. /\ dumps'[b] = [path |-> FileName(w, s), by |-> <<w, s>>]
      /\ \A c \in BackupIds : c # b => dumps'[c] = dumps[c]
  BY <1>1, <1>2, <1>3 DEF Dump, NoteDump
<1>7. QED
  BY <1>2, <1>3, <1>4, <1>5, <1>6

LEMMA FreshStep ==
    ASSUME IInv, Fresh, [Next]_vars
    PROVE  Fresh'
<1>1. /\ TypeOK /\ TaskShape /\ RowFollowsTask
      /\ \A w \in Workers, s \in Schedules : tasks[w][s] \in Task
  BY DEF IInv, TypeOK, TaskTypeOK
<1>2. ASSUME NEW w \in Workers, NEW s \in Schedules,
             tasks'[w][s].pc \in {"idle", "insert"}
      PROVE  tasks'[w][s].path = None
  <2>1. CASE tasks'[w][s] = tasks[w][s] \/ tasks'[w][s] = Idle
    BY <1>2, <2>1 DEF Fresh, Idle
  <2>2. CASE Dump(w, s)
    BY <1>1, <1>2, <2>2, TaskGoes DEF Dump, At, TaskStep, Idle
  <2>3. CASE TaskStep(w, s) /\ tasks'[w][s].path = tasks[w][s].path
                            /\ tasks'[w][s] # tasks[w][s] /\ tasks'[w][s] # Idle
    <3>1. tasks[w][s].pc \in {"idle", "insert"}
      BY <1>1, <1>2, <2>3, TaskGoes
    <3>2. QED
      BY <2>3, <3>1 DEF Fresh
  <2>4. QED
    BY <1>1, <2>1, <2>2, <2>3, TaskPaths
<1>3. ASSUME NEW w \in Workers, NEW s \in Schedules, tasks'[w][s].pc \in BeforeDump
      PROVE  dumps'[tasks'[w][s].backup] = NoDump
  <2> DEFINE b == tasks'[w][s].backup
  <2>1. CASE /\ tasks[w][s].pc \in BeforeDump
             /\ b = tasks[w][s].backup
             /\ ~ Dump(w, s)
    <3>1. b \in BackupIds /\ b # None
      <4>1. tasks[w][s].backup \in BackupIds \cup {None}
        BY <1>1 DEF Task
      <4>2. tasks[w][s].pc \notin {"idle", "insert"}
        BY <2>1 DEF BeforeDump
      <4>3. QED
        BY <1>1, <2>1, <4>1, <4>2 DEF TaskShape
    <3>2. dumps[b] = NoDump
      BY <2>1 DEF Fresh
    <3>3. ASSUME NEW c \in BackupIds, c = b, dumps'[c] # dumps[c]
          PROVE  FALSE
      <4>1. PICK u \in Workers, r \in Schedules :
                      /\ Dump(u, r) /\ tasks[u][r].backup = c
                      /\ dumps'[c] = [path |-> FileName(u, r), by |-> <<u, r>>]
        BY <3>3, DumpedBy
      <4>2. QED
        BY <1>1, <2>1, <3>1, <3>3, <4>1 DEF RowFollowsTask
    <3>4. QED
      BY <3>1, <3>2, <3>3
  <2>2. CASE b \in BackupIds /\ backups[b].status = "absent"
    BY <2>2, DumpedBy DEF Fresh
  <2>3. QED
    BY <1>1, <1>3, <2>1, <2>2, BeforeSteps
<1>4. ASSUME NEW b \in BackupIds, backups'[b].status \in {"absent", "pending"}
      PROVE  dumps'[b] = NoDump
  <2>1. backups[b].status \in {"absent", "pending"}
    BY <1>4, RowSteps DEF NoBackup
  <2>2. QED
    BY <2>1, DumpedBy DEF Fresh
<1>5. QED
  BY <1>2, <1>3, <1>4 DEF Fresh

\* A backup is dumped once.
LEMMA DumpStays ==
    ASSUME IInv, Fresh, [Next]_vars, NEW b \in BackupIds, dumps[b].path # None
    PROVE  dumps'[b] = dumps[b]
<1> SUFFICES ASSUME dumps'[b] # dumps[b]
             PROVE  FALSE
  OBVIOUS
<1>1. PICK w \in Workers, s \in Schedules :
                /\ tasks[w][s].backup = b /\ tasks[w][s].pc = "dump"
                /\ dumps'[b] = [path |-> FileName(w, s), by |-> <<w, s>>]
  BY DumpedBy
<1>2. QED
  BY <1>1 DEF Fresh, BeforeDump, NoDump

LEMMA ClashStays ==
    ASSUME IInv, Fresh, [Next]_vars, NEW p, Clash(p)
    PROVE  Clash(p)'
BY DumpStays DEF Clash

LEMMA OneStemStep ==
    ASSUME IInv, Fresh, OneStem, [Next]_vars
    PROVE  OneStem'
<1> SUFFICES ASSUME NEW b \in BackupIds, NEW p \in Stems, Uses(b, p)'
             PROVE  dumps'[b].path = p
  BY DEF OneStem
<1>1. dumps \in [BackupIds -> DumpNote] /\ p # None
  BY PathAssumption DEF IInv, TypeOK, TaskTypeOK
<1>2. CASE Uses(b, p)
  BY <1>1, <1>2, DumpStays DEF OneStem
<1>3. CASE Dumps(b, p)
  BY <1>1, <1>3 DEF Dumps, Dump, NoteDump
<1>4. QED
  BY <1>2, <1>3, UsesStep

\* A coroutine that has no trigger waiting and is not on its way to a dump
\* comes back to neither within the second.
LEMMA QuietSecond ==
    ASSUME TypeOK, [Next]_vars, ~ Clock, NEW w \in Workers, NEW s \in Schedules,
           s \notin due[w], tasks[w][s].pc \notin BeforeDump \cup {"insert"}
    PROVE  s \notin due'[w] /\ tasks'[w][s].pc \notin BeforeDump \cup {"insert"}
<1>1. s \notin due'[w] /\ ~ Fire(w, s)
  BY DueSteps
<1>2. tasks'[w][s].pc \notin BeforeDump
  BY BeforeSteps
<1>3. tasks'[w][s].pc # "insert"
  <2>1. CASE TaskStep(w, s)
    BY <1>1, <2>1, TaskGoes DEF Idle
  <2>2. CASE ~ TaskStep(w, s)
    BY <2>2, TaskPaths DEF Idle, TaskStep
  <2>3. QED
    BY <2>1, <2>2
<1>4. QED
  BY <1>1, <1>2, <1>3

LEMMA OneDumpStep ==
    ASSUME IInv, NameBorne, DueIsIdle, Fresh, OneDump, [Next]_vars
    PROVE  OneDump'
<1>1. /\ TypeOK /\ now \in Nat /\ now' \in Nat /\ RowFollowsTask /\ TaskServer
      /\ TaskShape
      /\ dumps' \in [BackupIds -> DumpNote]
  BY NextInv, StoreAssumption DEF IInv, TypeOK, StoreTypeOK, TaskTypeOK
<1> SUFFICES ASSUME NEW b \in BackupIds, NEW p, p = dumps'[b].path, p # None
             PROVE  /\ p.second <= now'
                    /\ \E w \in Workers, s \in Schedules :
                          /\ dumps'[b].by = <<w, s>>
                          /\ ServerOf[s] \in holders'[p.name] /\ TypeOf[s] = p.type
                          /\ \/ backups'[b].status = "deleted"
                             \/ backups'[b].server = ServerOf[s]
                          /\ p.second = now' =>
                                /\ s \notin due'[w]
                                /\ tasks'[w][s].pc \notin BeforeDump \cup {"insert"}
  BY DEF OneDump, MayName
<1>2. p \in Stems /\ p.second \in Int /\ p.name \in Names
  <2>1. p \in Stems
    BY <1>1 DEF DumpNote
  <2>2. QED
    BY <2>1 DEF Stems
<1>3. CASE dumps'[b] = dumps[b]
  <2>1. PICK w \in Workers, s \in Schedules :
                /\ dumps[b].by = <<w, s>>
                /\ MayName(s, p)
                /\ \/ backups[b].status = "deleted"
                   \/ backups[b].server = ServerOf[s]
                /\ p.second = now =>
                      s \notin due[w] /\ tasks[w][s].pc \notin BeforeDump \cup {"insert"}
    BY <1>3 DEF OneDump
  <2>2. p.second <= now
    BY <1>3 DEF OneDump
  <2>3. p.second <= now' /\ (p.second = now' => p.second = now /\ ~ Clock)
    BY <1>1, <1>2, <2>2, NowSteps DEF Clock, Tick
  <2>4. p.second = now' => /\ s \notin due'[w]
                           /\ tasks'[w][s].pc \notin BeforeDump \cup {"insert"}
    BY <1>1, <2>1, <2>3, QuietSecond
  <2>5. backups[b].status # "absent"
    BY <1>3 DEF Fresh, NoDump
  <2>6. backups'[b].status = "deleted" \/ backups'[b].server = ServerOf[s]
    <3>1. backups[b].status = "deleted" => backups'[b].status = "deleted"
      BY DeletedStays
    <3>2. \/ backups'[b].server = backups[b].server
          \/ backups'[b].status = "deleted"
      BY <2>5, RowSteps DEF NoBackup
    <3>3. QED
      BY <2>1, <3>1, <3>2
  <2>7. ServerOf[s] \in holders'[p.name] /\ TypeOf[s] = p.type
    BY <1>2, <2>1, RegistrySteps DEF MayName
  <2>8. QED
    BY <1>3, <2>1, <2>3, <2>4, <2>6, <2>7
<1>4. CASE dumps'[b] # dumps[b]
  <2>1. PICK w \in Workers, s \in Schedules :
                /\ Dump(w, s) /\ tasks[w][s].backup = b
                /\ tasks[w][s].pc = "dump" /\ UNCHANGED <<backups, now, due>>
                /\ backups[b].status \in {"in_progress", "deleted"}
                /\ dumps'[b] = [path |-> FileName(w, s), by |-> <<w, s>>]
    BY <1>4, DumpedBy
  <2>2. p.name = tasks[w][s].name /\ TypeOf[s] = p.type /\ p.second = now'
    BY <2>1 DEF FileName
  <2>3. ServerOf[s] \in holders'[p.name]
    BY <1>2, <2>2, RegistrySteps, StoreAssumption DEF NameBorne
  <2>4. backups'[b].status = "deleted" \/ backups'[b].server = ServerOf[s]
    <3>1. b # None
      BY StoreAssumption
    <3>2. QED
      BY <1>1, <2>1, <3>1 DEF TaskServer, Present, Live
  <2>5. s \notin due'[w]
    BY <2>1 DEF DueIsIdle, Running
  <2>6. tasks'[w][s].pc \notin BeforeDump \cup {"insert"}
    <3>1. TaskStep(w, s)
      BY <2>1 DEF TaskStep
    <3>2. QED
      BY <1>1, <2>1, <3>1, TaskGoes DEF BeforeDump, Idle
  <2>7. QED
    BY <1>1, <2>1, <2>2, <2>3, <2>4, <2>5, <2>6
<1>5. QED
  BY <1>3, <1>4

LEMMA TwoJobsStep ==
    ASSUME IInv, NameBorne, DueIsIdle, Fresh, OneDump, ClashNeedsTwoJobs, [Next]_vars
    PROVE  ClashNeedsTwoJobs'
<1>1. OneDump' /\ dumps \in [BackupIds -> DumpNote]
  BY OneDumpStep DEF IInv, TypeOK, TaskTypeOK
\* The job that dumps now has not dumped in this second before.
<1>2. ASSUME NEW b \in BackupIds, NEW c \in BackupIds, b # c,
             dumps'[b] # dumps[b], dumps'[b].path = dumps'[c].path
      PROVE  dumps'[b].by # dumps'[c].by
  <2>1. PICK w \in Workers, s \in Schedules :
                /\ Dump(w, s) /\ tasks[w][s].pc = "dump"
                /\ dumps'[b] = [path |-> FileName(w, s), by |-> <<w, s>>]
                /\ dumps'[c] = dumps[c]
    BY <1>2, DumpedBy
  <2>2. dumps[c].path = FileName(w, s) /\ FileName(w, s).second = now
    BY <1>2, <2>1 DEF FileName
  <2>3. SUFFICES ASSUME dumps[c].by = <<w, s>>
                 PROVE  FALSE
    BY <2>1
  <2>4. dumps[c].path # None
    BY <2>1, <2>2, PathAssumption, FileNameType DEF IInv, TaskShape
  <2>5. tasks[w][s].pc \notin BeforeDump
    BY <2>2, <2>3, <2>4 DEF OneDump
  <2>6. QED
    BY <2>1, <2>5 DEF BeforeDump
<1> SUFFICES ASSUME NEW b \in BackupIds, NEW c \in BackupIds, NEW p,
                    p = dumps'[b].path, b # c, p # None, dumps'[c].path = p
             PROVE  /\ dumps'[b].by # dumps'[c].by
                    /\ \A d \in {b, c} : LET s == dumps'[d].by[2] IN
                          ServerOf[s] \in holders'[p.name] /\ TypeOf[s] = p.type
  BY DEF ClashNeedsTwoJobs, MayName
<1>3. dumps'[b].by # dumps'[c].by
  BY <1>2 DEF ClashNeedsTwoJobs
<1>4. ASSUME NEW d \in BackupIds, dumps'[d].path = p
      PROVE  LET s == dumps'[d].by[2] IN
             ServerOf[s] \in holders'[p.name] /\ TypeOf[s] = p.type
  <2>1. PICK w \in Workers, s \in Schedules :
                /\ dumps'[d].by = <<w, s>>
                /\ ServerOf[s] \in holders'[p.name] /\ TypeOf[s] = p.type
    BY <1>1, <1>4 DEF OneDump, MayName
  <2>2. QED
    BY <2>1
<1>5. QED
  BY <1>3, <1>4

LEMMA OwnerStep ==
    ASSUME IInv, OwnerInv, [Next]_vars
    PROVE  OwnerInv'
BY NameBorneStep, DueIdleStep, FreshStep, OneStemStep, OneDumpStep, TwoJobsStep
   DEF OwnerInv, IInv

\* As long as no two dumps were written to a stem, it has one backup.
LEMMA OneUser ==
    ASSUME OneStem, NEW p \in Stems, ~ Clash(p),
           NEW b \in BackupIds, NEW c \in BackupIds, Uses(b, p), Uses(c, p)
    PROVE  b = c
BY PathAssumption DEF OneStem, Clash

LEMMA InitOwner ==
    ASSUME Init
    PROVE  OwnerInv
<1>1. /\ \A w \in Workers : due[w] = {} /\ \A s \in Schedules : tasks[w][s] = Idle
      /\ \A b \in BackupIds : backups[b].path = None
      /\ \A p \in Stems, k \in Suffixes : disk[p][k] = None
      /\ \A h \in Handlers : requests[h].path = None
      /\ \A b \in BackupIds : dumps[b] = NoDump
  BY DEF Init, StoreInit, SchedulingInit, TaskInit, RoutesInit, NoBackup, NoRequest
<1>2. \A b \in BackupIds, p \in Stems : ~ Uses(b, p)
  BY <1>1, StoreAssumption, PathAssumption DEF Uses, Idle
<1>3. DueIsIdle
  BY <1>1 DEF DueIsIdle
<1>4. Fresh
  BY <1>1 DEF Fresh, Idle, BeforeDump
<1>5. OneStem /\ OneDump /\ ClashNeedsTwoJobs
  BY <1>1, <1>2 DEF OneStem, OneDump, ClashNeedsTwoJobs, NoDump
<1>6. NameBorne
  BY <1>1, StoreAssumption DEF NameBorne, Idle, Init, StoreInit
<1>7. QED
  BY <1>3, <1>4, <1>5, <1>6 DEF OwnerInv

-----------------------------------------------------------------------------
(* Rows, requests and restores agree on the paths. *)

\* The row of a restore job is inserted once and keeps its backup.
LEMMA RestoreRows ==
    ASSUME IInv, [Next]_vars, NEW r \in RestoreIds
    PROVE  \/ restores'[r] = restores[r]
           \/ restores[r].status = "absent" /\ restores'[r].status = "pending"
           \/ /\ restores[r].status \in Live
              /\ restores'[r].status \in {"in_progress", "completed", "failed"}
              /\ restores'[r].backup = restores[r].backup
<1>1. TypeOK /\ RestoreShape /\ restores \in [RestoreIds -> Restore]
  BY DEF IInv, TypeOK, StoreTypeOK
<1>2. ASSUME NEW w \in Workers, RestoreStep(w)
      PROVE  \/ restores'[r] = restores[r]
             \/ /\ restores[r].status \in Live
                /\ restores'[r].status \in {"in_progress", "completed", "failed"}
                /\ restores'[r].backup = restores[r].backup
  <2>1. loops[w].pc # "idle" => restores[loops[w].job].status \in Live
    BY <1>1 DEF RestoreShape, Inserted
  <2>2. ASSUME NEW st \in {"in_progress", "completed", "failed"},
               loops[w].pc # "idle", SetRestore(loops[w].job, st)
        PROVE  \/ restores'[r] = restores[r]
               \/ /\ restores[r].status \in Live
                  /\ restores'[r].status \in {"in_progress", "completed", "failed"}
                  /\ restores'[r].backup = restores[r].backup
    BY <1>1, <2>1, <2>2 DEF SetRestore, Restore
  <2>3. QED
    BY <1>2, <2>2 DEF RestoreStep, PopRestore, SelectBackup, SelectServer,
       BeginRestore, Decrypt, Decompress, DecompressFails, LRaise, Apply,
       ApplyHangs, CompleteRestore, NotifyRestore, FailRestore, RestoreDbFault, LAt,
       storeVars, registry, holds
<1>3. CASE RestoreApi
  <2>1. ASSUME NEW h \in Handlers, NEW q \in RestoreIds, NEW v \in Servers,
               CreateInsert(h, q, v)
        PROVE  \/ restores'[r] = restores[r]
               \/ restores[r].status = "absent" /\ restores'[r].status = "pending"
    <3>1. CASE UNCHANGED restores
      BY <3>1
    <3>2. CASE restores' = [restores EXCEPT ![q] =
                  [status |-> "pending", backup |-> creations[h].backup, server |-> v]]
      <4>1. restores[q].status = "absent"
        BY <2>1 DEF CreateInsert
      <4>2. QED
        BY <1>1, <3>2, <4>1
    <3>3. QED
      BY <2>1, <3>1, <3>2 DEF CreateInsert
  <2>2. QED
    BY <1>3, <2>1 DEF RestoreApi, CreateSelect, CreationStep, CreatePush,
       CreationFault, storeVars, registry, holds
<1>4. ASSUME ~ RestoreApi, ~ \E w \in Workers : RestoreStep(w)
      PROVE  UNCHANGED restores
  <2>1. ASSUME NEW w \in Workers, BackupWork(w)
        PROVE  UNCHANGED restores
    BY <2>1 DEF BackupWork, TaskStep, Fire, InsertRow, LoadRow, LoadServer, Begin,
       Dump, DumpFails, DumpHangs, Compress, Encrypt, Size, Torn, Onward, Raise,
       FileFault, Incomplete, Complete, Fail, Notify, Stale, DbFault, storeVars,
       registry, holds
  <2>2. QED
    BY <1>4, <2>1 DEF Next, Operator, CreateSchedule, UpdateSchedule,
       DeleteSchedule, Edit, DeleteServer, RenameServer, Clock, Tick, BackupApi,
       CreateBackup, RunScheduledBackup, DeleteSelect, BatchSelect, DeleteStep,
       DeleteUnlink, DeleteCommit, RequestFault, Crash, storeVars, registry, holds,
       vars
<1>5. QED
  BY <1>2, <1>3, <1>4

LEMMA ReferencedStays ==
    ASSUME IInv, [Next]_vars, NEW b, Referenced(b)
    PROVE  Referenced(b)'
BY RestoreRows DEF Referenced, Live

LEMMA RestoreBegunStays ==
    ASSUME IInv, [Next]_vars, NEW b, RestoreBegun(b)
    PROVE  RestoreBegun(b)'
BY RestoreRows DEF RestoreBegun, Live

\* A loop reads the path of its backup once.
LEMMA LoopPaths ==
    ASSUME IInv, [Next]_vars, NEW w \in Workers
    PROVE  \/ loops'[w] = loops[w]
           \/ loops'[w].pc \in {"idle", "backup"}
           \/ /\ loops[w].pc \notin {"idle", "backup"}
              /\ loops'[w].job = loops[w].job
              /\ loops'[w].path = loops[w].path
           \/ /\ loops[w].pc = "backup"
              /\ loops'[w].job = loops[w].job
              /\ loops'[w].path = backups[restores[loops[w].job].backup].path
<1>1. /\ TypeOK /\ loops \in [Workers -> Loop] /\ loops[w] \in Loop
  BY DEF IInv, TypeOK, RestoreTypeOK
<1>2. ASSUME NEW u \in Workers, RestoreStep(u), u # w
      PROVE  loops'[w] = loops[w]
  BY <1>1, <1>2 DEF RestoreStep, PopRestore, SelectBackup, SelectServer,
     BeginRestore, Decrypt, Decompress, DecompressFails, LRaise, Apply, ApplyHangs,
     CompleteRestore, NotifyRestore, FailRestore, RestoreDbFault, LGoto, LEnd
<1>3. ASSUME NEW pc \in RestoreSteps, LGoto(w, pc)
      PROVE  loops'[w].job = loops[w].job /\ loops'[w].path = loops[w].path
  <2>1. loops'[w] = [loops[w] EXCEPT !.pc = pc]
    BY <1>1, <1>3, GotoLoop
  <2>2. QED
    BY <1>1, <2>1 DEF Loop
<1>4. ASSUME LEnd(w)
      PROVE  loops'[w].pc = "idle"
  BY <1>1, <1>4, EndLoop DEF NoLoop
<1>5. CASE PopRestore(w)
  BY <1>1, <1>5 DEF PopRestore
<1>6. CASE SelectBackup(w)
  <2>1. ASSUME NEW q, loops' = [loops EXCEPT ![w].pc = "server", ![w].path = q]
        PROVE  loops'[w].job = loops[w].job /\ loops'[w].path = q
    BY <1>1, <2>1 DEF Loop
  <2>2. QED
    BY <1>4, <1>6, <2>1 DEF SelectBackup, LAt
<1>7. CASE \/ SelectServer(w) \/ BeginRestore(w) \/ Decrypt(w) \/ Decompress(w)
           \/ DecompressFails(w) \/ Apply(w) \/ ApplyHangs(w) \/ CompleteRestore(w)
  BY <1>3, <1>4, <1>7 DEF SelectServer, BeginRestore, Decrypt, Decompress,
     DecompressFails, LRaise, Apply, ApplyHangs, CompleteRestore, LAt, RestoreSteps
<1>8. CASE NotifyRestore(w) \/ FailRestore(w) \/ RestoreDbFault(w)
  BY <1>4, <1>8 DEF NotifyRestore, FailRestore, RestoreDbFault
<1>9. CASE \E u \in Workers : RestoreStep(u)
  BY <1>2, <1>5, <1>6, <1>7, <1>8, <1>9 DEF RestoreStep
<1>10. ASSUME NEW u \in Workers, Crash(u)
       PROVE  loops'[w] = loops[w] \/ loops'[w].pc = "idle"
  BY <1>1, <1>10 DEF Crash, NoLoop
<1>11. CASE ~ \E u \in Workers : RestoreStep(u) \/ Crash(u)
  <2>1. UNCHANGED loops
    BY <1>11 DEF Next, Operator, Clock, BackupApi, RestoreApi, CreateSelect,
       CreationStep, CreateInsert, CreatePush, CreationFault, BackupWork, restoreVars,
       vars
  <2>2. QED
    BY <2>1
<1>12. QED
  BY <1>9, <1>10, <1>11

\* A COMPLETED row keeps its path until it is deleted, and then stays deleted.
LEMMA PathStays ==
    ASSUME IInv, [Next]_vars, NEW b \in BackupIds,
           backups[b].status \in {"completed", "deleted"}
    PROVE  /\ backups'[b].status \in {"completed", "deleted"}
           /\ backups'[b].status = "completed" => /\ backups[b].status = "completed"
                                                 /\ backups'[b] = backups[b]
BY RowSteps DEF NoBackup

LEMMA PathsStep ==
    ASSUME IInv, PathsAgree, [Next]_vars
    PROVE  PathsAgree'
<1>1. /\ TypeOK /\ TypeOK' /\ RestoreShape /\ RestoreShape'
      /\ RestoreRefsComplete /\ RestoreRefsComplete'
  BY NextInv DEF IInv
<1>2. \A r \in RestoreIds : restores'[r].status # "deleted"
  BY RestoreRows DEF PathsAgree
<1>3. ASSUME NEW b \in BackupIds, backups'[b].path # None
      PROVE  backups'[b].status = "completed"
  BY <1>3, RowSteps DEF PathsAgree, NoBackup
<1>4. ASSUME NEW h \in Handlers, requests'[h].path # None
      PROVE  \E b \in BackupIds : /\ requests'[h].ids = {b}
                                  /\ backups'[b].status \in {"completed", "deleted"}
                                  /\ backups'[b].status = "completed"
                                        => backups'[b].path = requests'[h].path
  <2>1. CASE /\ requests'[h].ids = requests[h].ids
             /\ requests'[h].path = requests[h].path
    <3>1. PICK b \in BackupIds : /\ requests[h].ids = {b}
                                 /\ backups[b].status \in {"completed", "deleted"}
                                 /\ backups[b].status = "completed"
                                       => backups[b].path = requests[h].path
      BY <1>4, <2>1 DEF PathsAgree
    <3>2. QED
      BY <2>1, <3>1, PathStays
  <2>2. ASSUME NEW b \in BackupIds, UNCHANGED storeVars,
               requests'[h].ids = {b}, requests'[h].path = backups[b].path
        PROVE  /\ backups'[b].status = "completed"
               /\ backups'[b].path = requests'[h].path
    BY <1>4, <2>2 DEF PathsAgree, storeVars, registry, holds
  <2>3. requests'[h] # NoRequest
    BY <1>4 DEF NoRequest
  <2>4. QED
    BY <1>1, <1>4, <2>1, <2>2, <2>3, RequestPaths
<1>5. ASSUME NEW w \in Workers, loops'[w].pc \notin {"idle", "backup"}
      PROVE  loops'[w].path = backups'[restores'[loops'[w].job].backup].path
  <2> DEFINE r == loops[w].job
             b == restores[loops[w].job].backup
  <2>1. /\ loops'[w].job = r
        /\ loops'[w].path = backups[b].path
        /\ loops[w].pc # "idle"
    BY <1>5, LoopPaths DEF PathsAgree
  <2>2. r \in RestoreIds /\ restores[r].status \in Live /\ restores'[r].status \in Live
    <3>1. loops[w] \in Loop
      BY <1>1 DEF TypeOK, RestoreTypeOK
    <3>2. r \in RestoreIds
      BY <1>1, <2>1, <3>1 DEF Loop, RestoreShape, Inserted
    <3>3. QED
      BY <1>1, <1>5, <2>1, <3>2 DEF RestoreShape, Inserted
  <2>3. restores'[r].backup = b
    BY <2>2, RestoreRows DEF Live
  <2>4. b \in BackupIds /\ backups[b].status = "completed" /\ backups'[b].status = "completed"
    <3>1. restores[r] \in Restore
      BY <1>1, <2>2 DEF TypeOK, StoreTypeOK
    <3>2. b \in BackupIds
      BY <1>1, <2>2, <3>1 DEF Restore, RestoreShape
    <3>3. QED
      BY <1>1, <2>2, <2>3, <3>2 DEF RestoreRefsComplete
  <2>5. QED
    BY <2>1, <2>3, <2>4, PathStays
<1>6. QED
  BY <1>2, <1>3, <1>4, <1>5 DEF PathsAgree

-----------------------------------------------------------------------------
(* What happens to the files of a backup that has its stem to itself. *)

\* While its row is not COMPLETED only its own coroutine writes there, or the
\* crash that ends it.
LEMMA OwnerWrites ==
    ASSUME IInv, OwnerInv, PathsAgree, [Next]_vars,
           NEW b \in BackupIds, NEW p \in Stems, ~ Clash(p)', Uses(b, p),
           disk'[p] # disk[p], backups[b].status \notin {"completed", "deleted"}
    PROVE  \E w \in Workers, s \in Schedules :
              /\ tasks[w][s].backup = b
              /\ tasks[w][s].pc \in {"compress", "encrypt"}
              /\ TaskStep(w, s) \/ Crash(w)
<1>1. /\ TypeOK /\ TaskShape /\ RestoreShape /\ RestoreRefsComplete
      /\ Fresh /\ OneStem
  BY DEF IInv, OwnerInv
<1>2. \A c \in BackupIds : Uses(c, p) => b = c
  BY <1>1, ClashStays, OneUser
\* A dump to p would be the second one.
<1>3. ASSUME NEW w \in Workers, NEW s \in Schedules, Dump(w, s), FileName(w, s) = p
      PROVE  FALSE
  <2> DEFINE c == tasks[w][s].backup
  <2>1. tasks[w][s].pc = "dump" /\ tasks[w][s] \in Task
    BY <1>1, <1>3 DEF Dump, At, TypeOK, TaskTypeOK
  <2>2. c \in BackupIds
    BY <1>1, <2>1 DEF Task, TaskShape
  <2>3. dumps[c].path = None
    BY <1>1, <2>1 DEF Fresh, BeforeDump, NoDump
  <2>4. dumps[b].path = p /\ p # None
    BY <1>1, PathAssumption DEF OneStem
  <2>5. dumps'[b].path = p
    BY <1>1, <2>4, DumpStays
  <2>6. dumps'[c].path = p
    <3>1. dumps \in [BackupIds -> DumpNote]
      BY <1>1 DEF TypeOK, TaskTypeOK
    <3>2. QED
      BY <1>3, <2>2, <3>1 DEF Dump, NoteDump
  <2>7. QED
    BY <2>2, <2>3, <2>4, <2>5, <2>6 DEF Clash
<1>4. ASSUME NEW w \in Workers, NEW s \in Schedules, tasks[w][s].path = p,
             tasks[w][s].pc \in {"compress", "encrypt"}
      PROVE  tasks[w][s].backup = b
  <2>1. tasks[w][s] \in Task
    BY <1>1 DEF TypeOK, TaskTypeOK
  <2>2. tasks[w][s].backup \in BackupIds
    BY <1>1, <1>4, <2>1 DEF Task, TaskShape
  <2>3. QED
    BY <1>2, <1>4, <2>2 DEF Uses
<1>5. \A h \in Handlers : requests[h].path # p
  <2> SUFFICES ASSUME NEW h \in Handlers, requests[h].path = p
               PROVE  FALSE
    OBVIOUS
  <2>1. PICK c \in BackupIds : /\ requests[h].ids = {c}
                               /\ backups[c].status \in {"completed", "deleted"}
    BY PathAssumption DEF PathsAgree
  <2>2. QED
    BY <1>2, <2>1 DEF Uses
<1>6. ASSUME NEW w \in Workers, loops[w].pc \in {"decrypt", "decompress"}
      PROVE  loops[w].path # p
  <2> DEFINE r == loops[w].job
             c == restores[r].backup
  <2>1. r \in RestoreIds /\ restores[r].status \in Live
    <3>1. loops[w] \in Loop
      BY <1>1 DEF TypeOK, RestoreTypeOK
    <3>2. QED
      BY <1>1, <1>6, <3>1 DEF Loop, RestoreShape, Inserted
  <2>2. c \in BackupIds /\ backups[c].status = "completed"
    <3>1. restores[r] \in Restore
      BY <1>1, <2>1 DEF TypeOK, StoreTypeOK
    <3>2. QED
      BY <1>1, <2>1, <3>1 DEF Restore, RestoreShape, RestoreRefsComplete
  <2>3. loops[w].path = backups[c].path
    BY <1>6 DEF PathsAgree
  <2>4. QED
    BY <1>2, <2>2, <2>3 DEF Uses
<1>7. ASSUME NEW q, NEW f, Writes(q, f)
      PROVE  q = p
  BY <1>7 DEF Writes
<1>8. ASSUME NEW w \in Workers, NEW s \in Schedules, TaskDisk(w, s)
      PROVE  \E u \in Workers, r \in Schedules :
                /\ tasks[u][r].backup = b
                /\ tasks[u][r].pc \in {"compress", "encrypt"}
                /\ TaskStep(u, r) \/ Crash(u)
  <2>1. ~ Dump(w, s) \/ FileName(w, s) # p
    BY <1>3
  <2>2. \/ TaskStep(w, s) /\ tasks[w][s].pc \in {"compress", "encrypt"}
        \/ Crash(w) /\ tasks[w][s].pc \in {"compress", "encrypt"}
    BY <1>7, <1>8, <2>1 DEF TaskDisk, TaskStep, Compress, Encrypt, Torn, At
  <2>3. tasks[w][s].path = p
    BY <1>7, <1>8, <2>1 DEF TaskDisk, Mixed
  <2>4. QED
    BY <1>4, <2>2, <2>3
<1>9. ASSUME NEW w \in Workers, Decrypt(w) \/ Decompress(w) \/ DecompressFails(w)
      PROVE  loops[w].pc \in {"decrypt", "decompress"}
  BY <1>9 DEF Decrypt, Decompress, DecompressFails, LAt
<1>10. disk' # disk
  OBVIOUS
<1>11. QED
  BY <1>5, <1>6, <1>7, <1>8, <1>9, <1>10, DiskSteps

LEMMA DumpMovesStep ==
    ASSUME IInv, OwnerInv, PathsAgree, DumpMoves, [Next]_vars
    PROVE  DumpMoves'
<1>1. /\ TypeOK /\ TaskShape /\ TaskShape' /\ RowFollowsTask
      /\ disk \in [Stems -> [Suffixes -> BackupIds \cup {None}]]
      /\ "ldif" \in Suffixes /\ "gz" \in Suffixes /\ "enc" \in Suffixes
  BY NextInv DEF IInv, TypeOK, StoreTypeOK, Suffixes
<1> SUFFICES ASSUME NEW w \in Workers, NEW s \in Schedules,
                    NEW b, b = tasks'[w][s].backup, NEW p, p = tasks'[w][s].path,
                    tasks'[w][s].pc \in {"compress", "encrypt", "size", "commit"},
                    backups'[b].status = "in_progress", ~ Clash(p)', p \notin met'
             PROVE  CASE tasks'[w][s].pc = "compress" -> disk'[p]["ldif"] = b
                      [] tasks'[w][s].pc = "encrypt" -> /\ disk'[p]["gz"] = b
                                                        /\ disk'[p]["ldif"] = None
                      [] OTHER -> /\ disk'[p]["enc"] = b
                                  /\ disk'[p]["gz"] = None
                                  /\ disk'[p]["ldif"] = None
  BY DEF DumpMoves, Clash
<1>0. ~ Clash(p) /\ p \notin met
  BY ClashStays, MetStays DEF OwnerInv
<1>2. b \in BackupIds /\ b # None /\ p \in Stems
  <2>1. tasks'[w][s] \in Task
    BY NextInv DEF IInv, TypeOK, TaskTypeOK
  <2>2. QED
    BY <1>1, <2>1 DEF Task, TaskShape
<1>3. CASE tasks'[w][s] = tasks[w][s]
  <2>1. Uses(b, p)
    BY <1>3 DEF Uses
  <2>2. backups[b].status = "in_progress"
    <3>1. \A u \in Workers, r \in Schedules :
             tasks[u][r].backup = b => ~ Begin(u, r)
      BY <1>1, <1>2, <1>3 DEF RowFollowsTask, Begin, At
    <3>2. QED
      BY <1>2, <3>1, RowSteps DEF NoBackup
  <2>3. disk'[p] = disk[p]
    <3>1. ASSUME NEW u \in Workers, NEW r \in Schedules, tasks[u][r].backup = b,
                 tasks[u][r].pc \in {"compress", "encrypt"}, TaskStep(u, r) \/ Crash(u)
          PROVE  FALSE
      <4>1. u = w /\ r = s
        BY <1>1, <1>2, <1>3, <3>1 DEF RowFollowsTask
      <4>2. tasks'[w][s].pc # tasks[w][s].pc
        <5>1. CASE TaskStep(w, s)
          BY <1>1, <3>1, <4>1, <5>1, TaskGoes DEF Idle
        <5>2. CASE Crash(w)
          <6>1. tasks'[w][s] = Idle
            BY <1>1, <5>2 DEF Crash, TypeOK, TaskTypeOK
          <6>2. QED
            BY <3>1, <4>1, <6>1 DEF Idle
        <5>3. QED
          BY <3>1, <4>1, <5>1, <5>2
      <4>3. QED
        BY <1>3, <4>2
    <3>2. QED
      BY <1>2, <2>1, <2>2, <3>1, OwnerWrites
  <2>4. QED
    BY <1>0, <1>3, <2>2, <2>3 DEF DumpMoves
<1>4. CASE TaskStep(w, s) /\ tasks'[w][s] # tasks[w][s]
  <2>1. \/ Dump(w, s) /\ tasks'[w][s].pc = "compress"
        \/ /\ Compress(w, s) \/ Torn(w, s)
           /\ tasks[w][s].pc = "compress" /\ tasks'[w][s].pc = "encrypt"
        \/ /\ Encrypt(w, s) \/ Torn(w, s)
           /\ tasks[w][s].pc = "encrypt" /\ tasks'[w][s].pc = "size"
        \/ Size(w, s) /\ tasks[w][s].pc = "size" /\ tasks'[w][s].pc = "commit"
    BY <1>1, <1>4, TaskGoes DEF Idle
  <2>2. CASE Dump(w, s) /\ tasks'[w][s].pc = "compress"
    <3>1. tasks'[w][s].path = FileName(w, s) /\ tasks'[w][s].backup = tasks[w][s].backup
      <4>1. tasks[w][s] \in Task
        BY <1>1 DEF TypeOK, TaskTypeOK
      <4>2. QED
        BY <1>1, <2>2, <4>1 DEF Dump, Task, TypeOK, TaskTypeOK
    <3>2. PutFile(p, "ldif", b)
      BY <2>2, <3>1 DEF Dump
    <3>3. Writes(p, [disk[p] EXCEPT !["ldif"] = b])
      BY <1>1, <1>2, <3>2, PutWrites
    <3>4. disk'[p]["ldif"] = b
      BY <1>1, <1>2, <3>3 DEF Writes
    <3>5. QED
      BY <2>2, <3>4
  <2>3. CASE /\ tasks[w][s].pc \in {"compress", "encrypt", "size"}
             /\ \/ /\ Compress(w, s) \/ Torn(w, s)
                   /\ tasks[w][s].pc = "compress" /\ tasks'[w][s].pc = "encrypt"
                \/ /\ Encrypt(w, s) \/ Torn(w, s)
                   /\ tasks[w][s].pc = "encrypt" /\ tasks'[w][s].pc = "size"
                \/ Size(w, s) /\ tasks[w][s].pc = "size" /\ tasks'[w][s].pc = "commit"
    <3>1. tasks[w][s].backup = b /\ tasks[w][s].path = p
      <4>1. ~ Dump(w, s) /\ tasks[w][s].pc # "insert" /\ tasks'[w][s] # Idle
        BY <2>3 DEF Dump, At, Idle
      <4>2. QED
        BY <1>1, <1>4, <4>1, TaskPaths
    <3>2. backups[b].status = "in_progress"
      <4>1. UNCHANGED backups
        BY <2>3 DEF Compress, Encrypt, Torn, Size
      <4>2. QED
        BY <4>1
    <3>3. ~ Torn(w, s)
      BY <1>0, <3>1 DEF Torn
    <3>4. CASE Compress(w, s) /\ tasks[w][s].pc = "compress" /\ tasks'[w][s].pc = "encrypt"
      <4>1. disk[p]["ldif"] = b
        BY <1>0, <3>1, <3>2, <3>4 DEF DumpMoves
      <4>2. MoveFile(p, "ldif", "gz")
        BY <1>2, <3>1, <3>4, <4>1 DEF Compress
      <4>3. Writes(p, [disk[p] EXCEPT !["gz"] = disk[p]["ldif"], !["ldif"] = None])
        BY <1>1, <1>2, <4>2, MoveWrites
      <4>4. disk'[p]["gz"] = b /\ disk'[p]["ldif"] = None
        BY <1>1, <1>2, <4>1, <4>3 DEF Writes
      <4>5. QED
        BY <3>4, <4>4
    <3>5. CASE Encrypt(w, s) /\ tasks[w][s].pc = "encrypt" /\ tasks'[w][s].pc = "size"
      <4>1. disk[p]["gz"] = b /\ disk[p]["ldif"] = None
        BY <1>0, <3>1, <3>2, <3>5 DEF DumpMoves
      <4>2. MoveFile(p, "gz", "enc")
        BY <1>2, <3>1, <3>5, <4>1 DEF Encrypt
      <4>3. Writes(p, [disk[p] EXCEPT !["enc"] = disk[p]["gz"], !["gz"] = None])
        BY <1>1, <1>2, <4>2, MoveWrites
      <4>4. /\ disk'[p]["enc"] = b /\ disk'[p]["gz"] = None
            /\ disk'[p]["ldif"] = None
        BY <1>1, <1>2, <4>1, <4>3 DEF Writes
      <4>5. QED
        BY <3>5, <4>4
    <3>6. CASE Size(w, s) /\ tasks[w][s].pc = "size" /\ tasks'[w][s].pc = "commit"
      <4>1. disk[p]["enc"] = b /\ disk[p]["gz"] = None /\ disk[p]["ldif"] = None
        BY <1>0, <3>1, <3>2, <3>6 DEF DumpMoves
      <4>2. UNCHANGED disk
        BY <3>6 DEF Size
      <4>3. QED
        BY <3>6, <4>1, <4>2
    <3>7. QED
      BY <2>3, <3>3, <3>4, <3>5, <3>6
  <2>4. QED
    BY <2>1, <2>2, <2>3
<1>5. QED
  BY <1>1, <1>3, <1>4, TaskPaths DEF Idle, TaskStep

-----------------------------------------------------------------------------
(* What happens to the files of a stem that several backups may have. *)

LEMMA DumpedStays ==
    ASSUME IInv, Fresh, [Next]_vars, NEW p, p # None, NEW c \in Dumped(p)
    PROVE  c \in Dumped(p)'
BY DumpStays DEF Dumped

LEMMA GotoGoes ==
    ASSUME TypeOK, NEW w \in Workers, NEW s \in Schedules, NEW pc \in Steps,
           Goto(w, s, pc)
    PROVE  tasks'[w][s].pc = pc /\ tasks'[w][s].backup = tasks[w][s].backup
<1>1. tasks \in [Workers -> [Schedules -> Task]] /\ tasks[w][s] \in Task
  BY DEF TypeOK, TaskTypeOK
<1>2. tasks'[w][s] = [tasks[w][s] EXCEPT !.pc = pc]
  BY <1>1, GotoTask
<1>3. QED
  BY <1>1, <1>2 DEF Task

\* Every file of a stem is a dump that went there.
LEMMA FilesDumped ==
    ASSUME IInv, OwnerInv, [Next]_vars, NEW p \in Stems, NEW k \in Suffixes,
           disk'[p][k] # None
    PROVE  disk'[p][k] \in Dumped(p)'
<1>1. OneStem' /\ disk' \in [Stems -> [Suffixes -> BackupIds \cup {None}]]
  BY NextInv, OwnerStep DEF IInv, OwnerInv, TypeOK, StoreTypeOK
<1>2. disk'[p][k] \in BackupIds
  BY <1>1
<1>3. QED
  BY <1>1, <1>2 DEF OneStem, Uses, Dumped

\* The stem of a restore is that of a COMPLETED backup, which it refers to.
LEMMA RestoreStem ==
    ASSUME IInv, OwnerInv, PathsAgree, NEW w \in Workers,
           loops[w].pc \notin {"idle", "backup"}
    PROVE  LET b == restores[loops[w].job].backup
               p == loops[w].path
           IN p \in Stems /\ b \in Dumped(p) /\ backups[b].path = p
<1> DEFINE r == loops[w].job
           b == restores[r].backup
           p == loops[w].path
<1>1. /\ TypeOK /\ RestoreShape /\ RestoreRefsComplete /\ CompletedHasPath /\ OneStem
  BY DEF IInv, OwnerInv
<1>2. r \in RestoreIds /\ restores[r].status \in Live
  <2>1. loops[w] \in Loop
    BY <1>1 DEF TypeOK, RestoreTypeOK
  <2>2. QED
    BY <1>1, <2>1 DEF Loop, RestoreShape, Inserted
<1>3. b \in BackupIds /\ backups[b].status = "completed"
  <2>1. restores[r] \in Restore
    BY <1>1, <1>2 DEF TypeOK, StoreTypeOK
  <2>2. QED
    BY <1>1, <1>2, <2>1 DEF Restore, RestoreShape, RestoreRefsComplete
<1>4. backups[b].path = p /\ p \in Stems
  <2>1. backups[b] \in Backup
    BY <1>1, <1>3 DEF TypeOK, StoreTypeOK
  <2>2. QED
    BY <1>1, <1>3, <2>1 DEF Backup, CompletedHasPath, PathsAgree
<1>5. QED
  BY <1>1, <1>2, <1>3, <1>4 DEF OneStem, Uses, Dumped

\* Its job has begun when it works on files.
LEMMA RestoreBegins ==
    ASSUME RestoreInv, NEW w \in Workers, loops[w].pc \in {"decrypt", "decompress"}
    PROVE  RestoreBegun(restores[loops[w].job].backup)
<1>1. loops[w].job \in RestoreIds
  BY DEF RestoreInv, IInv, RestoreShape, Inserted, TypeOK, RestoreTypeOK, Loop
<1>2. JobAt(loops[w].pc) = "in_progress"
  BY DEF JobAt
<1>3. restores[loops[w].job].status = "in_progress"
  BY <1>2 DEF RestoreInv, JobFollowsHolder
<1>4. QED
  BY <1>1, <1>3 DEF RestoreBegun, Live

\* Where no two workers met an encryption that ends well found its input and
\* has removed it.
LEMMA EncryptMoves ==
    ASSUME IInv, [Next]_vars, NEW w \in Workers, NEW s \in Schedules,
           tasks[w][s].path \notin met,
           tasks'[w][s].pc = "size", tasks'[w][s] # tasks[w][s]
    PROVE  LET p == tasks[w][s].path IN
           /\ Encrypt(w, s) /\ tasks[w][s].pc = "encrypt"
           /\ p \in Stems /\ disk[p]["gz"] # None
           /\ disk'[p]["enc"] = disk[p]["gz"] /\ disk'[p]["gz"] = None
<1> DEFINE p == tasks[w][s].path
<1>1. /\ TypeOK /\ TaskShape
      /\ disk \in [Stems -> [Suffixes -> BackupIds \cup {None}]]
      /\ "gz" \in Suffixes /\ "enc" \in Suffixes
  BY DEF IInv, TypeOK, StoreTypeOK, Suffixes
<1>2. TaskStep(w, s)
  BY <1>1, TaskPaths DEF Idle, TaskStep
<1>3. Encrypt(w, s) /\ tasks[w][s].pc = "encrypt"
  <2>1. ~ Torn(w, s)
    BY DEF Torn
  <2>2. QED
    BY <1>1, <1>2, <2>1, TaskGoes DEF Idle
<1>4. p \in Stems
  <2>1. tasks[w][s] \in Task
    BY <1>1 DEF TypeOK, TaskTypeOK
  <2>2. QED
    BY <1>1, <1>3, <2>1 DEF Task, TaskShape
<1>5. ~ Goto(w, s, "fail")
  BY <1>1, GotoGoes DEF Steps
<1>6. disk[p]["gz"] # None /\ MoveFile(p, "gz", "enc")
  BY <1>3, <1>5 DEF Encrypt, Raise
<1>7. Writes(p, [disk[p] EXCEPT !["enc"] = disk[p]["gz"], !["gz"] = None])
  BY <1>1, <1>4, <1>6, MoveWrites
<1>8. QED
  BY <1>1, <1>3, <1>4, <1>6, <1>7 DEF Writes

\* So does a compression.
LEMMA CompressMoves ==
    ASSUME IInv, [Next]_vars, NEW w \in Workers, NEW s \in Schedules,
           tasks[w][s].path \notin met,
           tasks'[w][s].pc = "encrypt", tasks'[w][s] # tasks[w][s]
    PROVE  LET p == tasks[w][s].path IN
           /\ Compress(w, s) /\ tasks[w][s].pc = "compress"
           /\ p \in Stems /\ disk[p]["ldif"] # None
           /\ disk'[p]["gz"] = disk[p]["ldif"] /\ disk'[p]["ldif"] = None
<1> DEFINE p == tasks[w][s].path
<1>1. /\ TypeOK /\ TaskShape
      /\ disk \in [Stems -> [Suffixes -> BackupIds \cup {None}]]
      /\ "ldif" \in Suffixes /\ "gz" \in Suffixes
  BY DEF IInv, TypeOK, StoreTypeOK, Suffixes
<1>2. TaskStep(w, s)
  BY <1>1, TaskPaths DEF Idle, TaskStep
<1>3. Compress(w, s) /\ tasks[w][s].pc = "compress"
  <2>1. ~ Torn(w, s)
    BY DEF Torn
  <2>2. QED
    BY <1>1, <1>2, <2>1, TaskGoes DEF Idle
<1>4. p \in Stems
  <2>1. tasks[w][s] \in Task
    BY <1>1 DEF TypeOK, TaskTypeOK
  <2>2. QED
    BY <1>1, <1>3, <2>1 DEF Task, TaskShape
<1>5. ~ Goto(w, s, "fail")
  BY <1>1, GotoGoes DEF Steps
<1>6. disk[p]["ldif"] # None /\ MoveFile(p, "ldif", "gz")
  BY <1>3, <1>5 DEF Compress, Raise
<1>7. Writes(p, [disk[p] EXCEPT !["gz"] = disk[p]["ldif"], !["ldif"] = None])
  BY <1>1, <1>4, <1>6, MoveWrites
<1>8. QED
  BY <1>1, <1>3, <1>4, <1>6, <1>7 DEF Writes

\* The commit comes after the size of an archive that was there.
LEMMA SizeFinds ==
    ASSUME IInv, [Next]_vars, NEW w \in Workers, NEW s \in Schedules,
           tasks'[w][s].pc = "commit", tasks'[w][s] # tasks[w][s]
    PROVE  LET p == tasks[w][s].path IN
           /\ Size(w, s) /\ tasks[w][s].pc = "size"
           /\ tasks'[w][s].path = p /\ tasks'[w][s].backup = tasks[w][s].backup
           /\ p \in Stems /\ disk[p]["enc"] # None /\ UNCHANGED disk
<1>1. TypeOK /\ TaskShape
  BY DEF IInv
<1>2. TaskStep(w, s)
  BY <1>1, TaskPaths DEF Idle, TaskStep
<1>3. Size(w, s) /\ tasks[w][s].pc = "size"
  BY <1>1, <1>2, TaskGoes DEF Idle
<1>4. tasks'[w][s].path = tasks[w][s].path /\ tasks'[w][s].backup = tasks[w][s].backup
  <2>1. ~ Dump(w, s) /\ tasks'[w][s] # Idle
    BY <1>3 DEF Dump, At, Idle
  <2>2. QED
    BY <1>1, <1>3, <2>1, TaskPaths
<1>5. tasks[w][s].path \in Stems
  <2>1. tasks[w][s] \in Task
    BY <1>1 DEF TypeOK, TaskTypeOK
  <2>2. QED
    BY <1>1, <1>3, <2>1 DEF Task, TaskShape
<1>6. ~ Goto(w, s, "fail")
  BY <1>1, GotoGoes DEF Steps
<1>7. QED
  BY <1>3, <1>4, <1>5, <1>6 DEF Size

\* Only a request removes an archive.
LEMMA ArchiveRemoved ==
    ASSUME IInv, [Next]_vars, NEW p \in Stems,
           disk[p]["enc"] # None, disk'[p]["enc"] = None
    PROVE  \E h \in Handlers : DeleteUnlink(h) /\ requests[h].path = p
<1>1. /\ TypeOK /\ TaskShape
      /\ disk \in [Stems -> [Suffixes -> BackupIds \cup {None}]]
      /\ "ldif" \in Suffixes /\ "gz" \in Suffixes /\ "enc" \in Suffixes
  BY DEF IInv, TypeOK, StoreTypeOK, Suffixes
<1>2. ASSUME NEW q, NEW c, \/ Writes(q, [disk[q] EXCEPT !["ldif"] = c])
                           \/ Writes(q, [disk[q] EXCEPT !["gz"] = c])
                           \/ Writes(q, [disk[q] EXCEPT !["gz"] = c, !["ldif"] = None])
      PROVE  FALSE
  BY <1>1, <1>2 DEF Writes
<1>3. ASSUME NEW q, Writes(q, [disk[q] EXCEPT !["enc"] = None])
      PROVE  q = p
  BY <1>3 DEF Writes
<1>8. ASSUME NEW w \in Workers, NEW s \in Schedules, Torn(w, s),
             Mixed(tasks[w][s].path, tasks[w][s].backup)
      PROVE  FALSE
  <2>1. tasks[w][s].backup # None
    BY <1>1, <1>8 DEF Torn, At, TaskShape
  <2>2. QED
    BY <1>1, <1>8, <2>1 DEF Mixed, Writes
<1>4. ASSUME NEW w \in Workers, NEW s \in Schedules, Encrypt(w, s),
             LET q == tasks[w][s].path IN
             Writes(q, [disk[q] EXCEPT !["enc"] = disk[q]["gz"], !["gz"] = None])
      PROVE  FALSE
  <2> DEFINE q == tasks[w][s].path
  <2>1. q = p /\ disk[p]["gz"] = None
    BY <1>1, <1>4 DEF Writes
  <2>2. UNCHANGED disk
    BY <1>4, <2>1 DEF Encrypt
  <2>3. QED
    BY <2>2
<1>5. ASSUME NEW w \in Workers, NEW s \in Schedules, At(w, s, "encrypt"),
             LET q == tasks[w][s].path IN
             Writes(q, [disk[q] EXCEPT !["enc"] = tasks[w][s].backup])
      PROVE  FALSE
  <2>1. tasks[w][s].backup # None
    BY <1>1, <1>5 DEF At, TaskShape
  <2>2. QED
    BY <1>1, <1>5, <2>1 DEF Writes
<1>6. disk' # disk
  OBVIOUS
<1>9. ASSUME NEW w \in Workers, NEW s \in Schedules, TaskDisk(w, s)
      PROVE  FALSE
  BY <1>2, <1>4, <1>5, <1>8, <1>9 DEF TaskDisk
<1>7. QED
  BY <1>2, <1>3, <1>6, <1>9, DiskSteps

\* A request that is about to delete its rows commits, fails or waits.
LEMMA EraseSteps ==
    ASSUME TypeOK, [Next]_vars, NEW h \in Handlers, requests[h].pc = "erase"
    PROVE  requests'[h] = requests[h] \/ DeleteCommit(h) \/ RequestFault(h)
<1>1. requests \in [Handlers -> Request]
  BY DEF TypeOK, RoutesTypeOK
<1>2. CASE BackupApi
  BY <1>1, <1>2 DEF BackupApi, CreateBackup, RunScheduledBackup, DeleteSelect,
     BatchSelect, DeleteStep, DeleteUnlink, DeleteCommit, RequestFault
<1>3. CASE ~ BackupApi
  <2>1. UNCHANGED requests
    BY <1>3 DEF Next, Operator, Clock, RestoreApi, CreateSelect, CreationStep,
       CreateInsert, CreatePush, CreationFault, BackupWork, RestoreStep, PopRestore,
       SelectBackup, SelectServer, BeginRestore, Decrypt, Decompress,
       DecompressFails, LRaise, Apply, ApplyHangs, CompleteRestore, NotifyRestore,
       FailRestore, RestoreDbFault, Crash, elsewhere, vars
  <2>2. QED
    BY <2>1
<1>4. QED
  BY <1>2, <1>3

\* What a request left half deleted stays so.
LEMMA HalfDeletedStays ==
    ASSUME [Next]_vars
    PROVE  halfDeleted \subseteq halfDeleted'
<1>1. CASE BackupApi
  BY <1>1 DEF BackupApi, CreateBackup, RunScheduledBackup, DeleteSelect, BatchSelect,
     DeleteStep, DeleteUnlink, DeleteCommit, RequestFault, LeaveRows
<1>2. CASE ~ BackupApi
  BY <1>2 DEF Next, Operator, Clock, RestoreApi, CreateSelect, CreationStep,
     CreateInsert, CreatePush, CreationFault, BackupWork, RestoreStep, PopRestore,
     SelectBackup, SelectServer, BeginRestore, Decrypt, Decompress, DecompressFails,
     LRaise, Apply, ApplyHangs, CompleteRestore, NotifyRestore, FailRestore,
     RestoreDbFault, Crash, elsewhere, vars
<1>3. QED
  BY <1>1, <1>2

\* An archive goes with a delete request, and with the reason it leaves behind.
LEMMA ArchiveStays ==
    ASSUME IInv, OwnerInv, PathsAgree, [Next]_vars, NEW p \in Stems, ArchiveKept(p)
    PROVE  ArchiveKept(p)'
<1>1. /\ TypeOK /\ Fresh /\ OneStem /\ p # None
      /\ spent \in [Kinds -> Nat] /\ spent' \in [Kinds -> Nat] /\ "api" \in Kinds
      /\ "enc" \in Suffixes
  BY NextInv, PathAssumption DEF IInv, OwnerInv, TypeOK, StoreTypeOK, Suffixes, Kinds
<1>2. ASSUME NEW c \in Dumped(p), p \in halfDeleted, Referenced(c) \/ spent["api"] > 0
      PROVE  ArchiveKept(p)'
  <2>1. c \in Dumped(p)' /\ p \in halfDeleted'
    BY <1>1, <1>2, DumpedStays, HalfDeletedStays
  <2>2. spent["api"] > 0 => spent'["api"] > 0
    BY <1>1, SpentGrows
  <2>3. Referenced(c) => Referenced(c)'
    BY ReferencedStays
  <2>4. QED
    BY <1>2, <2>1, <2>2, <2>3 DEF ArchiveKept
<1>3. ASSUME NEW c \in Dumped(p), disk[p]["enc"] = c
      PROVE  ArchiveKept(p)'
  <2>1. CASE disk'[p]["enc"] # None
    BY <1>1, <2>1, FilesDumped DEF ArchiveKept
  <2>2. CASE disk'[p]["enc"] = None
    <3>1. c # None
      BY StoreAssumption DEF Dumped
    <3>2. PICK h \in Handlers : DeleteUnlink(h) /\ requests[h].path = p
      BY <1>3, <2>2, <3>1, ArchiveRemoved
    <3>3. PICK b \in BackupIds : requests[h].ids = {b}
      BY <1>1, <3>2 DEF PathsAgree
    <3>4. requests[h] \in Request /\ requests \in [Handlers -> Request]
      BY <1>1 DEF TypeOK, RoutesTypeOK
    <3>5. /\ requests'[h].pc = "erase" /\ requests'[h].ids = {b}
          /\ requests'[h].path = p
      BY <3>2, <3>3, <3>4 DEF DeleteUnlink, Request
    <3>6. b \in Dumped(p)
      BY <1>1, <3>2, <3>3 DEF OneStem, Uses, Dumped
    <3>7. b \in Dumped(p)'
      BY <1>1, <3>6, DumpedStays
    <3>8. QED
      BY <3>5, <3>7 DEF ArchiveKept
  <2>3. QED
    BY <2>1, <2>2
<1>4. ASSUME NEW c \in Dumped(p), NEW h \in Handlers, requests[h].pc = "erase",
             c \in requests[h].ids, requests[h].path = p
      PROVE  ArchiveKept(p)'
  <2>1. c \in Dumped(p)' /\ c \in BackupIds /\ requests[h].ids = {c}
        /\ backups[c].status \in {"completed", "deleted"}
    <3>1. PICK b \in BackupIds : /\ requests[h].ids = {b}
                                 /\ backups[b].status \in {"completed", "deleted"}
      BY <1>1, <1>4 DEF PathsAgree
    <3>2. QED
      BY <1>1, <1>4, <3>1, DumpedStays
  <2>2. CASE requests'[h] = requests[h]
    BY <1>4, <2>1, <2>2 DEF ArchiveKept
  <2>3. CASE DeleteCommit(h)
    <3>1. CASE Referenced(c)
      <4>1. Referenced(c)'
        BY <3>1, ReferencedStays
      <4>2. p \in halfDeleted'
        BY <1>1, <1>4, <2>1, <2>3, <3>1 DEF DeleteCommit, LeaveRows
      <4>3. QED
        BY <2>1, <4>1, <4>2 DEF ArchiveKept
    <3>2. CASE ~ Referenced(c)
      <4>1. EraseBackups({c})
        BY <2>1, <2>3, <3>2 DEF DeleteCommit
      <4>2. backups'[c].status = "deleted"
        BY <2>1, <4>1 DEF EraseBackups, Present, Live, NoBackup
      <4>3. QED
        BY <2>1, <4>2 DEF ArchiveKept
    <3>3. QED
      BY <3>1, <3>2
  <2>4. CASE RequestFault(h)
    <3>1. spent'["api"] > 0
      BY <1>1, <2>4, SpendGrows DEF RequestFault
    <3>2. p \in halfDeleted'
      BY <1>1, <1>4, <2>4 DEF RequestFault, LeaveRows
    <3>3. QED
      BY <2>1, <3>1, <3>2 DEF ArchiveKept
  <2>5. QED
    BY <1>1, <1>4, <2>2, <2>3, <2>4, EraseSteps
<1>5. ASSUME NEW c \in Dumped(p), backups[c].status = "deleted"
      PROVE  ArchiveKept(p)'
  <2>1. c \in Dumped(p)' /\ c \in BackupIds
    BY <1>1, <1>5, DumpedStays DEF Dumped
  <2>2. backups'[c].status = "deleted"
    BY <1>5, <2>1, PathStays
  <2>3. QED
    BY <2>1, <2>2 DEF ArchiveKept
<1>6. QED
  BY <1>2, <1>3, <1>4, <1>5 DEF ArchiveKept

LEMMA ArchiveStep ==
    ASSUME IInv, OwnerInv, PathsAgree, ArchiveThere, [Next]_vars
    PROVE  ArchiveThere'
<1>1. /\ TypeOK /\ TaskShape /\ CompletedHasPath /\ CompletedHasPath'
      /\ "enc" \in Suffixes
      /\ disk \in [Stems -> [Suffixes -> BackupIds \cup {None}]]
  BY NextInv DEF IInv, TypeOK, StoreTypeOK, Suffixes
<1>2. ASSUME NEW w \in Workers, NEW s \in Schedules, tasks[w][s].pc = "commit",
             NEW p, p = tasks[w][s].path
      PROVE  ArchiveKept(p)'
  <2>1. p \in Stems
    <3>1. tasks[w][s] \in Task
      BY <1>1 DEF TypeOK, TaskTypeOK
    <3>2. QED
      BY <1>1, <1>2, <3>1 DEF Task, TaskShape
  <2>2. ArchiveKept(p)
    BY <1>2 DEF ArchiveThere
  <2>3. QED
    BY <2>1, <2>2, ArchiveStays
<1>3. ASSUME NEW w \in Workers, NEW s \in Schedules, tasks'[w][s].pc = "commit",
             NEW p, p = tasks'[w][s].path
      PROVE  ArchiveKept(p)'
  <2>1. CASE tasks'[w][s] = tasks[w][s]
    BY <1>2, <1>3, <2>1
  <2>2. CASE tasks'[w][s] # tasks[w][s]
    <3>1. p \in Stems /\ disk'[p]["enc"] # None
      BY <1>3, <2>2, SizeFinds
    <3>2. disk'[p]["enc"] \in Dumped(p)'
      BY <1>1, <3>1, FilesDumped
    <3>3. QED
      BY <3>2 DEF ArchiveKept
  <2>3. QED
    BY <2>1, <2>2
<1>4. ASSUME NEW b \in BackupIds, backups'[b].status = "completed",
             NEW p, p = backups'[b].path
      PROVE  ArchiveKept(p)'
  <2>1. CASE backups'[b] = backups[b]
    <3>1. backups[b] \in Backup
      BY <1>1 DEF TypeOK, StoreTypeOK
    <3>2. p \in Stems
      BY <1>1, <1>4, <2>1, <3>1 DEF Backup, CompletedHasPath
    <3>3. ArchiveKept(p)
      BY <1>4, <2>1 DEF ArchiveThere, CompletedHasFile
    <3>4. QED
      BY <3>2, <3>3, ArchiveStays
  <2>2. ASSUME NEW w \in Workers, NEW s \in Schedules, Complete(w, s),
               p = tasks[w][s].path
        PROVE  ArchiveKept(p)'
    <3>1. tasks[w][s].pc = "commit"
      BY <2>2 DEF Complete, At
    <3>2. QED
      BY <1>2, <2>2, <3>1
  <2>3. QED
    BY <1>4, <2>1, <2>2, RowSteps DEF NoBackup
<1>5. QED
  BY <1>3, <1>4 DEF ArchiveThere, CompletedHasFile, ArchiveKept

\* A coroutine whose row is IN_PROGRESS is left alone, goes on, or is lost to a
\* crash or a database error and leaves its row behind.
LEMMA InProgressGoes ==
    ASSUME IInv, [Next]_vars, NEW w \in Workers, NEW s \in Schedules, NEW b \in BackupIds,
           tasks[w][s].backup = b, tasks[w][s].pc \in During, backups[b].status # "deleted"
    PROVE  \/ tasks'[w][s] = tasks[w][s]
           \/ TaskStep(w, s) /\ tasks'[w][s].backup = b
           \/ Abandoned(b)'
<1>1. TypeOK /\ TaskShape /\ RowFollowsTask /\ b # None
  BY StoreAssumption DEF IInv
<1>2. backups[b].status = "in_progress"
  <2>1. RowAt(tasks[w][s].pc) = {"in_progress"}
    BY DEF RowAt, Before, During
  <2>2. QED
    BY <1>1, <2>1 DEF RowFollowsTask
<1>3. ASSUME UNCHANGED backups, tasks'[w][s] = Idle,
             NEW u \in Workers, NEW r \in Schedules, u # w \/ r # s,
             tasks'[u][r] \in {tasks[u][r], Idle}
      PROVE  tasks'[u][r].backup # b
  BY <1>1, <1>3 DEF RowFollowsTask, Idle
<1>4. ASSUME UNCHANGED backups, tasks'[w][s] = Idle,
             \A u \in Workers, r \in Schedules :
                 u # w \/ r # s => tasks'[u][r] \in {tasks[u][r], Idle}
      PROVE  Abandoned(b)'
  BY <1>1, <1>2, <1>3, <1>4 DEF Abandoned, TaskAt, Idle
<1>5. CASE TaskStep(w, s)
  <2>1. ~ Stale(w, s) /\ ~ InsertRow(w, s) /\ ~ Fire(w, s)
    BY <1>2 DEF Stale, InsertRow, Fire, Running, At, Present, Live, During
  <2>2. CASE DbFault(w, s)
    <3>1. tasks'[w][s] = Idle /\ UNCHANGED backups
      <4>1. tasks \in [Workers -> [Schedules -> Task]]
        BY <1>1 DEF TypeOK, TaskTypeOK
      <4>2. QED
        BY <2>2, <4>1, EndTask DEF DbFault
    <3>2. QED
      BY <1>1, <1>4, <1>5, <3>1, TaskOthers
  <2>3. CASE ~ DbFault(w, s)
    BY <1>1, <1>5, <2>1, <2>3, TaskGoes DEF During
  <2>4. QED
    BY <2>2, <2>3
<1>6. ASSUME NEW u \in Workers, Crash(u)
      PROVE  tasks'[w][s] = tasks[w][s] \/ Abandoned(b)'
  <2>1. UNCHANGED backups
    BY <1>6 DEF Crash
  <2>2. \A v \in Workers, r \in Schedules :
           tasks'[v][r] = IF v = u THEN Idle ELSE tasks[v][r]
    BY <1>1, <1>6 DEF Crash, TypeOK, TaskTypeOK
  <2>3. QED
    BY <1>4, <2>1, <2>2
<1>7. ASSUME NEW u \in Workers, NEW r \in Schedules, TaskStep(u, r), ~ TaskStep(w, s)
      PROVE  tasks'[w][s] = tasks[w][s]
  BY <1>1, <1>7, TaskOthers
<1>8. QED
  BY <1>1, <1>5, <1>6, <1>7, RowsAndTasksElsewhere DEF BackupWork, taskVars

\* Nobody takes up an abandoned row; it can only be deleted.
LEMMA AbandonedStays ==
    ASSUME IInv, [Next]_vars, NEW b \in BackupIds, Abandoned(b)
    PROVE  Abandoned(b)' \/ backups'[b].status = "deleted"
<1>1. /\ TypeOK /\ TaskShape /\ RowFollowsTask /\ b # None
      /\ backups[b].status = "in_progress" /\ ~ TaskAt(b, During)
  BY StoreAssumption DEF IInv, Abandoned
<1>2. backups'[b] = backups[b] \/ backups'[b].status = "deleted"
  <2>1. ASSUME NEW w \in Workers, NEW s \in Schedules, tasks[w][s].backup = b
        PROVE  ~ Fail(w, s) /\ ~ Complete(w, s)
    BY <1>1, <2>1 DEF TaskAt, Fail, Complete, At, During
  <2>2. QED
    BY <1>1, <2>1, RowSteps DEF NoBackup
<1>3. ASSUME NEW w \in Workers, NEW s \in Schedules,
             tasks'[w][s].backup = b, tasks'[w][s].pc \in During
      PROVE  FALSE
  <2>1. tasks'[w][s] # tasks[w][s] /\ tasks'[w][s] # Idle
    BY <1>1, <1>3 DEF TaskAt, Idle
  <2>2. TaskStep(w, s)
    BY <1>1, <2>1, TaskPaths DEF TaskStep
  <2>3. tasks[w][s].backup = b /\ tasks[w][s].pc \in During \cup {"begin"}
    BY <1>1, <1>3, <2>1, <2>2, TaskGoes DEF During
  <2>4. tasks[w][s].pc # "begin"
    <3>1. RowAt("begin") = {"pending"}
      BY DEF RowAt, Before, During
    <3>2. QED
      BY <1>1, <2>3, <3>1 DEF RowFollowsTask
  <2>5. QED
    BY <1>1, <2>3, <2>4 DEF TaskAt
<1>4. QED
  BY <1>1, <1>2, <1>3 DEF Abandoned, TaskAt

LEMMA PlainStep ==
    ASSUME RestoreInv, OwnerInv, PathsAgree, PlainGoes, [Next]_vars
    PROVE  PlainGoes'
<1>0. IInv
  BY DEF RestoreInv
<1>1. /\ TypeOK /\ TaskShape /\ RowFollowsTask /\ Fresh /\ OneStem
      /\ disk \in [Stems -> [Suffixes -> BackupIds \cup {None}]]
      /\ spent \in [Kinds -> Nat]
      /\ "ldif" \in Suffixes /\ "gz" \in Suffixes /\ "enc" \in Suffixes
  BY <1>0 DEF IInv, OwnerInv, TypeOK, StoreTypeOK, Suffixes
<1> DEFINE Gone(b) == backups[b].status \in {"failed", "deleted"}
<1> SUFFICES ASSUME NEW p \in Stems, p \notin met', NEW b \in BackupIds,
                    ~ (\E c \in Dumped(p) : RestoreBegun(c))', ~ Gone(b)',
                    ~ Abandoned(b)'
             PROVE  /\ disk'[p]["ldif"] = b => TaskAt(b, {"compress", "fail"})'
                    /\ disk'[p]["gz"] = b => TaskAt(b, {"compress", "encrypt", "fail"})'
  <2>1. \A b \in BackupIds : TaskAt(b, {"compress", "fail"})'
                                => TaskAt(b, {"compress", "encrypt", "fail"})'
    BY DEF TaskAt
  <2>2. QED
    BY <2>1 DEF PlainGoes, PlainFileHasCause, TaskAt, RestoreBegun, Dumped, Abandoned
<1>2. b # None /\ p # None /\ ~ Abandoned(b) /\ p \notin met
  BY <1>0, StoreAssumption, PathAssumption, AbandonedStays, MetStays
<1>3. ~ \E c \in Dumped(p) : RestoreBegun(c)
  BY <1>0, <1>1, <1>2, DumpedStays, RestoreBegunStays
<1>4. ~ Gone(b)
  <2> SUFFICES ASSUME Gone(b) PROVE FALSE
    OBVIOUS
  <2>1. ASSUME NEW w \in Workers, NEW s \in Schedules,
               tasks[w][s].backup = b, Begin(w, s)
        PROVE  FALSE
    <3>1. RowAt("begin") = {"pending"}
      BY DEF RowAt, Before, During
    <3>2. QED
      BY <1>1, <1>2, <2>1, <3>1 DEF RowFollowsTask, Begin, At, Present, Live
  <2>2. QED
    BY <1>0, <2>1, RowSteps DEF NoBackup
\* A coroutine that works on b goes on; the row of one that ends is gone.
<1>5. ASSUME NEW w \in Workers, NEW s \in Schedules, tasks[w][s].backup = b,
             tasks[w][s].pc \in {"compress", "encrypt", "fail"}
      PROVE  \/ tasks'[w][s] = tasks[w][s]
             \/ /\ tasks'[w][s].backup = b
                /\ \/ tasks'[w][s].pc = "fail"
                   \/ tasks[w][s].pc = "compress" /\ tasks'[w][s].pc = "encrypt"
                   \/ tasks[w][s].pc = "encrypt" /\ tasks'[w][s].pc = "size"
  <2>1. ~ Fail(w, s)
    <3>1. ASSUME Fail(w, s)
          PROVE  backups'[b].status = "failed"
      <4>1. backups \in [BackupIds -> Backup]
        BY <1>1 DEF TypeOK, StoreTypeOK
      <4>2. QED
        BY <1>5, <3>1, <4>1 DEF Fail, SetStatus, Backup
    <3>2. QED
      BY <3>1
  <2>2. \/ tasks'[w][s] = tasks[w][s]
        \/ TaskStep(w, s) /\ tasks'[w][s].backup = b
    <3>1. tasks[w][s].pc \in During /\ backups[b].status # "deleted"
      BY <1>4, <1>5 DEF During
    <3>2. QED
      BY <1>0, <1>5, <3>1, InProgressGoes
  <2>3. QED
    BY <1>1, <1>2, <1>5, <2>1, <2>2, TaskGoes DEF Idle
\* A coroutine whose backup is in a file of p works on that stem.
<1>6. ASSUME NEW w \in Workers, NEW s \in Schedules, tasks[w][s].backup = b,
             tasks[w][s].pc \in {"compress", "encrypt"},
             b \in {disk[p]["ldif"], disk[p]["gz"]}
      PROVE  tasks[w][s].path = p
  <2>1. tasks[w][s] \in Task
    BY <1>1 DEF TypeOK, TaskTypeOK
  <2>2. tasks[w][s].path \in Stems
    BY <1>1, <1>6, <2>1 DEF Task, TaskShape
  <2>3. QED
    BY <1>1, <1>6, <2>2 DEF OneStem, Uses
\* No restore writes here.
<1>7. ASSUME NEW w \in Workers, Decrypt(w) \/ Decompress(w) \/ DecompressFails(w)
      PROVE  loops[w].path # p
  <2>1. loops[w].pc \in {"decrypt", "decompress"}
    BY <1>7 DEF Decrypt, Decompress, DecompressFails, LAt
  <2>2. QED
    BY <1>0, <1>3, <2>1, RestoreStem, RestoreBegins
\* What this step wrote itself.
<1>8. ASSUME NEW w \in Workers, NEW s \in Schedules, tasks[w][s].backup = b,
             Dump(w, s)
      PROVE  TaskAt(b, {"compress", "fail"})'
  <2>1. TaskStep(w, s) /\ tasks[w][s].pc = "dump"
    BY <1>8 DEF TaskStep, Dump, At
  <2>2. tasks'[w][s].pc = "compress" /\ tasks'[w][s].backup = b
    <3>1. tasks[w][s] \in Task /\ tasks \in [Workers -> [Schedules -> Task]]
      BY <1>1 DEF TypeOK, TaskTypeOK
    <3>2. QED
      BY <1>8, <3>1 DEF Dump, Task
  <2>3. QED
    BY <2>2 DEF TaskAt
<1>9. ASSUME NEW w \in Workers, NEW s \in Schedules, tasks[w][s].backup = b,
             At(w, s, "compress")
      PROVE  TaskAt(b, {"compress", "encrypt", "fail"})'
  BY <1>5, <1>9 DEF TaskAt, At
\* Files that were there before.
<1>10. ASSUME disk[p]["ldif"] = b
       PROVE  /\ TaskAt(b, {"compress", "encrypt", "fail"})'
              /\ disk'[p]["ldif"] = b => TaskAt(b, {"compress", "fail"})'
  <2>1. PICK w \in Workers, s \in Schedules :
                tasks[w][s].backup = b /\ tasks[w][s].pc \in {"compress", "fail"}
    BY <1>2, <1>3, <1>4, <1>10 DEF PlainGoes, TaskAt
  <2>2. ASSUME disk'[p]["ldif"] = b
        PROVE  ~ (tasks[w][s].pc = "compress" /\ tasks'[w][s].pc = "encrypt")
    BY <1>0, <1>2, <1>6, <1>10, <2>1, <2>2, CompressMoves
  <2>3. QED
    BY <1>5, <2>1, <2>2 DEF TaskAt
<1>11. ASSUME disk[p]["gz"] = b, disk'[p]["gz"] = b
       PROVE  TaskAt(b, {"compress", "encrypt", "fail"})'
  <2>1. PICK w \in Workers, s \in Schedules :
                /\ tasks[w][s].backup = b
                /\ tasks[w][s].pc \in {"compress", "encrypt", "fail"}
    BY <1>2, <1>3, <1>4, <1>11 DEF PlainGoes, PlainFileHasCause, TaskAt
  <2>2. ~ (tasks[w][s].pc = "encrypt" /\ tasks'[w][s].pc = "size")
    BY <1>0, <1>2, <1>6, <1>11, <2>1, EncryptMoves
  <2>3. QED
    BY <1>5, <2>1, <2>2 DEF TaskAt
\* Files that this step wrote.
<1>12. ASSUME disk[p]["ldif"] # b, disk'[p]["ldif"] = b
       PROVE  TaskAt(b, {"compress", "fail"})'
  <2>1. disk' # disk
    BY <1>12
  <2>2. ASSUME NEW q, NEW c, Writes(q, [disk[q] EXCEPT !["ldif"] = c])
        PROVE  q = p /\ c = b
    BY <1>1, <1>12, <2>2 DEF Writes
  <2>3. ASSUME NEW q, NEW c, NEW k \in {"gz", "enc"},
               \/ Writes(q, [disk[q] EXCEPT ![k] = c])
               \/ Writes(q, [disk[q] EXCEPT !["gz"] = c, !["ldif"] = None])
               \/ Writes(q, [disk[q] EXCEPT !["enc"] = c, !["gz"] = None])
        PROVE  FALSE
    BY <1>1, <1>2, <1>12, <2>3 DEF Writes
  <2>4. ASSUME NEW w \in Workers, NEW s \in Schedules, Torn(w, s),
               Mixed(tasks[w][s].path, tasks[w][s].backup)
        PROVE  FALSE
    BY <1>2, <1>12, <2>4 DEF Torn, Mixed, Writes
  <2>5. ASSUME NEW w \in Workers, NEW s \in Schedules, TaskDisk(w, s)
        PROVE  TaskAt(b, {"compress", "fail"})'
    BY <1>8, <2>2, <2>3, <2>4, <2>5 DEF TaskDisk
  <2>6. QED
    BY <1>0, <1>7, <2>1, <2>2, <2>3, <2>5, DiskSteps
<1>13. ASSUME disk[p]["gz"] # b, disk'[p]["gz"] = b
       PROVE  TaskAt(b, {"compress", "encrypt", "fail"})'
  <2>1. disk' # disk
    BY <1>13
  <2>2. ASSUME NEW q, NEW c, Writes(q, [disk[q] EXCEPT !["gz"] = c])
        PROVE  q = p /\ c = b
    BY <1>1, <1>13, <2>2 DEF Writes
  <2>3. ASSUME NEW q, Writes(q, [disk[q] EXCEPT !["gz"] = disk[q]["ldif"],
                                                !["ldif"] = None])
        PROVE  disk[p]["ldif"] = b
    BY <1>1, <1>13, <2>3 DEF Writes
  <2>4. ASSUME NEW q, NEW c, NEW k \in {"ldif", "enc"},
               \/ Writes(q, [disk[q] EXCEPT ![k] = c])
               \/ Writes(q, [disk[q] EXCEPT !["enc"] = c, !["gz"] = None])
        PROVE  FALSE
    BY <1>1, <1>2, <1>13, <2>4 DEF Writes
  <2>5. ASSUME NEW w \in Workers, NEW s \in Schedules, Torn(w, s),
               Mixed(tasks[w][s].path, tasks[w][s].backup)
        PROVE  FALSE
    BY <1>2, <1>13, <2>5 DEF Torn, Mixed, Writes
  <2>6. ASSUME NEW w \in Workers, NEW s \in Schedules, TaskDisk(w, s)
        PROVE  TaskAt(b, {"compress", "encrypt", "fail"})'
    BY <1>9, <1>10, <2>2, <2>3, <2>4, <2>5, <2>6 DEF TaskDisk
  <2>7. QED
    BY <1>0, <1>7, <2>1, <2>2, <2>4, <2>6, DiskSteps
<1>14. QED
  BY <1>10, <1>11, <1>12, <1>13

\* What an LDAP server was given changes when a restore is applied, only then.
LEMMA AppliedSteps ==
    ASSUME TypeOK, [Next]_vars, NEW r \in RestoreIds, applied'[r] # applied[r]
    PROVE  \E w \in Workers : /\ loops[w].pc = "apply" /\ loops[w].job = r
                              /\ UNCHANGED <<backups, restores, dumps, holders>>
                              /\ disk[loops[w].path]["ldif"] # None
                              /\ applied'[r].content = disk[loops[w].path]["ldif"]
<1>1. applied \in [RestoreIds -> [times : Nat, content : BackupIds \cup {None}]]
  BY DEF TypeOK, RestoreTypeOK
<1>2. CASE \E w \in Workers : Apply(w) \/ ApplyHangs(w)
  <2>1. PICK w \in Workers : Apply(w) \/ ApplyHangs(w)
    BY <1>2
  <2> DEFINE c == disk[loops[w].path]["ldif"]
  <2>2. Added(w) /\ loops[w].pc = "apply"
        /\ UNCHANGED <<backups, restores, dumps, holders>>
    BY <2>1 DEF Apply, ApplyHangs, LAt, elsewhere, taskVars, registry
  <2>3. c # None /\ applied' = [applied EXCEPT ![loops[w].job] =
                                   [times |-> @.times + 1, content |-> c]]
    BY <2>2 DEF Added
  <2>4. loops[w].job = r /\ applied'[r].content = c
    BY <1>1, <2>3
  <2>5. QED
    BY <2>2, <2>3, <2>4
<1>3. ASSUME ~ \E w \in Workers : Apply(w) \/ ApplyHangs(w)
      PROVE  UNCHANGED applied
  <2>1. ASSUME NEW w \in Workers, RestoreStep(w)
        PROVE  UNCHANGED applied
    BY <1>3, <2>1 DEF RestoreStep, PopRestore, SelectBackup, SelectServer,
       BeginRestore, Decrypt, Decompress, DecompressFails, CompleteRestore,
       NotifyRestore, FailRestore, RestoreDbFault
  <2>2. QED
    BY <2>1 DEF Next, Operator, Clock, BackupApi, RestoreApi, CreateSelect, CreationStep,
       CreateInsert, CreatePush, CreationFault, BackupWork, Crash, restoreVars, vars
<1>4. QED
  BY <1>2, <1>3

\* As long as no name changed hands all dumps of a stem are of one server.
LEMMA OneServer ==
    ASSUME OneDump, ~ NameChangedHands, NEW p \in Stems,
           NEW b \in Dumped(p), NEW c \in Dumped(p),
           backups[b].status = "completed"
    PROVE  ServerOf[dumps[c].by[2]] = backups[b].server
<1>1. p # None /\ p.name \in Names
  BY PathAssumption DEF Stems
<1>2. PICK u \in Workers, s \in Schedules :
              MayName(s, p) /\ backups[b].server = ServerOf[s]
  BY <1>1 DEF OneDump, Dumped
<1>3. PICK w \in Workers, t \in Schedules : dumps[c].by = <<w, t>> /\ MayName(t, p)
  BY <1>1 DEF OneDump, Dumped
<1>4. ServerOf[s] = ServerOf[t]
  BY <1>1, <1>2, <1>3 DEF MayName, NameChangedHands
<1>5. dumps[c].by[2] = t
  BY <1>3
<1>6. QED
  BY <1>2, <1>4, <1>5

LEMMA ContentStep ==
    ASSUME RestoreInv, OwnerInv, PathsAgree, RestoredContent, [Next]_vars
    PROVE  RestoredContent'
<1>1. /\ IInv /\ TypeOK /\ RestoreShape /\ RestoreRefsComplete /\ CompletedHasPath
      /\ AppliedOnce /\ Fresh /\ OneStem /\ OneDump
      /\ disk \in [Stems -> [Suffixes -> BackupIds \cup {None}]]
      /\ "ldif" \in Suffixes
  BY DEF RestoreInv, IInv, OwnerInv, TypeOK, StoreTypeOK, Suffixes
<1>2. ASSUME NEW r \in RestoreIds, restores[r].status \in Live
      PROVE  /\ restores[r].backup \in BackupIds
             /\ backups[restores[r].backup].status = "completed"
             /\ backups[restores[r].backup].path \in Stems
  <2>1. restores[r] \in Restore
    BY <1>1 DEF TypeOK, StoreTypeOK
  <2>2. restores[r].backup \in BackupIds
    BY <1>1, <1>2, <2>1 DEF Restore, RestoreShape
  <2>3. backups[restores[r].backup] \in Backup
    BY <1>1, <2>2 DEF TypeOK, StoreTypeOK
  <2>4. QED
    BY <1>1, <1>2, <2>2, <2>3 DEF RestoreRefsComplete, Backup
<1> SUFFICES ASSUME NEW r \in RestoreIds, applied'[r].times > 0,
                    NEW d, d = restores'[r].backup,
                    NEW p, p = backups'[d].path, NEW c, c = applied'[r].content
             PROVE  /\ d \in Dumped(p)' /\ c \in Dumped(p)'
                    /\ ~ NameChangedHands' => ServerOf[dumps'[c].by[2]] = backups'[d].server
  BY DEF RestoredContent, Dumped
<1> DEFINE b == restores[r].backup
<1>3. ~ NameChangedHands' => ~ NameChangedHands
  BY <1>1, RegistrySteps DEF NameChangedHands
<1>4. CASE applied'[r] = applied[r]
  <2>1. restores[r].status \in Live
    <3>1. restores[r].status \notin {"absent", "deleted"}
      BY <1>1, <1>4 DEF AppliedOnce, PathsAgree
    <3>2. restores[r] \in Restore
      BY <1>1 DEF TypeOK, StoreTypeOK
    <3>3. QED
      BY <3>1, <3>2 DEF Restore, Statuses
  <2>2. restores'[r].status \in Live /\ d = b
    BY <1>1, <2>1, RestoreRows DEF Live
  <2>3. backups'[b].status = "completed"
    BY <1>1, <2>2, NextInv DEF IInv, RestoreRefsComplete
  <2>4. backups'[b] = backups[b] /\ backups[b].path = p /\ p # None
    BY <1>1, <1>2, <2>1, <2>2, <2>3, PathStays, PathAssumption
  <2>5. /\ b \in Dumped(p) /\ c \in Dumped(p)
        /\ ~ NameChangedHands => ServerOf[dumps[c].by[2]] = backups[b].server
    BY <1>4, <2>4 DEF RestoredContent
  <2>6. dumps'[c] = dumps[c]
    BY <1>1, <2>4, <2>5, DumpStays DEF Dumped
  <2>7. QED
    BY <1>1, <1>3, <1>4, <2>2, <2>4, <2>5, <2>6, DumpedStays
<1>5. CASE applied'[r] # applied[r]
  <2>1. PICK w \in Workers : /\ loops[w].pc = "apply" /\ loops[w].job = r
                             /\ UNCHANGED <<backups, restores, dumps, holders>>
                             /\ disk[loops[w].path]["ldif"] # None
                             /\ c = disk[loops[w].path]["ldif"]
    BY <1>1, <1>5, AppliedSteps
  <2>2. d = b /\ loops[w].path = p /\ p \in Stems /\ b \in Dumped(p)
        /\ backups[b].path = p
    BY <1>1, <2>1, RestoreStem
  <2>3. c \in BackupIds
    BY <1>1, <2>1, <2>2
  <2>4. c \in Dumped(p)
    BY <1>1, <2>1, <2>2, <2>3 DEF OneStem, Uses, Dumped
  <2>5. backups[b].status = "completed"
    BY <2>2, PathAssumption DEF PathsAgree, Dumped
  <2>6. ~ NameChangedHands => ServerOf[dumps[c].by[2]] = backups[b].server
    BY <1>1, <2>2, <2>4, <2>5, OneServer
  <2>7. QED
    BY <1>3, <2>1, <2>2, <2>4, <2>6 DEF Dumped
<1>6. QED
  BY <1>4, <1>5

-----------------------------------------------------------------------------
(* The theorems, for any number of workers and jobs that share files or not. *)

LEMMA InitFiles ==
    ASSUME Init
    PROVE  FileInv
<1>1. /\ \A b \in BackupIds : backups[b] = NoBackup("absent")
      /\ \A r \in RestoreIds : restores[r].status = "absent" /\ applied[r].times = 0
      /\ \A h \in Handlers : requests[h].path = None
      /\ \A w \in Workers : loops[w].pc = "idle" /\ \A s \in Schedules : tasks[w][s] = Idle
      /\ \A p \in Stems, k \in Suffixes : disk[p][k] = None
      /\ None \notin BackupIds
  BY StoreAssumption DEF Init, StoreInit, TaskInit, RoutesInit, RestoreInit, NoRequest,
     NoLoop, NoRestore
<1>2. PathsAgree
  BY <1>1 DEF PathsAgree, NoBackup
<1>3. DumpMoves
  BY <1>1 DEF DumpMoves, Idle
<1>4. ArchiveThere
  BY <1>1 DEF ArchiveThere, CompletedHasFile, NoBackup, Idle
<1>5. PlainGoes
  BY <1>1 DEF PlainGoes, PlainFileHasCause, Suffixes
<1>6. RestoredContent
  BY <1>1 DEF RestoredContent
<1>7. QED
  BY <1>2, <1>3, <1>4, <1>5, <1>6, InitRestores, InitOwner DEF FileInv

LEMMA NextFiles ==
    ASSUME FileInv, [Next]_vars
    PROVE  FileInv'
<1>1. RestoreInv /\ IInv
  BY DEF FileInv, RestoreInv
<1>2. QED
  BY <1>1, NextRestores, OwnerStep, PathsStep, DumpMovesStep, ArchiveStep, PlainStep,
     ContentStep DEF FileInv

\* Who has to do with the files of a stem, in every reachable state, and what
\* is in them while a backup moves from its dump to its commit.
THEOREM FileInvariance == Spec => []FileInv
<1>1. Init => FileInv
  BY InitFiles
<1>2. FileInv /\ [Next]_vars => FileInv'
  BY NextFiles
<1>3. QED
  BY <1>1, <1>2, PTL DEF Spec

\* A COMPLETED row names an archive that is there, whatever ran, crashed or was
\* deleted meanwhile, and that holds a dump which went to these files: its own,
\* unless jobs met there.  Only a delete request of such a backup takes the file
\* away, and that row then goes as well, or the request that left it is on
\* record: it was cut off, or a restore job refers to the row.
THEOREM CompletedRowsHaveFiles == Spec => []CompletedHasFile
<1>1. FileInv => CompletedHasFile
  BY DEF FileInv, ArchiveThere
<1>2. QED
  BY <1>1, FileInvariance, PTL

\* A dump left in the clear has a cause that can be named: its own coroutine,
\* its own row that failed, was abandoned or was deleted, or a restore that began.
THEOREM PlainFilesHaveCauses == Spec => []PlainFileHasCause
<1>1. FileInv => PlainFileHasCause
  BY DEF FileInv, PlainGoes
<1>2. QED
  BY <1>1, FileInvariance, PTL

\* A restore gives its LDAP server the dump of the backup that its job names or,
\* where jobs met in that backup's files, of another that went there.
THEOREM RestoresReadTheirBackup == Spec => []RestoredContent
<1>1. FileInv => RestoredContent
  BY DEF FileInv
<1>2. QED
  BY <1>1, FileInvariance, PTL

-----------------------------------------------------------------------------
(* What a worker's synchronous stretch holds, and what it finds there. *)

\* Which steps of a coroutine start, continue and end a stretch.
LEMMA HoldSteps ==
    ASSUME IInv, NEW w \in Workers, NEW s \in Schedules, TaskStep(w, s)
    PROVE  \/ /\ ~ InStretch(w, s) /\ InStretch(w, s)' /\ held[w] = None
              /\ held'[w] # None
              /\ tasks'[w][s].pc # "hung" => held'[w] = tasks'[w][s].path
           \/ /\ InStretch(w, s) /\ InStretch(w, s)' /\ UNCHANGED held
              /\ tasks[w][s].pc # "hung"
              /\ tasks'[w][s].path = tasks[w][s].path
           \/ InStretch(w, s) /\ ~ InStretch(w, s)' /\ held'[w] = None
           \/ ~ InStretch(w, s) /\ ~ InStretch(w, s)' /\ UNCHANGED held
<1>1. /\ TypeOK /\ TaskShape
      /\ held \in [Workers -> Stems \cup {None}]
      /\ tasks \in [Workers -> [Schedules -> Task]] /\ tasks[w][s] \in Task
  BY DEF IInv, TypeOK, StoreTypeOK, TaskTypeOK
<1>2. ASSUME NEW pc \in Steps, Goto(w, s, pc)
      PROVE  tasks'[w][s].pc = pc /\ tasks'[w][s].path = tasks[w][s].path
  <2>1. tasks'[w][s] = [tasks[w][s] EXCEPT !.pc = pc]
    BY <1>1, <1>2, GotoTask
  <2>2. QED
    BY <1>1, <2>1 DEF Task
<1>3. CASE Dump(w, s) \/ DumpHangs(w, s)
  <2>1. tasks[w][s].pc = "dump" /\ Hold(w, FileName(w, s))
    BY <1>3 DEF Dump, DumpHangs, At
  <2>2. FileName(w, s) \in Stems
    BY <1>1, <2>1, FileNameType DEF TaskShape
  <2>3. held[w] = None /\ held'[w] = FileName(w, s) /\ FileName(w, s) # None
    BY <1>1, <2>1, <2>2, PathAssumption DEF Hold
  <2>4. Dump(w, s) => /\ tasks'[w][s].pc = "compress"
                      /\ tasks'[w][s].path = FileName(w, s)
    BY <1>1 DEF Dump, Task
  <2>5. DumpHangs(w, s) => tasks'[w][s].pc = "hung"
    BY <1>2 DEF DumpHangs, Steps
  <2>6. QED
    BY <1>3, <2>1, <2>3, <2>4, <2>5 DEF InStretch
<1>4. CASE \/ Compress(w, s) \/ Encrypt(w, s) \/ Torn(w, s) \/ Size(w, s)
           \/ FileFault(w, s)
  <2>1. tasks[w][s].pc \in {"compress", "encrypt", "size"}
    BY <1>4 DEF Compress, Encrypt, Torn, Size, FileFault, Incomplete, At
  <2>2. \/ \E pc \in {"encrypt", "size"} : Onward(w, s, pc)
        \/ \E pc \in {"fail", "commit"} : Goto(w, s, pc) /\ Release(w)
    BY <1>4 DEF Compress, Encrypt, Torn, Size, FileFault, Raise
  <2>3. CASE \E pc \in {"encrypt", "size"} : Onward(w, s, pc)
    <3>1. PICK pc \in {"encrypt", "size"} : Goto(w, s, pc) /\ UNCHANGED held
      BY <2>3 DEF Onward, holds
    <3>2. tasks'[w][s].pc = pc /\ tasks'[w][s].path = tasks[w][s].path
      BY <1>2, <3>1 DEF Steps
    <3>3. QED
      BY <2>1, <3>1, <3>2 DEF InStretch
  <2>4. CASE \E pc \in {"fail", "commit"} : Goto(w, s, pc) /\ Release(w)
    <3>1. PICK pc \in {"fail", "commit"} : Goto(w, s, pc) /\ Release(w)
      BY <2>4
    <3>2. tasks'[w][s].pc = pc /\ held'[w] = None
      BY <1>1, <1>2, <3>1 DEF Steps, Release
    <3>3. QED
      BY <2>1, <3>2 DEF InStretch
  <2>5. QED
    BY <2>2, <2>3, <2>4
<1>5. CASE DumpFails(w, s)
  <2>1. tasks'[w][s].pc = "fail"
    BY <1>2, <1>5 DEF DumpFails, Steps
  <2>2. CASE tasks[w][s].pc = "dump"
    <3>1. UNCHANGED held
      BY <1>5, <2>2 DEF DumpFails, At, holds
    <3>2. QED
      BY <2>1, <2>2, <3>1 DEF InStretch
  <2>3. CASE tasks[w][s].pc # "dump"
    <3>1. tasks[w][s].pc = "compress" /\ Release(w)
      BY <1>5, <2>3 DEF DumpFails, At
    <3>2. held'[w] = None
      BY <1>1, <3>1 DEF Release
    <3>3. QED
      BY <2>1, <3>1, <3>2 DEF InStretch
  <2>4. QED
    BY <2>2, <2>3
<1>6. CASE \/ Fire(w, s) \/ InsertRow(w, s) \/ LoadRow(w, s) \/ LoadServer(w, s)
           \/ Begin(w, s) \/ Complete(w, s) \/ Fail(w, s) \/ Notify(w, s)
           \/ Stale(w, s) \/ DbFault(w, s)
  <2>1. UNCHANGED held
    BY <1>6 DEF Fire, InsertRow, LoadRow, LoadServer, Begin, Complete, Fail, Notify,
       Stale, DbFault, storeVars, holds
  <2>2. ~ InStretch(w, s)
    BY <1>6 DEF Fire, Running, InsertRow, LoadRow, LoadServer, Begin, Complete, Fail,
       Notify, Stale, DbFault, At, InStretch
  <2>3. ~ InStretch(w, s)'
    <3>1. tasks[w][s].pc # "dump"
      BY <1>6 DEF Fire, Running, InsertRow, LoadRow, LoadServer, Begin, Complete, Fail,
         Notify, Stale, DbFault, At
    <3>2. tasks'[w][s].pc \notin {"compress", "encrypt", "size", "hung"}
      BY <1>1, <2>2, <3>1, TaskGoes DEF InStretch, Idle
    <3>3. QED
      BY <3>2 DEF InStretch
  <2>4. QED
    BY <2>1, <2>2, <2>3
<1>7. QED
  BY <1>3, <1>4, <1>5, <1>6 DEF TaskStep

\* And of a queue loop.
LEMMA RestoreHoldSteps ==
    ASSUME IInv, NEW w \in Workers, RestoreStep(w)
    PROVE  \/ /\ ~ LInStretch(w) /\ LInStretch(w)' /\ held[w] = None
              /\ held'[w] # None /\ held'[w] = loops'[w].path
           \/ /\ LInStretch(w) /\ LInStretch(w)' /\ UNCHANGED held
              /\ loops'[w].path = loops[w].path
           \/ LInStretch(w) /\ ~ LInStretch(w)' /\ held'[w] = None
           \/ ~ LInStretch(w) /\ ~ LInStretch(w)' /\ UNCHANGED held
<1>1. /\ held \in [Workers -> Stems \cup {None}]
      /\ loops \in [Workers -> Loop] /\ loops[w] \in Loop
  BY DEF IInv, TypeOK, StoreTypeOK, RestoreTypeOK
<1>2. ASSUME NEW pc \in RestoreSteps, LGoto(w, pc)
      PROVE  loops'[w].pc = pc /\ loops'[w].path = loops[w].path
  <2>1. loops'[w] = [loops[w] EXCEPT !.pc = pc]
    BY <1>1, <1>2, GotoLoop
  <2>2. QED
    BY <1>1, <2>1 DEF Loop
<1>3. ASSUME LEnd(w)
      PROVE  loops'[w].pc = "idle"
  BY <1>1, <1>3, EndLoop DEF NoLoop
<1>4. CASE Decrypt(w)
  <2>1. loops[w].pc = "decrypt"
    BY <1>4 DEF Decrypt, LAt
  <2>2. CASE UNCHANGED holds /\ LGoto(w, "fail")
    BY <1>2, <2>1, <2>2 DEF LInStretch, RestoreSteps, holds
  <2>3. CASE /\ loops[w].path # None
             /\ Hold(w, loops[w].path) /\ LGoto(w, "decompress")
    <3>1. held[w] = None /\ held'[w] = loops[w].path
      BY <1>1, <2>3 DEF Hold
    <3>2. loops'[w].pc = "decompress" /\ loops'[w].path = loops[w].path
      BY <1>2, <2>3 DEF RestoreSteps
    <3>3. QED
      BY <2>1, <2>3, <3>1, <3>2 DEF LInStretch
  <2>4. QED
    BY <1>4, <2>2, <2>3 DEF Decrypt, FileAt
<1>5. CASE Decompress(w) \/ ApplyHangs(w)
  <2>1. LInStretch(w) /\ UNCHANGED held
    BY <1>5 DEF Decompress, ApplyHangs, LAt, LInStretch, holds
  <2>2. LInStretch(w)' /\ loops'[w].path = loops[w].path
    BY <1>2, <1>5 DEF Decompress, ApplyHangs, LInStretch, RestoreSteps
  <2>3. QED
    BY <2>1, <2>2
<1>6. CASE DecompressFails(w) \/ Apply(w)
  <2>1. LInStretch(w) /\ Release(w)
    BY <1>6 DEF DecompressFails, LRaise, Apply, LAt, LInStretch
  <2>2. held'[w] = None
    BY <1>1, <2>1 DEF Release
  <2>3. ~ LInStretch(w)'
    BY <1>2, <1>6 DEF DecompressFails, LRaise, Apply, LInStretch, RestoreSteps
  <2>4. QED
    BY <2>1, <2>2, <2>3
<1>7. CASE \/ PopRestore(w) \/ SelectBackup(w) \/ SelectServer(w) \/ BeginRestore(w)
           \/ CompleteRestore(w) \/ NotifyRestore(w) \/ FailRestore(w)
           \/ RestoreDbFault(w)
  <2>1. UNCHANGED held
    BY <1>7 DEF PopRestore, SelectBackup, SelectServer, BeginRestore, CompleteRestore,
       NotifyRestore, FailRestore, RestoreDbFault, storeVars, holds
  <2>2. ~ LInStretch(w)
    BY <1>7 DEF PopRestore, SelectBackup, SelectServer, BeginRestore, CompleteRestore,
       NotifyRestore, FailRestore, RestoreDbFault, LAt, LInStretch
  <2>3. ~ LInStretch(w)'
    <3>1. CASE PopRestore(w)
      BY <1>1, <3>1 DEF PopRestore, LInStretch
    <3>2. CASE SelectBackup(w)
      <4>1. ASSUME NEW q, loops' = [loops EXCEPT ![w].pc = "server", ![w].path = q]
            PROVE  loops'[w].pc = "server"
        BY <1>1, <4>1 DEF Loop
      <4>2. QED
        BY <1>3, <3>2, <4>1 DEF SelectBackup, LInStretch
    <3>3. CASE SelectServer(w) \/ BeginRestore(w) \/ CompleteRestore(w)
      BY <1>2, <1>3, <3>3 DEF SelectServer, BeginRestore, CompleteRestore, LInStretch,
         RestoreSteps
    <3>4. CASE NotifyRestore(w) \/ FailRestore(w) \/ RestoreDbFault(w)
      BY <1>3, <3>4 DEF NotifyRestore, FailRestore, RestoreDbFault, LInStretch
    <3>5. QED
      BY <1>7, <3>1, <3>2, <3>3, <3>4
  <2>4. QED
    BY <2>1, <2>2, <2>3
<1>8. QED
  BY <1>4, <1>5, <1>6, <1>7 DEF RestoreStep

\* A step of one worker leaves alone what another holds.
LEMMA HeldElsewhere ==
    ASSUME TypeOK, NEW w \in Workers, NEW u \in Workers, u # w,
           \/ UNCHANGED holds
           \/ Release(u)
           \/ \E q \in Stems : Hold(u, q)
    PROVE  held'[w] = held[w]
BY DEF TypeOK, StoreTypeOK, holds, Release, Hold

LEMMA HeldByOneStep ==
    ASSUME IInv, HeldByOne, [Next]_vars
    PROVE  HeldByOne'
<1>1. /\ TypeOK
      /\ tasks \in [Workers -> [Schedules -> Task]]
      /\ loops \in [Workers -> Loop]
  BY DEF IInv, TypeOK, TaskTypeOK, RestoreTypeOK
<1> DEFINE Held(w) ==
        /\ \A s, t \in Schedules : InStretch(w, s) /\ InStretch(w, t) => s = t
        /\ \A s \in Schedules : InStretch(w, s) =>
              /\ held[w] # None
              /\ ~ LInStretch(w)
              /\ tasks[w][s].pc # "hung" => held[w] = tasks[w][s].path
        /\ LInStretch(w) => held[w] # None /\ held[w] = loops[w].path
<1> SUFFICES ASSUME NEW w \in Workers
             PROVE  Held(w)'
  BY DEF HeldByOne
<1>2. Held(w)
  BY DEF HeldByOne
<1>3. ASSUME held'[w] = held[w], loops'[w] = loops[w],
             \A s \in Schedules : tasks'[w][s] = tasks[w][s]
      PROVE  Held(w)'
  BY <1>2, <1>3 DEF InStretch, LInStretch
<1>4. ASSUME NEW u \in Workers, NEW s \in Schedules, TaskStep(u, s), UNCHANGED loops
      PROVE  Held(w)'
  <2>1. \A x \in Workers, r \in Schedules : x # u \/ r # s => tasks'[x][r] = tasks[x][r]
    BY <1>1, <1>4, TaskOthers
  <2>2. CASE u # w
    <3>1. held'[w] = held[w]
      BY <1>1, <1>4, <2>2, HeldElsewhere, TaskHolds
    <3>2. QED
      BY <1>3, <1>4, <2>1, <2>2, <3>1
  <2>3. CASE u = w
    <3>1. \A r \in Schedules : r # s => (InStretch(w, r)' <=> InStretch(w, r))
                                        /\ tasks'[w][r] = tasks[w][r]
      BY <2>1, <2>3 DEF InStretch
    <3>2. LInStretch(w)' <=> LInStretch(w)
      BY <1>4 DEF LInStretch
    <3>3. CASE /\ ~ InStretch(w, s) /\ InStretch(w, s)' /\ held[w] = None
               /\ held'[w] # None
               /\ tasks'[w][s].pc # "hung" => held'[w] = tasks'[w][s].path
      <4>1. ~ LInStretch(w) /\ \A r \in Schedules : ~ InStretch(w, r)
        BY <1>2, <3>3
      <4>2. QED
        BY <3>1, <3>2, <3>3, <4>1
    <3>4. CASE /\ InStretch(w, s) /\ InStretch(w, s)' /\ UNCHANGED held
               /\ tasks[w][s].pc # "hung"
               /\ tasks'[w][s].path = tasks[w][s].path
      BY <1>2, <1>4, <3>1, <3>2, <3>4
    <3>5. CASE InStretch(w, s) /\ ~ InStretch(w, s)' /\ held'[w] = None
      <4>1. ~ LInStretch(w) /\ \A r \in Schedules : r # s => ~ InStretch(w, r)
        BY <1>2, <3>5
      <4>2. QED
        BY <3>1, <3>2, <3>5, <4>1
    <3>6. CASE ~ InStretch(w, s) /\ ~ InStretch(w, s)' /\ UNCHANGED held
      BY <1>2, <1>4, <3>1, <3>2, <3>6
    <3>7. QED
      BY <1>4, <2>3, <3>3, <3>4, <3>5, <3>6, HoldSteps
  <2>4. QED
    BY <2>2, <2>3
<1>5. ASSUME NEW u \in Workers, RestoreStep(u)
      PROVE  Held(w)'
  <2>1. UNCHANGED tasks
    BY <1>5 DEF RestoreStep, PopRestore, SelectBackup, SelectServer, BeginRestore,
       Decrypt, Decompress, DecompressFails, Apply, ApplyHangs, CompleteRestore,
       NotifyRestore, FailRestore, RestoreDbFault, elsewhere, taskVars
  <2>2. CASE u # w
    <3>1. loops'[w] = loops[w]
      BY <1>1, <1>5, <2>2 DEF RestoreStep, PopRestore, SelectBackup, SelectServer,
         BeginRestore, Decrypt, Decompress, DecompressFails, LRaise, Apply,
         ApplyHangs, CompleteRestore, NotifyRestore, FailRestore, RestoreDbFault,
         LGoto, LEnd
    <3>2. held'[w] = held[w]
      BY <1>1, <1>5, <2>2, HeldElsewhere, LoopHolds
    <3>3. QED
      BY <1>3, <2>1, <3>1, <3>2
  <2>3. CASE u = w
    <3>1. \A r \in Schedules : (InStretch(w, r)' <=> InStretch(w, r))
                               /\ tasks'[w][r] = tasks[w][r]
      BY <2>1 DEF InStretch
    <3>2. QED
      BY <1>2, <1>5, <2>3, <3>1, RestoreHoldSteps
  <2>4. QED
    BY <2>2, <2>3
<1>6. ASSUME NEW u \in Workers, Crash(u)
      PROVE  Held(w)'
  <2>1. CASE u = w
    <3>1. loops'[w] = NoLoop /\ \A s \in Schedules : tasks'[w][s] = Idle
      BY <1>1, <1>6, <2>1 DEF Crash
    <3>2. QED
      BY <3>1 DEF NoLoop, Idle, InStretch, LInStretch
  <2>2. CASE u # w
    <3>1. held'[w] = held[w]
      BY <1>1, <1>6, <2>2, HeldElsewhere DEF Crash
    <3>2. QED
      BY <1>1, <1>3, <1>6, <2>2, <3>1 DEF Crash
  <2>3. QED
    BY <2>1, <2>2
<1>7. CASE ~ \E u \in Workers : BackupWork(u) \/ RestoreStep(u) \/ Crash(u)
  <2>1. UNCHANGED <<held, loops, tasks>>
    <3>1. UNCHANGED holds
      BY <1>7, ElsewhereHolds
    <3>2. UNCHANGED tasks
      BY <1>1, <1>7, RowsAndTasksElsewhere DEF taskVars
    <3>3. UNCHANGED loops
      BY <1>7 DEF Next, Operator, Clock, BackupApi, RestoreApi, CreateSelect,
         CreationStep, CreateInsert, CreatePush, CreationFault, restoreVars, vars
    <3>4. QED
      BY <3>1, <3>2, <3>3 DEF holds
  <2>2. QED
    BY <1>3, <2>1
<1>8. QED
  BY <1>4, <1>5, <1>6, <1>7 DEF BackupWork, restoreVars

LEMMA MeetingsNotedStep ==
    ASSUME IInv, MeetingsNoted, [Next]_vars
    PROVE  MeetingsNoted'
<1>1. /\ TypeOK /\ held \in [Workers -> Stems \cup {None}]
  BY DEF IInv, TypeOK, StoreTypeOK
<1>2. CASE UNCHANGED holds
  BY <1>2 DEF MeetingsNoted, holds
<1>3. ASSUME NEW x \in Workers, Release(x)
      PROVE  MeetingsNoted'
  BY <1>1, <1>3 DEF MeetingsNoted, Release
<1>4. ASSUME NEW x \in Workers, NEW q \in Stems, Hold(x, q)
      PROVE  MeetingsNoted'
  <2>1. /\ \A u \in Workers : held'[u] = IF u = x THEN q ELSE held[u]
        /\ met \subseteq met'
        /\ (\E u \in Workers \ {x} : held[u] = q) => q \in met'
    BY <1>1, <1>4 DEF Hold
  <2>2. QED
    BY <2>1 DEF MeetingsNoted
<1>5. ASSUME NEW x \in Workers, BackupWork(x) \/ RestoreStep(x) \/ Crash(x)
      PROVE  \/ UNCHANGED holds
             \/ Release(x)
             \/ \E q \in Stems : Hold(x, q)
  BY <1>5, TaskHolds, LoopHolds DEF BackupWork, Crash
<1>6. QED
  BY <1>2, <1>3, <1>4, <1>5, ElsewhereHolds

\* While a coroutine is between its dump and its encryption, nobody else touches
\* the plain files of its stem, or two workers have met there.
LEMMA StretchAlone ==
    ASSUME IInv, HeldByOne, MeetingsNoted, [Next]_vars,
           NEW w \in Workers, NEW s \in Schedules,
           tasks[w][s].pc \in {"compress", "encrypt"}, tasks'[w][s] = tasks[w][s],
           tasks[w][s].path \notin met'
    PROVE  LET p == tasks[w][s].path IN
           disk'[p]["ldif"] = disk[p]["ldif"] /\ disk'[p]["gz"] = disk[p]["gz"]
<1> DEFINE p == tasks[w][s].path
<1>1. /\ TypeOK /\ TaskShape
      /\ disk \in [Stems -> [Suffixes -> BackupIds \cup {None}]]
      /\ tasks \in [Workers -> [Schedules -> Task]]
      /\ held \in [Workers -> Stems \cup {None}]
      /\ "ldif" \in Suffixes /\ "gz" \in Suffixes /\ "enc" \in Suffixes
  BY DEF IInv, TypeOK, StoreTypeOK, TaskTypeOK, Suffixes
<1>2. /\ held[w] = p /\ p # None /\ p \notin met
      /\ ~ LInStretch(w)
      /\ \A r \in Schedules : InStretch(w, r) => r = s
  BY MetStays DEF HeldByOne, InStretch
<1>3. p \in Stems
  BY <1>1, <1>2
\* To enter a stretch on p is to meet w there.
<1>4. ASSUME NEW u \in Workers, Hold(u, p)
      PROVE  FALSE
  BY <1>1, <1>2, <1>4 DEF Hold
\* To be in one on p is to be in the stretch of s.
<1>5. ASSUME NEW u \in Workers, held[u] = p
      PROVE  u = w
  BY <1>2, <1>5 DEF MeetingsNoted
<1>6. ASSUME NEW u \in Workers, NEW r \in Schedules, TaskDisk(u, r)
      PROVE  disk'[p] = disk[p]
  <2>1. CASE Dump(u, r) /\ FileName(u, r) = p
    BY <1>4, <2>1 DEF Dump
  <2>2. CASE /\ TaskStep(u, r) \/ Crash(u)
             /\ tasks[u][r].pc \in {"compress", "encrypt"} /\ tasks[u][r].path = p
    <3>1. u = w /\ r = s
      <4>1. InStretch(u, r) /\ held[u] = p
        BY <2>2 DEF HeldByOne, InStretch
      <4>2. QED
        BY <1>2, <1>5, <4>1
    <3>2. tasks'[w][s].pc # tasks[w][s].pc
      <4>1. CASE TaskStep(w, s)
        BY <1>1, <4>1, TaskGoes DEF Idle
      <4>2. CASE Crash(w)
        BY <1>1, <4>2 DEF Crash, Idle
      <4>3. QED
        BY <2>2, <3>1, <4>1, <4>2
    <3>3. QED
      BY <3>2
  <2>3. \/ Dump(u, r) /\ (FileName(u, r) = p \/ disk'[p] = disk[p])
        \/ /\ TaskStep(u, r) \/ Crash(u)
           /\ tasks[u][r].pc \in {"compress", "encrypt"}
           /\ tasks[u][r].path = p \/ disk'[p] = disk[p]
    BY <1>3, <1>6 DEF TaskDisk, Writes, Mixed, TaskStep, Compress, Encrypt, Torn, At
  <2>4. QED
    BY <2>1, <2>2, <2>3
<1>7. ASSUME NEW u \in Workers, Decrypt(u) \/ Decompress(u) \/ DecompressFails(u),
             NEW f, Writes(loops[u].path, f)
      PROVE  disk'[p] = disk[p]
  <2>1. CASE loops[u].path # p
    BY <1>3, <1>7, <2>1 DEF Writes
  <2>2. CASE Decrypt(u) /\ loops[u].path = p
    BY <1>4, <2>2 DEF Decrypt
  <2>3. CASE (Decompress(u) \/ DecompressFails(u)) /\ loops[u].path = p
    <3>1. LInStretch(u)
      BY <2>3 DEF Decompress, DecompressFails, LAt, LInStretch
    <3>2. held[u] = p
      BY <2>3, <3>1 DEF HeldByOne
    <3>3. QED
      BY <1>2, <1>5, <3>1, <3>2
  <2>4. QED
    BY <1>7, <2>1, <2>2, <2>3
<1>8. ASSUME NEW q, Writes(q, [disk[q] EXCEPT !["enc"] = None])
      PROVE  disk'[p]["ldif"] = disk[p]["ldif"] /\ disk'[p]["gz"] = disk[p]["gz"]
  BY <1>1, <1>3, <1>8 DEF Writes
<1>9. QED
  BY <1>6, <1>7, <1>8, DiskSteps

LEMMA OwnDumpStep ==
    ASSUME IInv, HeldByOne, MeetingsNoted, OwnDump, [Next]_vars
    PROVE  OwnDump'
<1>1. /\ TypeOK /\ TaskShape /\ TaskShape'
      /\ disk \in [Stems -> [Suffixes -> BackupIds \cup {None}]]
      /\ "ldif" \in Suffixes /\ "gz" \in Suffixes
  BY NextInv DEF IInv, TypeOK, StoreTypeOK, Suffixes
<1> SUFFICES ASSUME NEW w \in Workers, NEW s \in Schedules,
                    NEW b, b = tasks'[w][s].backup, NEW p, p = tasks'[w][s].path,
                    p \notin met', tasks'[w][s].pc \in {"compress", "encrypt"}
             PROVE  /\ tasks'[w][s].pc = "compress" => disk'[p]["ldif"] = b
                    /\ tasks'[w][s].pc = "encrypt" => disk'[p]["gz"] = b
  BY DEF OwnDump
<1>2. p \in Stems /\ p \notin met
  <2>1. tasks'[w][s] \in Task
    BY NextInv DEF IInv, TypeOK, TaskTypeOK
  <2>2. QED
    BY <1>1, <2>1, MetStays DEF Task, TaskShape
<1>3. CASE tasks'[w][s] = tasks[w][s]
  <2>1. disk'[p]["ldif"] = disk[p]["ldif"] /\ disk'[p]["gz"] = disk[p]["gz"]
    BY <1>3, StretchAlone
  <2>2. QED
    BY <1>2, <1>3, <2>1 DEF OwnDump
<1>4. CASE TaskStep(w, s) /\ tasks'[w][s] # tasks[w][s]
  <2>1. \/ Dump(w, s) /\ tasks'[w][s].pc = "compress"
        \/ /\ Compress(w, s) \/ Torn(w, s)
           /\ tasks[w][s].pc = "compress" /\ tasks'[w][s].pc = "encrypt"
    BY <1>1, <1>4, TaskGoes DEF Idle
  <2>2. CASE Dump(w, s) /\ tasks'[w][s].pc = "compress"
    <3>1. tasks'[w][s].path = FileName(w, s) /\ tasks'[w][s].backup = tasks[w][s].backup
      <4>1. tasks[w][s] \in Task
        BY <1>1 DEF TypeOK, TaskTypeOK
      <4>2. QED
        BY <1>1, <2>2, <4>1 DEF Dump, Task, TypeOK, TaskTypeOK
    <3>2. PutFile(p, "ldif", b)
      BY <2>2, <3>1 DEF Dump
    <3>3. Writes(p, [disk[p] EXCEPT !["ldif"] = b])
      BY <1>1, <1>2, <3>2, PutWrites
    <3>4. disk'[p]["ldif"] = b
      BY <1>1, <1>2, <3>3 DEF Writes
    <3>5. QED
      BY <2>2, <3>4
  <2>3. CASE /\ Compress(w, s) \/ Torn(w, s)
             /\ tasks[w][s].pc = "compress" /\ tasks'[w][s].pc = "encrypt"
    <3>1. tasks[w][s].backup = b /\ tasks[w][s].path = p
      <4>1. ~ Dump(w, s) /\ tasks[w][s].pc # "insert" /\ tasks'[w][s] # Idle
        BY <2>3 DEF Dump, At, Idle
      <4>2. QED
        BY <1>1, <1>4, <4>1, TaskPaths
    <3>2. disk'[p]["gz"] = disk[p]["ldif"]
      BY <1>2, <1>4, <2>3, <3>1, CompressMoves
    <3>3. disk[p]["ldif"] = b
      BY <1>2, <2>3, <3>1 DEF OwnDump
    <3>4. QED
      BY <2>3, <3>2, <3>3
  <2>4. QED
    BY <2>1, <2>2, <2>3
<1>5. QED
  BY <1>1, <1>3, <1>4, TaskPaths DEF Idle, TaskStep

\* A row that is COMPLETED, FAILED or abandoned stays so, or is deleted.
LEMMA EndedStays ==
    ASSUME IInv, [Next]_vars, NEW p, NEW c \in BackupIds,
           \/ backups[c].status = "completed" /\ backups[c].path = p
           \/ /\ spent["disk"] > 0 \/ p \in met
              /\ backups[c].status = "failed"
           \/ Abandoned(c)
           \/ backups[c].status = "deleted"
    PROVE  Account(c, p)'
<1>1. (spent["disk"] > 0 \/ p \in met) => (spent'["disk"] > 0 \/ p \in met')
  <2>1. TypeOK /\ TypeOK' /\ "disk" \in Kinds
    BY NextInv DEF IInv, Kinds
  <2>2. QED
    BY <2>1, SpentGrows, MetStays DEF TypeOK, StoreTypeOK
<1>2. backups[c].status = "failed" => backups'[c].status \in {"failed", "deleted"}
  BY RowSteps DEF NoBackup
<1>3. QED
  BY <1>1, <1>2, PathStays, AbandonedStays DEF Account

\* What accounts for the archive of a stem goes on to do so: the coroutine
\* finds it there and commits, is lost or finds its row deleted.
LEMMA AccountStays ==
    ASSUME IInv, OwnerInv, [Next]_vars,
           NEW p \in Stems, NEW c \in Dumped(p), Account(c, p), disk[p]["enc"] # None
    PROVE  Account(c, p)' /\ c \in Dumped(p)'
<1>1. /\ TypeOK /\ TypeOK' /\ TaskShape /\ RowFollowsTask /\ Fresh /\ OneStem
      /\ spent \in [Kinds -> Nat] /\ spent' \in [Kinds -> Nat] /\ "disk" \in Kinds
      /\ p # None /\ c \in BackupIds /\ c # None
      /\ dumps[c].path = p
      /\ backups \in [BackupIds -> Backup] /\ backups[c] \in Backup
  BY StoreAssumption, PathAssumption, NextInv
     DEF IInv, OwnerInv, TypeOK, StoreTypeOK, Dumped, Kinds
<1>2. c \in Dumped(p)'
  BY <1>1, DumpedStays
<1>3. CASE \/ backups[c].status = "completed" /\ backups[c].path = p
           \/ /\ spent["disk"] > 0 \/ p \in met
              /\ backups[c].status = "failed"
           \/ Abandoned(c)
           \/ backups[c].status = "deleted"
  BY <1>1, <1>2, <1>3, EndedStays
<1>4. CASE TaskAt(c, {"size", "commit"}) /\ backups[c].status # "deleted"
  <2>1. PICK w \in Workers, s \in Schedules :
                tasks[w][s].backup = c /\ tasks[w][s].pc \in {"size", "commit"}
    BY <1>4 DEF TaskAt
  <2>2. CASE tasks'[w][s] = tasks[w][s]
    BY <1>2, <2>1, <2>2 DEF TaskAt, Account
  <2>3. CASE TaskStep(w, s) /\ tasks'[w][s].backup = c
    <3>1. tasks[w][s].path = p
      <4>1. tasks[w][s] \in Task
        BY <1>1 DEF TypeOK, TaskTypeOK
      <4>2. tasks[w][s].path \in Stems
        BY <1>1, <2>1, <4>1 DEF Task, TaskShape
      <4>3. QED
        BY <1>1, <2>1, <4>2 DEF OneStem, Uses
    <3>2. Size(w, s) \/ Complete(w, s)
      BY <1>1, <2>1, <2>3, TaskGoes DEF Idle
    <3>3. CASE Size(w, s)
      <4>1. Goto(w, s, "commit")
        BY <3>1, <3>3 DEF Size
      <4>2. tasks'[w][s].pc = "commit"
        BY <1>1, <4>1, GotoGoes DEF Steps
      <4>3. QED
        BY <1>2, <2>3, <4>2 DEF TaskAt, Account
    <3>4. CASE Complete(w, s)
      <4>1. backups'[c].status = "completed" /\ backups'[c].path = p
        BY <1>1, <2>1, <3>1, <3>4 DEF Complete, Backup
      <4>2. QED
        BY <1>2, <4>1 DEF Account
    <3>5. QED
      BY <3>2, <3>3, <3>4
  <2>4. QED
    <3>1. tasks[w][s].pc \in During
      BY <2>1 DEF During
    <3>2. QED
      BY <1>1, <1>2, <1>4, <2>1, <2>2, <2>3, <3>1, InProgressGoes DEF Account
<1>5. CASE /\ spent["disk"] > 0 \/ p \in met
           /\ TaskAt(c, {"fail"}) /\ backups[c].status # "deleted"
  <2>1. PICK w \in Workers, s \in Schedules :
                tasks[w][s].backup = c /\ tasks[w][s].pc = "fail"
    BY <1>5 DEF TaskAt
  <2>2. spent'["disk"] > 0 \/ p \in met'
    BY <1>1, <1>5, SpentGrows, MetStays
  <2>3. CASE tasks'[w][s] = tasks[w][s]
    BY <1>2, <2>1, <2>2, <2>3 DEF TaskAt, Account
  <2>4. CASE TaskStep(w, s) /\ tasks'[w][s].backup = c
    <3>1. Fail(w, s)
      BY <1>1, <2>1, <2>4, TaskGoes DEF Idle
    <3>2. backups'[c].status = "failed"
      BY <1>1, <2>1, <3>1 DEF Fail, SetStatus, Backup
    <3>3. QED
      BY <1>2, <2>2, <3>2 DEF Account
  <2>5. QED
    <3>1. tasks[w][s].pc \in During
      BY <2>1 DEF During
    <3>2. QED
      BY <1>1, <1>2, <1>5, <2>1, <2>3, <2>4, <3>1, InProgressGoes DEF Account
<1>6. QED
  BY <1>3, <1>4, <1>5 DEF Account

\* The steps that write an archive: an encryption that ends well, one that the
\* disk or a crash breaks off, and one that another worker came into.
LEMMA ArchiveWritten ==
    ASSUME IInv, [Next]_vars, NEW p \in Stems, disk'[p]["enc"] \notin {None, disk[p]["enc"]}
    PROVE  \E w \in Workers, s \in Schedules :
              /\ tasks[w][s].pc = "encrypt" /\ tasks[w][s].path = p
              /\ \/ Encrypt(w, s) /\ disk'[p]["enc"] = disk[p]["gz"]
                 \/ /\ Torn(w, s) \/ FileFault(w, s) \/ Crash(w)
                    /\ disk'[p]["enc"] = tasks[w][s].backup
<1>1. /\ TypeOK
      /\ disk \in [Stems -> [Suffixes -> BackupIds \cup {None}]]
      /\ "ldif" \in Suffixes /\ "gz" \in Suffixes /\ "enc" \in Suffixes
  BY DEF IInv, TypeOK, StoreTypeOK, Suffixes
<1>2. ASSUME NEW q, NEW c, Writes(q, [disk[q] EXCEPT !["enc"] = c])
      PROVE  q = p /\ disk'[p]["enc"] = c
  BY <1>1, <1>2 DEF Writes
<1>3. ASSUME NEW q, NEW c, \/ Writes(q, [disk[q] EXCEPT !["ldif"] = c])
                           \/ Writes(q, [disk[q] EXCEPT !["gz"] = c])
                           \/ Writes(q, [disk[q] EXCEPT !["gz"] = c, !["ldif"] = None])
                           \/ Writes(q, [disk[q] EXCEPT !["enc"] = None])
      PROVE  FALSE
  BY <1>1, <1>3 DEF Writes
<1>4. ASSUME NEW q, Writes(q, [disk[q] EXCEPT !["enc"] = disk[q]["gz"], !["gz"] = None])
      PROVE  q = p /\ disk'[p]["enc"] = disk[p]["gz"]
  BY <1>1, <1>4 DEF Writes
<1>5. ASSUME NEW w \in Workers, NEW s \in Schedules, Torn(w, s),
             Mixed(tasks[w][s].path, tasks[w][s].backup)
      PROVE  /\ tasks[w][s].pc = "encrypt" /\ tasks[w][s].path = p
             /\ disk'[p]["enc"] = tasks[w][s].backup
  <2> DEFINE q == tasks[w][s].path
             c == tasks[w][s].backup
  <2>1. PICK x, y, z \in BackupIds \cup {None} :
                /\ z \in {c, disk[q]["enc"]}
                /\ Writes(q, [disk[q] EXCEPT !["ldif"] = x, !["gz"] = y, !["enc"] = z])
    BY <1>5 DEF Mixed
  <2>2. q = p /\ disk'[p]["enc"] = z
    BY <1>1, <2>1 DEF Writes
  <2>3. ~ At(w, s, "compress")
    <3>1. ASSUME NEW x1, NEW y1,
                 disk' = [disk EXCEPT ![p]["ldif"] = x1, ![p]["gz"] = y1]
          PROVE  FALSE
      BY <1>1, <3>1
    <3>2. QED
      BY <1>5, <2>2, <3>1 DEF Torn, At
  <2>4. QED
    BY <1>5, <2>1, <2>2, <2>3 DEF Torn, At
<1>6. disk' # disk
  OBVIOUS
<1>7. PICK w \in Workers, s \in Schedules : TaskDisk(w, s)
  BY <1>3, <1>6, DiskSteps
<1>8. \/ /\ Encrypt(w, s)
         /\ tasks[w][s].path = p /\ disk'[p]["enc"] = disk[p]["gz"]
      \/ /\ Torn(w, s) \/ FileFault(w, s) \/ Crash(w)
         /\ tasks[w][s].pc = "encrypt" /\ tasks[w][s].path = p
         /\ disk'[p]["enc"] = tasks[w][s].backup
  BY <1>2, <1>3, <1>4, <1>5, <1>7 DEF TaskDisk, At
<1>9. QED
  BY <1>8 DEF Encrypt, At

LEMMA ArchiveRowStep ==
    ASSUME HeldInv, [Next]_vars
    PROVE  ArchiveHasRow'
<1>1. /\ IInv /\ TypeOK /\ TaskShape /\ Fresh /\ OneStem /\ OwnDump /\ OwnerInv
      /\ ArchiveHasRow
      /\ disk \in [Stems -> [Suffixes -> BackupIds \cup {None}]]
      /\ "gz" \in Suffixes /\ "enc" \in Suffixes
  BY DEF HeldInv, IInv, OwnerInv, TypeOK, StoreTypeOK, Suffixes
<1> SUFFICES ASSUME NEW p \in Stems, NEW b \in BackupIds, disk'[p]["enc"] = b
             PROVE  \E c \in BackupIds : /\ c \in Dumped(p)'
                                         /\ c = b \/ p \in met'
                                         /\ Account(c, p)'
  BY DEF ArchiveHasRow, Account, Dumped, TaskAt, Abandoned
<1>2. b # None /\ met \subseteq met'
  BY <1>1, StoreAssumption, MetStays
\* The archive was there.
<1>3. CASE disk[p]["enc"] = b
  <2>1. PICK c \in Dumped(p) : (c = b \/ p \in met) /\ Account(c, p)
    BY <1>1, <1>3 DEF ArchiveHasRow
  <2>2. Account(c, p)' /\ c \in Dumped(p)'
    BY <1>1, <1>2, <1>3, <2>1, AccountStays
  <2>3. QED
    BY <1>2, <2>1, <2>2 DEF Dumped
\* This step wrote it: what the coroutine dumped itself, unless another worker
\* came into its files.
<1>4. CASE disk[p]["enc"] # b
  <2>1. PICK w \in Workers, s \in Schedules :
                /\ tasks[w][s].pc = "encrypt" /\ tasks[w][s].path = p
                /\ \/ Encrypt(w, s) /\ b = disk[p]["gz"]
                   \/ /\ Torn(w, s) \/ FileFault(w, s) \/ Crash(w)
                      /\ b = tasks[w][s].backup
    BY <1>1, <1>2, <1>4, ArchiveWritten
  <2>2. PICK c \in BackupIds : c = tasks[w][s].backup
    <3>1. tasks[w][s] \in Task
      BY <1>1 DEF TypeOK, TaskTypeOK
    <3>2. QED
      BY <1>1, <2>1, <3>1 DEF Task, TaskShape
  <2>3. c \in Dumped(p)'
    <3>1. c \in Dumped(p) /\ p # None
      BY <1>1, <2>1, <2>2, PathAssumption DEF OneStem, Uses, Dumped
    <3>2. QED
      BY <1>1, <3>1, DumpedStays
  <2>4. c = b \/ p \in met'
    BY <1>1, <1>2, <2>1, <2>2 DEF OwnDump
  <2>5. ASSUME NEW pc \in {"size", "fail"}, Goto(w, s, pc)
        PROVE  tasks'[w][s].pc = pc /\ tasks'[w][s].backup = c
    BY <1>1, <2>2, <2>5, GotoGoes DEF Steps
  <2>6. CASE Encrypt(w, s) /\ b = disk[p]["gz"]
    <3>1. Goto(w, s, "size")
      BY <1>2, <2>1, <2>6 DEF Encrypt, Onward
    <3>2. QED
      BY <2>2, <2>3, <2>4, <2>5, <3>1 DEF TaskAt, Account
  <2>7. CASE FileFault(w, s)
    <3>1. Goto(w, s, "fail") /\ spent'["disk"] > 0
      BY <1>1, <2>7, SpendGrows DEF FileFault, Raise, TypeOK, StoreTypeOK, Kinds
    <3>2. QED
      BY <2>2, <2>3, <2>4, <2>5, <3>1 DEF TaskAt, Account
  <2>8. CASE Torn(w, s)
    <3>1. p \in met'
      BY <1>2, <2>1, <2>8 DEF Torn
    <3>2. \E pc \in {"size", "fail"} : Goto(w, s, pc)
      BY <2>1, <2>8 DEF Torn, At, Onward, Raise
    <3>3. QED
      BY <2>2, <2>3, <2>4, <2>5, <3>1, <3>2 DEF TaskAt, Account
  <2>9. CASE Crash(w)
    <3>1. tasks'[w][s] = Idle
      BY <1>1, <2>9 DEF Crash, TypeOK, TaskTypeOK
    <3>2. tasks'[w][s] # tasks[w][s] /\ tasks'[w][s].backup # c
      BY <2>1, <2>2, <3>1, StoreAssumption DEF Idle
    <3>3. tasks[w][s].pc \in During
      BY <2>1 DEF During
    <3>4. Abandoned(c)' \/ backups'[c].status = "deleted"
      BY <1>1, <2>2, <3>2, <3>3, InProgressGoes, DeletedStays
    <3>5. QED
      BY <2>3, <2>4, <3>4 DEF Account
  <2>10. QED
    BY <2>1, <2>6, <2>7, <2>8, <2>9
<1>5. QED
  BY <1>3, <1>4

\* Who holds the event loop of a worker, what it finds in the files it works
\* on, and where every archive comes from.
THEOREM HeldInvariance == Spec => []HeldInv
<1>1. Init => HeldInv
  <2> SUFFICES ASSUME Init PROVE HeldInv
    OBVIOUS
  <2>1. /\ \A w \in Workers :
              /\ loops[w] = NoLoop /\ held[w] = None
              /\ \A s \in Schedules : tasks[w][s] = Idle
        /\ \A p \in Stems, k \in Suffixes : disk[p][k] = None
        /\ "enc" \in Suffixes
        /\ None \notin BackupIds
    BY StoreAssumption DEF Init, StoreInit, TaskInit, RestoreInit, Suffixes
  <2>2. HeldByOne /\ MeetingsNoted /\ OwnDump
    BY <2>1 DEF HeldByOne, MeetingsNoted, OwnDump, InStretch, LInStretch, Idle, NoLoop
  <2>3. ArchiveHasRow
    BY <2>1 DEF ArchiveHasRow
  <2>4. QED
    BY <2>2, <2>3, InitInv, InitOwner DEF HeldInv
<1>2. HeldInv /\ [Next]_vars => HeldInv'
  <2> SUFFICES ASSUME HeldInv, [Next]_vars PROVE HeldInv'
    OBVIOUS
  <2>1. IInv /\ OwnerInv /\ HeldByOne /\ MeetingsNoted /\ OwnDump
    BY DEF HeldInv
  <2>2. QED
    BY <2>1, NextInv, OwnerStep, HeldByOneStep, MeetingsNotedStep, OwnDumpStep,
       ArchiveRowStep DEF HeldInv
<1>3. QED
  BY <1>1, <1>2, PTL DEF Spec

\* An archive on the volume belongs to a COMPLETED row that names it, to a
\* coroutine about to commit one, or to a row that failed with the disk or
\* because two workers met, was abandoned in a crash or a database error, or was
\* deleted.  It is the row whose dump the archive holds, however many jobs
\* overwrite each other's files, until two workers have met in them; then it is
\* one of those that were dumped there.
THEOREM ArchivesHaveRows == Spec => []ArchiveHasRow
<1>1. HeldInv => ArchiveHasRow
  BY DEF HeldInv
<1>2. QED
  BY <1>1, HeldInvariance, PTL

\* Whatever the workers, schedules, renamed servers and crashes: two dumps go to
\* one stem only when two jobs, or one job on two workers, dump with the same
\* type within one second, and each one's server bears or bore the name.
THEOREM ClashesNeedTwoJobs == Spec => []ClashNeedsTwoJobs
<1>1. FileInv => ClashNeedsTwoJobs
  BY DEF FileInv, OwnerInv
<1>2. QED
  BY <1>1, FileInvariance, PTL
=============================================================================
