--------------------------- MODULE LdapGuardProofs ---------------------------
(* Theorems about LdapGuard, for every number of workers, schedules,        *)
(* servers, requests, backups and restore jobs and for every budget.        *)
EXTENDS LdapGuard, TLAPS

-----------------------------------------------------------------------------
(* What the operators of the store and of the coroutines return. *)

LEMMA SpendType ==
    ASSUME spent \in [Kinds -> Nat], NEW k \in Kinds, Spend(k)
    PROVE  spent' \in [Kinds -> Nat]
BY DEF Spend

LEMMA SetStatusType ==
    ASSUME backups \in [BackupIds -> Backup], NEW b, NEW st \in Statuses,
           SetStatus(b, st)
    PROVE  backups' \in [BackupIds -> Backup]
BY DEF SetStatus, Backup

LEMMA CompleteRowType ==
    ASSUME backups \in [BackupIds -> Backup],
           NEW b, NEW p \in Stems \cup {None},
           backups' = [backups EXCEPT ![b].status = "completed", ![b].path = p]
    PROVE  backups' \in [BackupIds -> Backup]
<1> DEFINE row == [backups[b] EXCEPT !.status = "completed", !.path = p]
<1>1. ASSUME b \in BackupIds
      PROVE  row \in Backup
  BY <1>1 DEF Backup, Statuses, Live
<1>2. backups' = [backups EXCEPT ![b] = row]
  OBVIOUS
<1> HIDE DEF row
<1>3. QED
  BY <1>1, <1>2

LEMMA InsertBackupType ==
    ASSUME backups \in [BackupIds -> Backup],
           NEW b, NEW v \in Servers, NEW t \in Types, InsertBackup(b, v, t)
    PROVE  backups' \in [BackupIds -> Backup]
BY DEF InsertBackup, Backup, Statuses, Live

LEMMA EraseBackupsType ==
    ASSUME backups \in [BackupIds -> Backup], NEW B, EraseBackups(B)
    PROVE  backups' \in [BackupIds -> Backup]
BY DEF EraseBackups, Backup, NoBackup, Statuses

LEMMA PutFileType ==
    ASSUME disk \in [Stems -> [Suffixes -> BackupIds \cup {None}]],
           NEW p, NEW k, NEW c \in BackupIds \cup {None}, PutFile(p, k, c)
    PROVE  disk' \in [Stems -> [Suffixes -> BackupIds \cup {None}]]
BY DEF PutFile

\* The stem need not be one: a write outside the directory changes nothing.
LEMMA MoveFileAnyType ==
    ASSUME disk \in [Stems -> [Suffixes -> BackupIds \cup {None}]],
           NEW p, NEW from \in Suffixes, NEW to \in Suffixes,
           MoveFile(p, from, to)
    PROVE  disk' \in [Stems -> [Suffixes -> BackupIds \cup {None}]]
<1> DEFINE File == BackupIds \cup {None}
           d == [disk EXCEPT ![p][to] = disk[p][from]]
<1>1. ASSUME p \in Stems
      PROVE  disk[p][from] \in File
  BY <1>1
<1>2. d \in [Stems -> [Suffixes -> File]]
  BY <1>1
<1>3. disk' = [d EXCEPT ![p][from] = None]
  BY DEF MoveFile
<1>4. QED
  BY <1>2, <1>3

\* One coroutine of one worker is replaced, the others stay.
LEMMA PutTask ==
    ASSUME tasks \in [Workers -> [Schedules -> Task]],
           NEW w \in Workers, NEW s \in Schedules, NEW t \in Task,
           tasks' = [tasks EXCEPT ![w][s] = t]
    PROVE  /\ tasks' \in [Workers -> [Schedules -> Task]]
           /\ tasks'[w][s] = t
           /\ \A u \in Workers, r \in Schedules :
                 u # w \/ r # s => tasks'[u][r] = tasks[u][r]
<1> DEFINE f == [tasks[w] EXCEPT ![s] = t]
<1>1. f \in [Schedules -> Task]
  OBVIOUS
<1>2. tasks' = [tasks EXCEPT ![w] = f]
  OBVIOUS
<1>3. QED
  BY <1>1, <1>2

LEMMA IdleType == Idle \in Task
BY DEF Idle, Task, Steps

LEMMA EndTask ==
    ASSUME tasks \in [Workers -> [Schedules -> Task]],
           NEW w \in Workers, NEW s \in Schedules, End(w, s)
    PROVE  /\ tasks' \in [Workers -> [Schedules -> Task]]
           /\ tasks'[w][s] = Idle
           /\ \A u \in Workers, r \in Schedules :
                 u # w \/ r # s => tasks'[u][r] = tasks[u][r]
BY PutTask, IdleType DEF End

LEMMA GotoTask ==
    ASSUME tasks \in [Workers -> [Schedules -> Task]],
           NEW w \in Workers, NEW s \in Schedules, NEW pc \in Steps,
           Goto(w, s, pc)
    PROVE  /\ tasks' \in [Workers -> [Schedules -> Task]]
           /\ tasks'[w][s] = [tasks[w][s] EXCEPT !.pc = pc]
           /\ \A u \in Workers, r \in Schedules :
                 u # w \/ r # s => tasks'[u][r] = tasks[u][r]
<1> DEFINE t == [tasks[w][s] EXCEPT !.pc = pc]
<1>1. t \in Task
  <2>1. tasks[w][s] \in Task
    OBVIOUS
  <2>2. QED
    BY <2>1 DEF Task
<1>2. tasks' = [tasks EXCEPT ![w] = [tasks[w] EXCEPT ![s] = t]]
  BY DEF Goto
<1> HIDE DEF t
<1>3. tasks' = [tasks EXCEPT ![w][s] = t]
  BY <1>2
<1>4. /\ tasks' \in [Workers -> [Schedules -> Task]]
      /\ tasks'[w][s] = t
      /\ \A u \in Workers, r \in Schedules :
            u # w \/ r # s => tasks'[u][r] = tasks[u][r]
  BY <1>1, <1>3, PutTask
<1>5. QED
  BY <1>4 DEF t

LEMMA FileNameType ==
    ASSUME TypeOK, NEW w \in Workers, NEW s \in Schedules,
           tasks[w][s].name # None
    PROVE  FileName(w, s) \in Stems
<1>1. tasks[w][s] \in Task
  BY DEF TypeOK, TaskTypeOK
<1>2. QED
  BY <1>1, StoreAssumption DEF FileName, Stems, Task, TypeOK, StoreTypeOK

LEMMA NoteDumpType ==
    ASSUME TypeOK, NEW w \in Workers, NEW s \in Schedules,
           tasks[w][s].name # None, NoteDump(w, s)
    PROVE  dumps' \in [BackupIds -> DumpNote]
<1> DEFINE n == [path |-> FileName(w, s), by |-> <<w, s>>]
<1>1. n \in DumpNote
  BY FileNameType DEF DumpNote
<1>2. dumps \in [BackupIds -> DumpNote]
  BY DEF TypeOK, TaskTypeOK
<1>3. dumps' = [dumps EXCEPT ![tasks[w][s].backup] = n]
  BY DEF NoteDump
<1> HIDE DEF n
<1>4. QED
  BY <1>1, <1>2, <1>3

LEMMA HoldType ==
    ASSUME TypeOK, NEW w \in Workers, NEW p \in Stems, Hold(w, p)
    PROVE  held' \in [Workers -> Stems \cup {None}] /\ met' \subseteq Stems
BY DEF Hold, TypeOK, StoreTypeOK

LEMMA ReleaseType ==
    ASSUME TypeOK, NEW w \in Workers, Release(w)
    PROVE  held' \in [Workers -> Stems \cup {None}] /\ met' \subseteq Stems
BY DEF Release, TypeOK, StoreTypeOK

\* What an interrupted compression or encryption leaves.
LEMMA IncompleteType ==
    ASSUME TypeOK, NEW w \in Workers, NEW s \in Schedules, Incomplete(w, s)
    PROVE  disk' \in [Stems -> [Suffixes -> BackupIds \cup {None}]]
<1>1. disk \in [Stems -> [Suffixes -> BackupIds \cup {None}]]
  BY DEF TypeOK, StoreTypeOK
<1>2. tasks[w][s] \in Task
  BY DEF TypeOK, TaskTypeOK
<1>3. tasks[w][s].backup \in BackupIds \cup {None}
  BY <1>2 DEF Task
<1>4. QED
  BY <1>1, <1>3, PutFileType DEF Incomplete

\* What steps of two workers leave between each other.
LEMMA TornType ==
    ASSUME TypeOK, NEW w \in Workers, NEW s \in Schedules, Torn(w, s)
    PROVE  disk' \in [Stems -> [Suffixes -> BackupIds \cup {None}]]
<1> DEFINE b == tasks[w][s].backup
           p == tasks[w][s].path
           File == BackupIds \cup {None}
           Left(k) == {None, b, disk[p][k]}
<1>1. disk \in [Stems -> [Suffixes -> File]] /\ met \subseteq Stems
  BY DEF TypeOK, StoreTypeOK
<1>2. tasks[w][s] \in Task
  BY DEF TypeOK, TaskTypeOK
<1>3. p \in Stems /\ b \in File
  BY <1>1, <1>2 DEF Torn, Task
<1>4. ASSUME NEW k \in Suffixes
      PROVE  Left(k) \subseteq File
  BY <1>1, <1>3, <1>4
<1>5. ASSUME NEW j \in Suffixes, NEW k \in Suffixes, NEW x \in File,
             NEW y \in File,
             disk' = [disk EXCEPT ![p][j] = x, ![p][k] = y]
      PROVE  disk' \in [Stems -> [Suffixes -> File]]
  <2> DEFINE d == [disk EXCEPT ![p][j] = x]
  <2>1. d \in [Stems -> [Suffixes -> File]]
    BY <1>1, <1>5
  <2>2. disk' = [d EXCEPT ![p][k] = y]
    BY <1>5
  <2>3. QED
    BY <2>1, <2>2
<1>6. CASE \E x \in Left("ldif"), y \in Left("gz") :
              disk' = [disk EXCEPT ![p]["ldif"] = x, ![p]["gz"] = y]
  BY <1>4, <1>5, <1>6 DEF Suffixes
<1>7. CASE \E x \in Left("gz") :
              disk' = [disk EXCEPT ![p]["gz"] = x, ![p]["enc"] = b]
  BY <1>3, <1>4, <1>5, <1>7 DEF Suffixes
<1>8. CASE \E x \in Left("gz") : PutFile(p, "gz", x)
  BY <1>1, <1>4, <1>8, PutFileType DEF Suffixes
<1>9. QED
  BY <1>6, <1>7, <1>8 DEF Torn

-----------------------------------------------------------------------------
(* Every step preserves the types, component by component. *)

LEMMA TaskStepType ==
    ASSUME TypeOK, TaskShape, NEW w \in Workers, NEW s \in Schedules,
           TaskStep(w, s), UNCHANGED <<requests, halfDeleted, restoreVars>>
    PROVE  TypeOK'
<1> USE DEF TypeOK, StoreTypeOK, SchedulingTypeOK, TaskTypeOK, RoutesTypeOK,
   RestoreTypeOK, storeVars, registry, holds, schedulingVars, taskVars, restoreVars
<1> DEFINE b == tasks[w][s].backup
           p == tasks[w][s].path
<1>1. /\ b \in BackupIds \cup {None}
      /\ p \in Stems \cup {None}
      /\ ServerOf[s] \in Servers
      /\ TypeOf[s] \in Types
  <2>1. tasks[w][s] \in Task
    OBVIOUS
  <2>2. QED
    BY <2>1, StoreAssumption DEF Task
<1>2. CASE Fire(w, s)
  <2>1. tasks' \in [Workers -> [Schedules -> Task]]
    BY <1>2, GotoTask DEF Fire, Steps
  <2>2. due' \in [Workers -> SUBSET Schedules]
    BY <1>2 DEF Fire
  <2>3. QED
    BY <1>2, <2>1, <2>2 DEF Fire
<1>3. CASE InsertRow(w, s)
  <2>1. backups' \in [BackupIds -> Backup]
    BY <1>1, <1>3, InsertBackupType DEF InsertRow
  <2>2. tasks' \in [Workers -> [Schedules -> Task]]
    <3>1. CASE End(w, s)
      BY <3>1, EndTask
    <3>2. ASSUME NEW c \in BackupIds,
                 tasks' = [tasks EXCEPT ![w][s].pc = "load", ![w][s].backup = c]
          PROVE  tasks' \in [Workers -> [Schedules -> Task]]
      <4> DEFINE t == [tasks[w][s] EXCEPT !.pc = "load", !.backup = c]
      <4>1. tasks[w][s] \in Task
        OBVIOUS
      <4>2. t \in Task
        BY <4>1 DEF Task, Steps
      <4>3. tasks' = [tasks EXCEPT ![w] = [tasks[w] EXCEPT ![s] = t]]
        BY <3>2
      <4> HIDE DEF t
      <4>4. tasks' = [tasks EXCEPT ![w][s] = t]
        BY <4>3
      <4>5. QED
        BY <4>2, <4>4, PutTask
    <3>3. QED
      BY <1>3, <3>1, <3>2 DEF InsertRow
  <2>3. QED
    BY <1>3, <2>1, <2>2 DEF InsertRow
<1>4. CASE LoadRow(w, s)
  <2>1. tasks' \in [Workers -> [Schedules -> Task]]
    BY <1>4, GotoTask, EndTask DEF LoadRow, Steps
  <2>2. QED
    BY <1>4, <2>1 DEF LoadRow
<1>5. CASE LoadServer(w, s)
  <2>1. tasks' \in [Workers -> [Schedules -> Task]]
    <3>1. CASE End(w, s)
      BY <3>1, EndTask
    <3>2. CASE tasks' = [tasks EXCEPT ![w][s].pc = "begin",
                                      ![w][s].name = names[ServerOf[s]]]
      <4> DEFINE t == [tasks[w][s] EXCEPT !.pc = "begin",
                                          !.name = names[ServerOf[s]]]
      <4>1. tasks[w][s] \in Task /\ names[ServerOf[s]] \in Names
        BY <1>1
      <4>2. t \in Task
        BY <4>1 DEF Task, Steps
      <4>3. tasks' = [tasks EXCEPT ![w] = [tasks[w] EXCEPT ![s] = t]]
        BY <3>2
      <4> HIDE DEF t
      <4>4. tasks' = [tasks EXCEPT ![w][s] = t]
        BY <4>3
      <4>5. QED
        BY <4>2, <4>4, PutTask
    <3>3. QED
      BY <1>5, <3>1, <3>2 DEF LoadServer
  <2>2. backups' \in [BackupIds -> Backup]
    BY <1>5, SetStatusType DEF LoadServer, Statuses, Live
  <2>3. QED
    BY <1>5, <2>1, <2>2 DEF LoadServer
<1>6. CASE Begin(w, s)
  <2>1. tasks' \in [Workers -> [Schedules -> Task]]
    BY <1>6, GotoTask DEF Begin, Steps
  <2>2. backups' \in [BackupIds -> Backup]
    BY <1>6, SetStatusType DEF Begin, Statuses, Live
  <2>3. QED
    BY <1>6, <2>1, <2>2 DEF Begin
<1>7. CASE Dump(w, s)
  <2>1. FileName(w, s) \in Stems
    BY <1>7, FileNameType DEF Dump, At, TaskShape
  <2>2. tasks' \in [Workers -> [Schedules -> Task]]
    <3> DEFINE t == [tasks[w][s] EXCEPT !.pc = "compress", !.path = FileName(w, s)]
    <3>1. tasks[w][s] \in Task
      OBVIOUS
    <3>2. t \in Task
      BY <2>1, <3>1 DEF Task, Steps
    <3>3. tasks' = [tasks EXCEPT ![w] = [tasks[w] EXCEPT ![s] = t]]
      BY <1>7 DEF Dump
    <3> HIDE DEF t
    <3>4. tasks' = [tasks EXCEPT ![w][s] = t]
      BY <3>3
    <3>5. QED
      BY <3>2, <3>4, PutTask
  <2>3. disk' \in [Stems -> [Suffixes -> BackupIds \cup {None}]]
    BY <1>1, <1>7, PutFileType DEF Dump
  <2>4. /\ held' \in [Workers -> Stems \cup {None}] /\ met' \subseteq Stems
        /\ activeBackups' \in [Workers -> Int]
    BY <1>7, <2>1, HoldType DEF Dump
  <2>5. dumps' \in [BackupIds -> DumpNote]
    BY <1>7, NoteDumpType DEF Dump, At, TaskShape
  <2>6. QED
    BY <1>7, <2>2, <2>3, <2>4, <2>5 DEF Dump
<1>8. CASE DumpFails(w, s)
  <2>1. tasks' \in [Workers -> [Schedules -> Task]]
    BY <1>8, GotoTask DEF DumpFails, Steps
  <2>2. held' \in [Workers -> Stems \cup {None}] /\ met' \subseteq Stems
    BY <1>8, ReleaseType DEF DumpFails
  <2>3. activeBackups' \in [Workers -> Int]
    BY <1>8 DEF DumpFails
  <2>4. spent' \in [Kinds -> Nat]
    BY <1>8, SpendType DEF DumpFails, Kinds
  <2>5. QED
    BY <1>8, <2>1, <2>2, <2>3, <2>4 DEF DumpFails
<1>9. CASE Compress(w, s) \/ Encrypt(w, s)
  <2>1. tasks' \in [Workers -> [Schedules -> Task]]
    BY <1>9, GotoTask DEF Compress, Encrypt, Onward, Raise, Steps
  <2>2. held' \in [Workers -> Stems \cup {None}] /\ met' \subseteq Stems
    BY <1>9, ReleaseType DEF Compress, Encrypt, Onward, Raise
  <2>3. disk' \in [Stems -> [Suffixes -> BackupIds \cup {None}]]
    BY <1>9, <1>1, MoveFileAnyType DEF Compress, Encrypt, Suffixes
  <2>4. QED
    BY <1>9, <2>1, <2>2, <2>3 DEF Compress, Encrypt
<1>10. CASE FileFault(w, s)
  <2>1. tasks' \in [Workers -> [Schedules -> Task]]
    BY <1>10, GotoTask DEF FileFault, Raise, Steps
  <2>2. disk' \in [Stems -> [Suffixes -> BackupIds \cup {None}]]
    BY <1>10, IncompleteType DEF FileFault
  <2>3. held' \in [Workers -> Stems \cup {None}] /\ met' \subseteq Stems
    BY <1>10, ReleaseType DEF FileFault, Raise
  <2>4. spent' \in [Kinds -> Nat]
    BY <1>10, SpendType DEF FileFault, Kinds
  <2>5. QED
    BY <1>10, <2>1, <2>2, <2>3, <2>4 DEF FileFault
<1>16. CASE DumpHangs(w, s)
  <2>1. FileName(w, s) \in Stems
    BY <1>16, FileNameType DEF DumpHangs, At, TaskShape
  <2>2. tasks' \in [Workers -> [Schedules -> Task]]
    BY <1>16, GotoTask DEF DumpHangs, Steps
  <2>3. /\ held' \in [Workers -> Stems \cup {None}] /\ met' \subseteq Stems
        /\ activeBackups' \in [Workers -> Int]
    BY <1>16, <2>1, HoldType DEF DumpHangs
  <2>4. spent' \in [Kinds -> Nat]
    BY <1>16, SpendType DEF DumpHangs, Kinds
  <2>5. QED
    BY <1>16, <2>2, <2>3, <2>4 DEF DumpHangs
<1>17. CASE Size(w, s)
  <2>1. tasks' \in [Workers -> [Schedules -> Task]]
    BY <1>17, GotoTask DEF Size, Steps
  <2>2. held' \in [Workers -> Stems \cup {None}] /\ met' \subseteq Stems
    BY <1>17, ReleaseType DEF Size
  <2>3. QED
    BY <1>17, <2>1, <2>2 DEF Size
<1>18. CASE Torn(w, s)
  <2>1. tasks' \in [Workers -> [Schedules -> Task]]
    BY <1>18, GotoTask DEF Torn, Onward, Raise, Steps
  <2>2. held' \in [Workers -> Stems \cup {None}] /\ met' \subseteq Stems
    BY <1>18, ReleaseType DEF Torn, Onward, Raise
  <2>3. disk' \in [Stems -> [Suffixes -> BackupIds \cup {None}]]
    BY <1>18, TornType
  <2>4. QED
    BY <1>18, <2>1, <2>2, <2>3 DEF Torn
<1>11. CASE Complete(w, s)
  <2>1. tasks' \in [Workers -> [Schedules -> Task]]
    BY <1>11, GotoTask DEF Complete, Steps
  <2>2. backups' \in [BackupIds -> Backup]
    BY <1>1, <1>11, CompleteRowType DEF Complete
  <2>3. QED
    BY <1>11, <2>1, <2>2 DEF Complete
<1>12. CASE Fail(w, s)
  <2>1. tasks' \in [Workers -> [Schedules -> Task]]
    BY <1>12, GotoTask DEF Fail, Steps
  <2>2. backups' \in [BackupIds -> Backup]
    BY <1>12, SetStatusType DEF Fail, Statuses, Live
  <2>3. QED
    BY <1>12, <2>1, <2>2 DEF Fail
<1>13. CASE Notify(w, s)
  <2>1. tasks' \in [Workers -> [Schedules -> Task]]
    BY <1>13, EndTask DEF Notify
  <2>2. activeBackups' \in [Workers -> Int]
    BY <1>13 DEF Notify
  <2>3. QED
    BY <1>13, <2>1, <2>2 DEF Notify
<1>14. CASE Stale(w, s)
  <2>1. tasks' \in [Workers -> [Schedules -> Task]]
    BY <1>14, EndTask DEF Stale
  <2>2. QED
    BY <1>14, <2>1 DEF Stale
<1>15. CASE DbFault(w, s)
  <2>1. tasks' \in [Workers -> [Schedules -> Task]]
    BY <1>15, EndTask DEF DbFault
  <2>2. spent' \in [Kinds -> Nat]
    BY <1>15, SpendType DEF DbFault, Kinds
  <2>3. QED
    BY <1>15, <2>1, <2>2 DEF DbFault
<1>19. QED
  BY <1>2, <1>3, <1>4, <1>5, <1>6, <1>7, <1>8, <1>9, <1>10, <1>11, <1>12, <1>13,
     <1>14, <1>15, <1>16, <1>17, <1>18 DEF TaskStep

LEMMA OperatorType ==
    ASSUME TypeOK, Operator
    PROVE  TypeOK'
<1> USE DEF TypeOK, StoreTypeOK, SchedulingTypeOK, TaskTypeOK, RoutesTypeOK,
   RestoreTypeOK, storeVars, registry, holds, schedulingVars, taskVars, restoreVars
<1>1. ASSUME NEW s \in Schedules, NEW st \in ScheduleStates, Edit(s, st),
             UNCHANGED <<taskVars, requests, halfDeleted, restoreVars>>
      PROVE  TypeOK'
  <2>1. spent' \in [Kinds -> Nat]
    BY <1>1, SpendType DEF Edit, Kinds
  <2>2. QED
    BY <1>1, <2>1 DEF Edit
<1>2. ASSUME NEW s \in Schedules,
             CreateSchedule(s) \/ UpdateSchedule(s) \/ DeleteSchedule(s)
      PROVE  TypeOK'
  BY <1>1, <1>2 DEF CreateSchedule, UpdateSchedule, DeleteSchedule,
                    ScheduleStates, Operator
<1>3. ASSUME NEW v \in Servers, DeleteServer(v)
      PROVE  TypeOK'
  <2>1. spent' \in [Kinds -> Nat]
    BY <1>3, SpendType DEF DeleteServer, Kinds
  <2>2. QED
    BY <1>3, <2>1 DEF DeleteServer, Operator
<1>4. ASSUME NEW v \in Servers, NEW n \in Names, RenameServer(v, n)
      PROVE  TypeOK'
  <2>1. spent' \in [Kinds -> Nat]
    BY <1>4, SpendType DEF RenameServer, Kinds
  <2>2. names' \in [Servers -> Names] /\ holders' \in [Names -> SUBSET Servers]
    BY <1>4 DEF RenameServer
  <2>3. QED
    BY <1>4, <2>1, <2>2 DEF RenameServer, Operator
<1>5. QED
  BY <1>2, <1>3, <1>4 DEF Operator

LEMMA ClockType ==
    ASSUME TypeOK, Clock
    PROVE  TypeOK'
<1>1. now' \in 0..MaxSecond
  BY StoreAssumption DEF Clock, Tick, TypeOK, StoreTypeOK
<1>2. due' \in [Workers -> SUBSET Schedules]
  <2>1. PICK C \in SUBSET Schedules :
          due' = [w \in Workers |-> {s \in C \cap registered[w] : ~ Running(w, s)}]
    BY DEF Clock, Tick
  <2>2. QED
    BY <2>1
<1>3. QED
  BY <1>1, <1>2 DEF Clock, Tick, TypeOK, StoreTypeOK, SchedulingTypeOK,
     TaskTypeOK, RoutesTypeOK, RestoreTypeOK, registry, holds, taskVars, restoreVars

LEMMA LeaveRowsType ==
    ASSUME RoutesTypeOK, NEW h \in Handlers, LeaveRows(h)
    PROVE  halfDeleted' \subseteq Stems
BY DEF RoutesTypeOK, Request, LeaveRows

LEMMA BackupApiType ==
    ASSUME TypeOK, BackupApi
    PROVE  TypeOK'
<1> USE DEF TypeOK, StoreTypeOK, SchedulingTypeOK, TaskTypeOK, RoutesTypeOK,
   RestoreTypeOK, storeVars, registry, holds, schedulingVars, taskVars, restoreVars
<1>1. ASSUME NEW b \in BackupIds, NEW v \in Servers, NEW t \in Types,
             CreateBackup(b, v, t)
      PROVE  TypeOK'
  <2>1. backups' \in [BackupIds -> Backup]
    BY <1>1, InsertBackupType DEF CreateBackup
  <2>2. QED
    BY <1>1, <2>1 DEF CreateBackup, BackupApi
<1>2. ASSUME NEW b \in BackupIds, NEW s \in Schedules, RunScheduledBackup(b, s)
      PROVE  TypeOK'
  BY <1>1, <1>2, StoreAssumption DEF RunScheduledBackup
<1>3. ASSUME NEW h \in Handlers, NEW b \in BackupIds, DeleteSelect(h, b)
      PROVE  TypeOK'
  <2>1. backups[b].path \in Stems \cup {None}
    BY DEF Backup
  <2>2. requests' \in [Handlers -> Request]
    BY <1>3, <2>1 DEF DeleteSelect, Request
  <2>3. QED
    BY <1>3, <2>2 DEF DeleteSelect, BackupApi
<1>4. ASSUME NEW h \in Handlers, NEW B \in SUBSET BackupIds, BatchSelect(h, B)
      PROVE  TypeOK'
  <2>1. requests' \in [Handlers -> Request]
    BY <1>4 DEF BatchSelect, Request
  <2>2. QED
    BY <1>4, <2>1 DEF BatchSelect, BackupApi
<1>5. ASSUME NEW h \in Handlers, DeleteUnlink(h)
      PROVE  TypeOK'
  <2>1. requests' \in [Handlers -> Request]
    BY <1>5 DEF DeleteUnlink, Request
  <2>2. disk' \in [Stems -> [Suffixes -> BackupIds \cup {None}]]
    BY <1>5, PutFileType DEF DeleteUnlink
  <2>3. spent' \in [Kinds -> Nat]
    BY <1>5, SpendType DEF DeleteUnlink, Kinds
  <2>4. QED
    BY <1>5, <2>1, <2>2, <2>3 DEF DeleteUnlink, BackupApi
<1>6. ASSUME NEW h \in Handlers, DeleteCommit(h)
      PROVE  TypeOK'
  <2>1. requests' \in [Handlers -> Request]
    BY <1>6 DEF DeleteCommit, Request, NoRequest
  <2>2. backups' \in [BackupIds -> Backup]
    BY <1>6, EraseBackupsType DEF DeleteCommit
  <2>3. halfDeleted' \subseteq Stems
    BY <1>6, LeaveRowsType DEF DeleteCommit
  <2>4. QED
    BY <1>6, <2>1, <2>2, <2>3 DEF DeleteCommit, BackupApi
<1>7. ASSUME NEW h \in Handlers, RequestFault(h)
      PROVE  TypeOK'
  <2>1. requests' \in [Handlers -> Request]
    BY <1>7 DEF RequestFault, Request, NoRequest
  <2>2. spent' \in [Kinds -> Nat]
    BY <1>7, SpendType DEF RequestFault, Kinds
  <2>3. halfDeleted' \subseteq Stems
    BY <1>7, LeaveRowsType DEF RequestFault
  <2>4. QED
    BY <1>7, <2>1, <2>2, <2>3 DEF RequestFault, BackupApi
<1>8. QED
  BY <1>1, <1>2, <1>3, <1>4, <1>5, <1>6, <1>7 DEF BackupApi, DeleteStep

LEMMA CrashType ==
    ASSUME TypeOK, NEW w \in Workers, Crash(w)
    PROVE  TypeOK'
<1>1. spent' \in [Kinds -> Nat]
  BY SpendType DEF Crash, Kinds, TypeOK, StoreTypeOK
<1>2. tasks' \in [Workers -> [Schedules -> Task]]
  BY IdleType DEF Crash, TypeOK, TaskTypeOK
<1>3. loops' \in [Workers -> Loop]
  BY DEF Crash, TypeOK, RestoreTypeOK, Loop, NoLoop, RestoreSteps
<1>4. disk' \in [Stems -> [Suffixes -> BackupIds \cup {None}]]
  BY IncompleteType DEF Crash, TypeOK, StoreTypeOK
<1>5. held' \in [Workers -> Stems \cup {None}] /\ met' \subseteq Stems
  BY ReleaseType DEF Crash
<1>6. QED
  BY <1>1, <1>2, <1>3, <1>4, <1>5 DEF Crash, Load, Active, registry, TypeOK, StoreTypeOK,
     SchedulingTypeOK, TaskTypeOK, RoutesTypeOK, RestoreTypeOK

\* The coroutine of one queue loop moves on, or ends.
LEMMA GotoLoop ==
    ASSUME loops \in [Workers -> Loop], NEW w \in Workers,
           NEW pc \in RestoreSteps, LGoto(w, pc)
    PROVE  /\ loops' \in [Workers -> Loop]
           /\ loops'[w] = [loops[w] EXCEPT !.pc = pc]
<1> DEFINE l == [loops[w] EXCEPT !.pc = pc]
<1>1. l \in Loop
  <2>1. loops[w] \in Loop
    OBVIOUS
  <2>2. QED
    BY <2>1 DEF Loop
<1>2. loops' = [loops EXCEPT ![w] = l]
  BY DEF LGoto
<1> HIDE DEF l
<1>3. loops' \in [Workers -> Loop] /\ loops'[w] = l
  BY <1>1, <1>2
<1>4. QED
  BY <1>3 DEF l

LEMMA EndLoop ==
    ASSUME loops \in [Workers -> Loop], NEW w \in Workers, LEnd(w)
    PROVE  loops' \in [Workers -> Loop] /\ loops'[w] = NoLoop
BY DEF LEnd, NoLoop, Loop, RestoreSteps

LEMMA SetRestoreType ==
    ASSUME restores \in [RestoreIds -> Restore], NEW r, NEW st \in Statuses,
           SetRestore(r, st)
    PROVE  restores' \in [RestoreIds -> Restore]
BY DEF SetRestore, Restore

LEMMA InsertRestoreType ==
    ASSUME restores \in [RestoreIds -> Restore], NEW r, NEW b \in BackupIds,
           NEW v \in Servers,
           restores' = [restores EXCEPT ![r] =
                [status |-> "pending", backup |-> b, server |-> v]]
    PROVE  restores' \in [RestoreIds -> Restore]
BY DEF Restore, Statuses, Live

LEMMA RestoreApiType ==
    ASSUME TypeOK, RestoreShape, RestoreApi
    PROVE  TypeOK'
<1> USE DEF TypeOK, StoreTypeOK, SchedulingTypeOK, TaskTypeOK, RoutesTypeOK,
   RestoreTypeOK, storeVars, registry, holds, schedulingVars, taskVars, elsewhere
<1>1. ASSUME NEW h \in Handlers, NEW b \in BackupIds, CreateSelect(h, b)
      PROVE  TypeOK'
  <2>1. creations' \in [Handlers -> Creation]
    BY <1>1 DEF CreateSelect, Creation
  <2>2. QED
    BY <1>1, <2>1 DEF CreateSelect
<1>2. ASSUME NEW h \in Handlers, NEW r \in RestoreIds, NEW v \in Servers,
             CreateInsert(h, r, v)
      PROVE  TypeOK'
  <2>1. creations[h] \in Creation
    OBVIOUS
  <2>2. creations[h].backup \in BackupIds \cup {None}
    BY <2>1 DEF Creation
  <2>3. creations' \in [Handlers -> Creation]
    <3> DEFINE c == [creations[h] EXCEPT !.pc = "push", !.job = r]
    <3>1. c \in Creation /\ NoCreation \in Creation
      BY <2>1 DEF Creation, NoCreation
    <3>2. \/ creations' = [creations EXCEPT ![h] = c]
          \/ creations' = [creations EXCEPT ![h] = NoCreation]
      BY <1>2 DEF CreateInsert
    <3> HIDE DEF c
    <3>3. QED
      BY <3>1, <3>2
  <2>4. restores' \in [RestoreIds -> Restore]
    <3>1. creations[h].pc = "insert" => creations[h].backup \in BackupIds
      BY <2>2 DEF RestoreShape
    <3>2. QED
      BY <1>2, <3>1, InsertRestoreType DEF CreateInsert
  <2>5. QED
    BY <1>2, <2>3, <2>4 DEF CreateInsert
<1>3. ASSUME NEW h \in Handlers, CreatePush(h) \/ CreationFault(h)
      PROVE  TypeOK'
  <2>1. creations' \in [Handlers -> Creation]
    <3>1. NoCreation \in Creation
      BY DEF Creation, NoCreation
    <3>2. creations' = [creations EXCEPT ![h] = NoCreation]
      BY <1>3 DEF CreatePush, CreationFault
    <3>3. QED
      BY <3>1, <3>2
  <2>2. spent' \in [Kinds -> Nat]
    BY <1>3, SpendType DEF CreatePush, CreationFault, Kinds
  <2>3. queue' \in Seq(RestoreIds)
    <3>1. creations[h].pc = "push" => creations[h].job \in RestoreIds
      <4>1. creations[h] \in Creation
        OBVIOUS
      <4>2. QED
        BY <4>1 DEF Creation, RestoreShape, Inserted
    <3>2. ASSUME NEW j \in RestoreIds
          PROVE  Append(queue, j) \in Seq(RestoreIds)
      OBVIOUS
    <3>3. QED
      BY <1>3, <3>1, <3>2 DEF CreatePush, CreationFault
  <2>4. QED
    BY <1>3, <2>1, <2>2, <2>3 DEF CreatePush, CreationFault
<1>4. QED
  BY <1>1, <1>2, <1>3 DEF RestoreApi, CreationStep

LEMMA RestoreStepType ==
    ASSUME TypeOK, RestoreShape, NEW w \in Workers, RestoreStep(w)
    PROVE  TypeOK'
<1> USE DEF TypeOK, StoreTypeOK, SchedulingTypeOK, TaskTypeOK, RoutesTypeOK,
   RestoreTypeOK, storeVars, registry, holds, schedulingVars, taskVars, elsewhere
<1> DEFINE r == loops[w].job
           p == loops[w].path
<1>1. /\ r \in RestoreIds \cup {None}
      /\ p \in Stems \cup {None}
      /\ loops[w].pc # "idle" => r \in RestoreIds
      /\ loops[w].pc \in {"decompress", "apply"} => p \in Stems
  <2>1. loops[w] \in Loop
    OBVIOUS
  <2>2. QED
    BY <2>1 DEF Loop, RestoreShape, Inserted
<1>2. CASE PopRestore(w)
  <2>1. queue # <<>> => Head(queue) \in RestoreIds /\ Tail(queue) \in Seq(RestoreIds)
    OBVIOUS
  <2>2. loops' \in [Workers -> Loop]
    BY <1>2, <2>1 DEF PopRestore, Loop, RestoreSteps
  <2>3. QED
    BY <1>2, <2>1, <2>2 DEF PopRestore
<1>3. CASE SelectBackup(w)
  <2>1. restores[r].backup \in BackupIds
    BY <1>1, <1>3 DEF SelectBackup, LAt, Restore, RestoreShape, Inserted
  <2>2. backups[restores[r].backup].path \in Stems \cup {None}
    BY <2>1 DEF Backup
  <2>3. loops' \in [Workers -> Loop]
    <3> DEFINE l == [loops[w] EXCEPT !.pc = "server",
                                     !.path = backups[restores[r].backup].path]
    <3>1. loops[w] \in Loop
      OBVIOUS
    <3>2. l \in Loop
      BY <2>2, <3>1 DEF Loop, RestoreSteps
    <3>3. loops' = [loops EXCEPT ![w] = l] \/ LEnd(w)
      BY <1>3 DEF SelectBackup
    <3> HIDE DEF l
    <3>4. QED
      BY <3>2, <3>3, EndLoop
  <2>4. restores' \in [RestoreIds -> Restore]
    BY <1>3, SetRestoreType DEF SelectBackup, Statuses, Live
  <2>5. QED
    BY <1>3, <2>3, <2>4 DEF SelectBackup
<1>4. CASE SelectServer(w)
  <2>1. loops' \in [Workers -> Loop]
    BY <1>4, GotoLoop, EndLoop DEF SelectServer, RestoreSteps
  <2>2. restores' \in [RestoreIds -> Restore]
    BY <1>4, SetRestoreType DEF SelectServer, Statuses, Live
  <2>3. QED
    BY <1>4, <2>1, <2>2 DEF SelectServer
<1>5. CASE BeginRestore(w) \/ CompleteRestore(w)
  <2>1. loops' \in [Workers -> Loop]
    BY <1>5, GotoLoop DEF BeginRestore, CompleteRestore, RestoreSteps
  <2>2. restores' \in [RestoreIds -> Restore]
    BY <1>5, SetRestoreType DEF BeginRestore, CompleteRestore, Statuses, Live
  <2>3. QED
    BY <1>5, <2>1, <2>2 DEF BeginRestore, CompleteRestore
<1>6. CASE Decrypt(w)
  <2>1. loops' \in [Workers -> Loop]
    BY <1>6, GotoLoop DEF Decrypt, RestoreSteps
  <2>2. FileAt(p, "enc") \in BackupIds \cup {None}
    BY <1>1 DEF FileAt, Suffixes
  <2>3. disk' \in [Stems -> [Suffixes -> BackupIds \cup {None}]]
    BY <1>6, <2>2, PutFileType DEF Decrypt
  <2>4. activeRestores' \in [Workers -> Int]
    <3>1. activeRestores' = [activeRestores EXCEPT ![w] = @ + 1]
      BY <1>6 DEF Decrypt
    <3>2. QED
      BY <3>1
  <2>6. held' \in [Workers -> Stems \cup {None}] /\ met' \subseteq Stems
    <3>1. FileAt(p, "enc") # None => p \in Stems
      BY <1>1 DEF FileAt
    <3>2. QED
      BY <1>6, <3>1, HoldType DEF Decrypt
  <2>5. QED
    BY <1>6, <2>1, <2>3, <2>4, <2>6 DEF Decrypt
<1>7. CASE Decompress(w) \/ DecompressFails(w)
  <2>1. loops' \in [Workers -> Loop]
    BY <1>7, GotoLoop DEF Decompress, DecompressFails, LRaise, RestoreSteps
  <2>2. disk[p]["gz"] \in BackupIds \cup {None}
    BY <1>1, <1>7 DEF Decompress, DecompressFails, LRaise, LAt, Suffixes
  <2>3. disk' \in [Stems -> [Suffixes -> BackupIds \cup {None}]]
    BY <1>7, <2>2, PutFileType DEF Decompress, DecompressFails, LRaise
  <2>4. held' \in [Workers -> Stems \cup {None}] /\ met' \subseteq Stems
    BY <1>7, ReleaseType DEF Decompress, DecompressFails, LRaise
  <2>5. QED
    BY <1>7, <2>1, <2>3, <2>4 DEF Decompress, DecompressFails, LRaise
<1>8. CASE Apply(w) \/ ApplyHangs(w)
  <2>1. loops' \in [Workers -> Loop]
    BY <1>8, GotoLoop DEF Apply, ApplyHangs, RestoreSteps
  <2>2. disk[p]["ldif"] \in BackupIds \cup {None} /\ r \in RestoreIds
    BY <1>1, <1>8 DEF Apply, ApplyHangs, LAt, Suffixes
  <2>3. applied' \in [RestoreIds -> [times : Nat, content : BackupIds \cup {None}]]
    <3> DEFINE a == [times |-> applied[r].times + 1, content |-> disk[p]["ldif"]]
    <3>1. a \in [times : Nat, content : BackupIds \cup {None}]
      <4>1. applied[r].times \in Nat
        BY <2>2
      <4>2. QED
        BY <2>2, <4>1
    <3>2. applied' = applied \/ applied' = [applied EXCEPT ![r] = a]
      BY <1>8 DEF Apply, ApplyHangs, Added
    <3> HIDE DEF a
    <3>3. QED
      BY <3>1, <3>2
  <2>4. held' \in [Workers -> Stems \cup {None}] /\ met' \subseteq Stems
    BY <1>8, ReleaseType DEF Apply, ApplyHangs
  <2>5. spent' \in [Kinds -> Nat]
    BY <1>8, SpendType DEF Apply, ApplyHangs, Kinds
  <2>6. QED
    BY <1>8, <2>1, <2>3, <2>4, <2>5 DEF Apply, ApplyHangs
<1>9. CASE NotifyRestore(w)
  <2>1. loops' \in [Workers -> Loop]
    BY <1>9, EndLoop DEF NotifyRestore
  <2>2. activeRestores' \in [Workers -> Int]
    BY <1>9 DEF NotifyRestore
  <2>3. QED
    BY <1>9, <2>1, <2>2 DEF NotifyRestore
<1>10. CASE FailRestore(w)
  <2>1. loops' \in [Workers -> Loop]
    BY <1>10, EndLoop DEF FailRestore
  <2>2. restores' \in [RestoreIds -> Restore]
    BY <1>10, SetRestoreType DEF FailRestore, Statuses, Live
  <2>3. activeRestores' \in [Workers -> Int]
    BY <1>10 DEF FailRestore
  <2>4. QED
    BY <1>10, <2>1, <2>2, <2>3 DEF FailRestore
<1>11. CASE RestoreDbFault(w)
  <2>1. loops' \in [Workers -> Loop]
    BY <1>11, EndLoop DEF RestoreDbFault
  <2>2. spent' \in [Kinds -> Nat]
    BY <1>11, SpendType DEF RestoreDbFault, Kinds
  <2>3. QED
    BY <1>11, <2>1, <2>2 DEF RestoreDbFault
<1>12. QED
  BY <1>2, <1>3, <1>4, <1>5, <1>6, <1>7, <1>8, <1>9, <1>10, <1>11 DEF RestoreStep

-----------------------------------------------------------------------------
(* Coroutines and their rows. *)

\* What one coroutine does to the task table and to its own row is all that
\* the invariants about coroutines see.
LEMMA TaskMoves ==
    ASSUME TypeOK, TypeOK', TaskShape, RowFollowsTask, TaskServer,
           NEW w \in Workers, NEW s \in Schedules,
           \A u \in Workers, r \in Schedules :
               u # w \/ r # s => tasks'[u][r] = tasks[u][r],
           \A b \in BackupIds :
               b # tasks[w][s].backup => backups'[b] = backups[b],
           \/ tasks'[w][s] = Idle
           \/ /\ tasks'[w][s].backup = tasks[w][s].backup
              /\ tasks'[w][s].backup = None <=> tasks'[w][s].pc \in {"idle", "insert"}
              /\ tasks'[w][s].pc \in {"begin", "dump"} => tasks'[w][s].name # None
              /\ tasks'[w][s].pc \in {"compress", "encrypt", "size", "commit"}
                    => tasks'[w][s].path # None
              /\ tasks[w][s].backup # None =>
                    LET b == tasks[w][s].backup IN
                    /\ backups'[b].status \in {"deleted"} \cup RowAt(tasks'[w][s].pc)
                    /\ backups'[b].server = backups[b].server
                    /\ backups'[b].status \in Live => Present(b)
    PROVE  TaskShape' /\ RowFollowsTask' /\ TaskServer'
<1>1. ASSUME NEW u \in Workers, NEW r \in Schedules
      PROVE  /\ tasks[u][r].backup \in BackupIds \cup {None}
             /\ tasks'[u][r].backup \in BackupIds \cup {None}
  <2>1. tasks[u][r] \in Task /\ tasks'[u][r] \in Task
    BY DEF TypeOK, TaskTypeOK
  <2>2. QED
    BY <2>1 DEF Task
<1>2. TaskShape'
  BY DEF TaskShape, Idle
<1>3. ASSUME NEW u \in Workers, NEW r \in Schedules,
             u # w \/ r # s, tasks[u][r].backup # None
      PROVE  backups'[tasks[u][r].backup] = backups[tasks[u][r].backup]
  BY <1>1, <1>3 DEF RowFollowsTask
<1>4. RowFollowsTask'
  <2>1. ASSUME NEW u \in Workers, NEW r \in Schedules, tasks'[u][r].backup # None
        PROVE  backups'[tasks'[u][r].backup].status
                  \in {"deleted"} \cup RowAt(tasks'[u][r].pc)
    <3>1. CASE u = w /\ r = s
      BY <2>1, <3>1 DEF Idle
    <3>2. CASE u # w \/ r # s
      BY <1>3, <2>1, <3>2 DEF RowFollowsTask
    <3>3. QED
      BY <3>1, <3>2
  <2>2. ASSUME NEW u \in Workers, NEW v \in Workers,
               NEW r \in Schedules, NEW q \in Schedules,
               tasks'[u][r].backup = tasks'[v][q].backup, tasks'[u][r].backup # None
        PROVE  u = v /\ r = q
    <3>1. /\ tasks[u][r].backup = tasks'[u][r].backup
          /\ tasks[v][q].backup = tasks'[v][q].backup
      BY <2>2 DEF Idle
    <3>2. QED
      BY <2>2, <3>1 DEF RowFollowsTask
  <2>3. QED
    BY <2>1, <2>2 DEF RowFollowsTask
<1>5. TaskServer'
  <2>1. ASSUME NEW u \in Workers, NEW r \in Schedules,
               tasks'[u][r].backup # None,
               backups'[tasks'[u][r].backup].status \in Live,
               tasks'[u][r].backup = tasks[u][r].backup
        PROVE  backups'[tasks'[u][r].backup].server = ServerOf[r]
    <3>1. CASE u = w /\ r = s
      BY <2>1, <3>1 DEF Idle, TaskServer
    <3>2. CASE u # w \/ r # s
      BY <1>3, <2>1, <3>2 DEF TaskServer, Present
    <3>3. QED
      BY <3>1, <3>2
  <2>2. QED
    BY <2>1 DEF TaskServer, Present, Idle
<1>6. QED
  BY <1>2, <1>4, <1>5

\* Rows that are COMPLETED or gone stay as they are; the others keep their
\* server and have a path when they become COMPLETED.
LEMMA RowsKeep ==
    ASSUME TypeOK, RestoreShape, CompletedHasPath, CreationChecked,
           BackupHasServer, RestoreRefsComplete,
           UNCHANGED <<servers, restores, creations>>,
           \A b \in BackupIds :
               \/ backups'[b] = backups[b]
               \/ /\ backups[b].status \notin {"completed", "deleted"}
                  /\ backups'[b].server \in servers
                  /\ backups'[b].status = "completed" => backups'[b].path # None
    PROVE  CompletedHasPath' /\ CreationChecked' /\ BackupHasServer'
              /\ RestoreRefsComplete'
<1>1. CompletedHasPath' /\ BackupHasServer'
  BY DEF CompletedHasPath, BackupHasServer, Present
<1>2. CreationChecked'
  <2>1. ASSUME NEW h \in Handlers, creations[h].pc = "insert"
        PROVE  creations[h].backup \in BackupIds
    <3>1. creations[h] \in Creation
      BY DEF TypeOK, RestoreTypeOK
    <3>2. QED
      BY <2>1, <3>1 DEF Creation, RestoreShape
  <2>2. QED
    BY <2>1 DEF CreationChecked
<1>3. RestoreRefsComplete'
  <2>1. ASSUME NEW r \in RestoreIds, restores[r].status \in Live
        PROVE  restores[r].backup \in BackupIds
    BY <2>1 DEF TypeOK, StoreTypeOK, Restore, RestoreShape
  <2>2. QED
    BY <2>1 DEF RestoreRefsComplete
<1>4. QED
  BY <1>1, <1>2, <1>3

LEMMA TaskStepInv ==
    ASSUME IInv, NEW w \in Workers, NEW s \in Schedules,
           TaskStep(w, s), UNCHANGED <<requests, halfDeleted, restoreVars>>
    PROVE  IInv'
<1> DEFINE t == tasks[w][s]
           u == tasks'[w][s]
           b == tasks[w][s].backup
           Others == \A x \in Workers, r \in Schedules :
                        x # w \/ r # s => tasks'[x][r] = tasks[x][r]
           SameRows == \A c \in BackupIds : c # b => backups'[c] = backups[c]
<1>0. /\ TypeOK /\ TaskShape /\ RestoreShape /\ RowFollowsTask /\ TaskServer
      /\ CompletedHasPath /\ CreationChecked /\ BackupHasServer
      /\ RestoreRefsComplete
      /\ TypeOK'
      /\ tasks \in [Workers -> [Schedules -> Task]]
      /\ backups \in [BackupIds -> Backup]
  BY TaskStepType DEF IInv, TypeOK, TaskTypeOK, StoreTypeOK
<1>1. /\ t \in Task
      /\ b \in BackupIds \cup {None}
      /\ b = None <=> t.pc \in {"idle", "insert"}
      /\ t.pc \in {"begin", "dump"} => t.name # None
      /\ t.pc \in {"compress", "encrypt", "size", "commit"} => t.path # None
      /\ b # None => backups[b].status \in {"deleted"} \cup RowAt(t.pc)
      /\ b # None /\ Present(b) =>
            backups[b].server = ServerOf[s] /\ ServerOf[s] \in servers
  <2>1. t \in Task
    BY <1>0
  <2>2. b \in BackupIds \cup {None}
    BY <2>1 DEF Task
  <2>3. QED
    BY <1>0, <2>1, <2>2 DEF TaskShape, RowFollowsTask, TaskServer, BackupHasServer
<1>2. /\ UNCHANGED <<servers, restores, creations>>
      /\ RestoreShape'
  <2>1. UNCHANGED <<servers, restores>>
    BY DEF TaskStep, Fire, InsertRow, LoadRow, LoadServer, Begin, Dump, DumpFails,
       DumpHangs, Compress, Encrypt, Size, Torn, FileFault, Complete, Fail, Notify,
       Stale, DbFault, storeVars, registry
  <2>2. QED
    BY <1>0, <2>1 DEF RestoreShape, Inserted, restoreVars
\* A step that moves or ends its coroutine and leaves every row alone.
<1>3. ASSUME UNCHANGED backups, Others,
             \/ u = Idle
             \/ u = t
             \/ /\ u.backup = b
                /\ u.path = t.path \/ u.path # None
                /\ u.pc \in {"idle", "insert"} <=> t.pc \in {"idle", "insert"}
                /\ RowAt(u.pc) = RowAt(t.pc)
                /\ u.pc \in {"begin", "dump"} => u.name # None
                /\ u.pc \in {"compress", "encrypt", "size", "commit"} =>
                      \/ u.path # None
                      \/ t.pc \in {"compress", "encrypt", "size", "commit"}
      PROVE  IInv'
  <2>1. TaskShape' /\ RowFollowsTask' /\ TaskServer'
    <3>1. backups'[b].status \in Live => Present(b)
      BY <1>3 DEF Present
    <3>2. QED
      BY <1>0, <1>1, <1>3, <3>1, TaskMoves
  <2>2. CompletedHasPath' /\ CreationChecked' /\ BackupHasServer'
           /\ RestoreRefsComplete'
    BY <1>0, <1>2, <1>3, RowsKeep
  <2>3. QED
    BY <1>0, <1>2, <2>1, <2>2 DEF IInv
\* A step that moves its coroutine and changes its row, which is there.
<1>4. ASSUME b # None, Present(b), Others, SameRows,
             u.backup = b, u.pc \in {"dump", "notify"},
             u.pc = "dump" => u.name # None,
             backups[b].status # "completed",
             backups'[b].status \in RowAt(u.pc),
             backups'[b].server = backups[b].server,
             backups'[b].status = "completed" => backups'[b].path # None
      PROVE  IInv'
  <2>1. TaskShape' /\ RowFollowsTask' /\ TaskServer'
    BY <1>0, <1>1, <1>4, TaskMoves
  <2>2. CompletedHasPath' /\ CreationChecked' /\ BackupHasServer'
           /\ RestoreRefsComplete'
    <3>1. backups[b].status \notin {"completed", "deleted"}
             /\ backups'[b].server \in servers
      BY <1>1, <1>4 DEF Present, Live
    <3>2. QED
      BY <1>0, <1>2, <1>4, <3>1, RowsKeep
  <2>3. QED
    BY <1>0, <1>2, <2>1, <2>2 DEF IInv
<1>5. CASE Fire(w, s)
  <2>1. UNCHANGED backups
    BY <1>5 DEF Fire, storeVars, registry, holds
  <2>2. CASE Goto(w, s, "insert")
    <3>1. Others /\ u = [t EXCEPT !.pc = "insert"]
      BY <1>0, <2>2, GotoTask DEF Steps
    <3>2. u.pc = "insert" /\ u.backup = b /\ u.path = t.path
      BY <1>1, <3>1 DEF Task
    <3>3. t.pc = "idle"
      BY <1>5 DEF Fire, Running
    <3>4. RowAt(u.pc) = RowAt(t.pc)
      BY <3>2, <3>3 DEF RowAt, Before, During
    <3>5. QED
      BY <1>3, <2>1, <3>1, <3>2, <3>3, <3>4
  <2>3. CASE UNCHANGED tasks
    BY <1>3, <2>1, <2>3
  <2>4. QED
    BY <1>5, <2>2, <2>3 DEF Fire
<1>6. CASE InsertRow(w, s)
  <2>1. CASE End(w, s) /\ UNCHANGED backups
    BY <1>0, <1>3, <2>1, EndTask
  <2>2. ASSUME NEW c \in BackupIds, InsertBackup(c, ServerOf[s], TypeOf[s]),
               tasks' = [tasks EXCEPT ![w][s].pc = "load", ![w][s].backup = c]
        PROVE  IInv'
    <3> DEFINE v == [t EXCEPT !.pc = "load", !.backup = c]
    <3>1. v \in Task /\ v.pc = "load" /\ v.backup = c /\ v.path = t.path
      BY <1>1 DEF Task, Steps
    <3>2. tasks' = [tasks EXCEPT ![w][s] = v]
      <4>1. tasks' = [tasks EXCEPT ![w] = [tasks[w] EXCEPT ![s] = v]]
        BY <2>2
      <4> HIDE DEF v
      <4>2. QED
        BY <4>1
    <3> HIDE DEF v
    <3>3. Others /\ u = v
      BY <1>0, <3>1, <3>2, PutTask
    <3>4. /\ backups[c].status = "absent"
          /\ backups'[c].status = "pending"
          /\ backups'[c].server = ServerOf[s] /\ ServerOf[s] \in servers
          /\ \A d \in BackupIds : d # c => backups'[d] = backups[d]
      BY <1>0, <2>2 DEF InsertBackup
    <3>5. ASSUME NEW x \in Workers, NEW r \in Schedules, tasks[x][r].backup # None
          PROVE  tasks[x][r].backup \in BackupIds /\ tasks[x][r].backup # c
      <4>1. tasks[x][r] \in Task
        BY <1>0
      <4>2. "absent" \notin {"deleted"} \cup RowAt(tasks[x][r].pc)
        BY DEF RowAt
      <4>3. QED
        BY <1>0, <3>4, <3>5, <4>1, <4>2 DEF Task, RowFollowsTask
    <3>6. c # None /\ RowAt("load") = {"pending"}
      BY StoreAssumption DEF RowAt, Before, During
    <3>7. TaskShape'
      BY <1>0, <3>1, <3>3, <3>6 DEF TaskShape
    <3>8. RowFollowsTask'
      BY <1>0, <3>1, <3>3, <3>4, <3>5, <3>6 DEF RowFollowsTask
    <3>9. TaskServer'
      BY <1>0, <3>1, <3>3, <3>4, <3>5, <3>6 DEF TaskServer, Present
    <3>10. CompletedHasPath' /\ CreationChecked' /\ BackupHasServer'
             /\ RestoreRefsComplete'
      BY <1>0, <1>2, <3>4, RowsKeep
    <3>11. QED
      BY <1>0, <1>2, <3>7, <3>8, <3>9, <3>10 DEF IInv
  <2>3. QED
    BY <1>6, <2>1, <2>2 DEF InsertRow
<1>7. CASE LoadRow(w, s)
  <2>1. UNCHANGED backups
    BY <1>7 DEF LoadRow, storeVars, registry, holds
  <2>2. CASE Goto(w, s, "server")
    <3>1. Others /\ u = [t EXCEPT !.pc = "server"]
      BY <1>0, <2>2, GotoTask DEF Steps
    <3>2. u.pc = "server" /\ u.backup = b /\ u.path = t.path /\ t.pc = "load"
      BY <1>1, <1>7, <3>1 DEF Task, LoadRow, At
    <3>3. RowAt(u.pc) = RowAt(t.pc)
      BY <3>2 DEF RowAt, Before, During
    <3>4. QED
      BY <1>3, <2>1, <3>1, <3>2, <3>3
  <2>3. CASE End(w, s)
    BY <1>0, <1>3, <2>1, <2>3, EndTask
  <2>4. QED
    BY <1>7, <2>2, <2>3 DEF LoadRow
<1>8. CASE LoadServer(w, s)
  <2> DEFINE v == [t EXCEPT !.pc = "begin", !.name = names[ServerOf[s]]]
  <2>1. CASE /\ UNCHANGED backups
             /\ tasks' = [tasks EXCEPT ![w][s].pc = "begin",
                                       ![w][s].name = names[ServerOf[s]]]
    <3>1. names[ServerOf[s]] \in Names /\ names[ServerOf[s]] # None
      BY <1>0, StoreAssumption DEF TypeOK, StoreTypeOK
    <3>2. /\ v \in Task /\ v.pc = "begin" /\ v.backup = b /\ v.path = t.path
          /\ v.name # None /\ t.pc = "server"
      BY <1>1, <1>8, <3>1 DEF Task, Steps, LoadServer, At
    <3>3. tasks' = [tasks EXCEPT ![w][s] = v]
      <4>1. tasks' = [tasks EXCEPT ![w] = [tasks[w] EXCEPT ![s] = v]]
        BY <2>1
      <4> HIDE DEF v
      <4>2. QED
        BY <4>1
    <3> HIDE DEF v
    <3>4. Others /\ u = v
      BY <1>0, <3>2, <3>3, PutTask
    <3>5. RowAt(u.pc) = RowAt(t.pc)
      BY <3>2, <3>4 DEF RowAt, Before, During
    <3>6. QED
      BY <1>3, <2>1, <3>2, <3>4, <3>5
  <2>2. CASE ServerOf[s] \notin servers /\ End(w, s)
    <3>1. ~ Present(b)
      BY <1>1, <1>8, <2>2 DEF LoadServer, At
    <3>2. UNCHANGED backups
      BY <1>8, <2>2, <3>1 DEF LoadServer
    <3>3. QED
      BY <1>0, <1>3, <2>2, <3>2, EndTask
  <2>3. QED
    BY <1>8, <2>1, <2>2 DEF LoadServer
<1>9. CASE Begin(w, s)
  <2>1. Others /\ u = [t EXCEPT !.pc = "dump"]
    BY <1>0, <1>9, GotoTask DEF Begin, Steps
  <2>2. /\ u.pc = "dump" /\ u.backup = b /\ t.pc = "begin" /\ b \in BackupIds
        /\ u.name # None
    BY <1>1, <1>9, <2>1 DEF Task, Begin, At
  <2>3. /\ Present(b) /\ SameRows
        /\ backups'[b] = [backups[b] EXCEPT !.status = "in_progress"]
    BY <1>0, <1>9, <2>2 DEF Begin, SetStatus
  <2>4. /\ backups'[b].status = "in_progress"
        /\ backups'[b].server = backups[b].server
        /\ backups[b].status = "pending"
    <3>1. backups[b] \in Backup
      BY <1>0, <2>2
    <3>2. RowAt(t.pc) = {"pending"}
      BY <2>2 DEF RowAt, Before, During
    <3>3. backups[b].status = "pending"
      BY <1>1, <2>2, <2>3, <3>2 DEF Present, Live
    <3>4. QED
      BY <2>3, <3>1, <3>3 DEF Backup
  <2>5. "in_progress" \in RowAt(u.pc)
    BY <2>2 DEF RowAt, Before, During
  <2>6. b # None
    BY <1>1, <2>2
  <2>7. QED
    BY <1>4, <2>1, <2>2, <2>3, <2>4, <2>5, <2>6
<1>10. CASE Dump(w, s)
  <2>1. UNCHANGED backups /\ t.pc = "dump" /\ t.name # None
    BY <1>1, <1>10 DEF Dump, At
  <2> DEFINE v == [t EXCEPT !.pc = "compress", !.path = FileName(w, s)]
  <2>2. FileName(w, s) \in Stems /\ FileName(w, s) # None
    BY <1>0, <2>1, FileNameType, PathAssumption
  <2>3. v \in Task /\ v.pc = "compress" /\ v.backup = b /\ v.path # None
    BY <1>1, <2>2 DEF Task, Steps
  <2>4. tasks' = [tasks EXCEPT ![w][s] = v]
    <3>1. tasks' = [tasks EXCEPT ![w] = [tasks[w] EXCEPT ![s] = v]]
      BY <1>10 DEF Dump
    <3> HIDE DEF v
    <3>2. QED
      BY <3>1
  <2> HIDE DEF v
  <2>5. Others /\ u = v
    BY <1>0, <2>3, <2>4, PutTask
  <2>6. RowAt(u.pc) = RowAt(t.pc)
    BY <2>1, <2>3, <2>5 DEF RowAt, Before, During
  <2>7. QED
    BY <1>3, <2>1, <2>3, <2>5, <2>6
<1>11. CASE DumpFails(w, s)
  <2>1. UNCHANGED backups /\ t.pc \in {"dump", "compress"}
    BY <1>11 DEF DumpFails, At
  <2>2. Others /\ u = [t EXCEPT !.pc = "fail"]
    BY <1>0, <1>11, GotoTask DEF DumpFails, Steps
  <2>3. u.pc = "fail" /\ u.backup = b /\ u.path = t.path
    BY <1>1, <2>2 DEF Task
  <2>4. RowAt(u.pc) = RowAt(t.pc)
    BY <2>1, <2>3 DEF RowAt, Before, During
  <2>5. QED
    BY <1>3, <2>1, <2>2, <2>3, <2>4
<1>12. CASE \/ DumpHangs(w, s) \/ Compress(w, s) \/ Encrypt(w, s)
            \/ Size(w, s) \/ Torn(w, s) \/ FileFault(w, s)
  <2>1. UNCHANGED backups /\ t.pc \in {"dump", "compress", "encrypt", "size"}
    BY <1>12 DEF DumpHangs, Compress, Encrypt, Size, Torn, FileFault, Incomplete, At
  <2>2. PICK pc \in {"hung", "encrypt", "size", "commit", "fail"} :
             Goto(w, s, pc) /\ (t.pc = "dump" => pc = "hung")
    BY <1>12 DEF DumpHangs, Compress, Encrypt, Size, Torn, Onward, Raise, FileFault,
       Incomplete, At
  <2>3. Others /\ u = [t EXCEPT !.pc = pc]
    <3>1. pc \in Steps
      BY <2>2 DEF Steps
    <3>2. QED
      BY <1>0, <2>2, <3>1, GotoTask
  <2>4. u.pc = pc /\ u.backup = b /\ u.path = t.path
    BY <1>1, <2>3 DEF Task
  <2>5. RowAt(u.pc) = RowAt(t.pc)
    BY <2>1, <2>2, <2>4 DEF RowAt, Before, During
  <2>6. u.pc \notin {"idle", "insert", "begin", "dump"}
           /\ t.pc \notin {"idle", "insert"}
    BY <2>1, <2>2, <2>4
  <2>7. QED
    BY <1>3, <2>1, <2>2, <2>3, <2>4, <2>5, <2>6
<1>13. CASE Complete(w, s) \/ Fail(w, s)
  <2>1. Others /\ u = [t EXCEPT !.pc = "notify"]
    BY <1>0, <1>13, GotoTask DEF Complete, Fail, Steps
  <2>2. u.pc = "notify" /\ u.backup = b /\ t.pc \in {"commit", "fail"}
    BY <1>1, <1>13, <2>1 DEF Task, Complete, Fail, At
  <2>3. b # None /\ b \in BackupIds /\ Present(b)
    BY <1>1, <1>13, <2>2 DEF Complete, Fail
  <2>4. backups[b] \in Backup /\ backups[b].status = "in_progress"
    <3>1. RowAt(t.pc) = {"in_progress"}
      BY <2>2 DEF RowAt, Before, During
    <3>2. QED
      BY <1>0, <1>1, <2>3, <3>1 DEF Present, Live
  <2>5. SameRows /\ backups'[b].server = backups[b].server
    BY <1>0, <1>13, <2>3, <2>4 DEF Complete, Fail, SetStatus, Backup
  <2>6. /\ backups'[b].status \in {"completed", "failed"}
        /\ backups'[b].status = "completed" => backups'[b].path # None
    <3>1. CASE Complete(w, s)
      <4>1. t.path # None /\ backups'[b].path = t.path
        BY <1>0, <1>1, <2>3, <2>4, <3>1 DEF Complete, At, Backup
      <4>2. backups'[b].status = "completed"
        BY <1>0, <2>3, <2>4, <3>1 DEF Complete, Backup
      <4>3. QED
        BY <4>1, <4>2
    <3>2. CASE Fail(w, s)
      BY <1>0, <2>3, <2>4, <3>2 DEF Fail, SetStatus, Backup
    <3>3. QED
      BY <1>13, <3>1, <3>2
  <2>7. RowAt(u.pc) = {"completed", "failed"}
    BY <2>2 DEF RowAt, Before, During
  <2>8. QED
    BY <1>4, <2>1, <2>2, <2>3, <2>4, <2>5, <2>6, <2>7
<1>14. CASE Notify(w, s) \/ Stale(w, s) \/ DbFault(w, s)
  <2>1. UNCHANGED backups /\ End(w, s)
    BY <1>14 DEF Notify, Stale, DbFault, storeVars, registry, holds
  <2>2. QED
    BY <1>0, <1>3, <2>1, EndTask
<1>15. QED
  BY <1>5, <1>6, <1>7, <1>8, <1>9, <1>10, <1>11, <1>12, <1>13, <1>14 DEF TaskStep

-----------------------------------------------------------------------------
(* The other steps. *)

LEMMA OperatorInv ==
    ASSUME IInv, Operator
    PROVE  IInv'
<1>1. TypeOK /\ TypeOK'
  BY OperatorType DEF IInv
<1>2. UNCHANGED <<backups, restores, tasks, creations, queue, loops>>
  BY DEF Operator, CreateSchedule, UpdateSchedule, DeleteSchedule, DeleteServer,
     RenameServer, Edit, taskVars, restoreVars
<1>3. TaskShape' /\ RestoreShape' /\ RowFollowsTask' /\ TaskServer'
         /\ CompletedHasPath' /\ CreationChecked'
  BY <1>2 DEF IInv, TaskShape, RestoreShape, Inserted, RowFollowsTask, TaskServer,
     CompletedHasPath, CreationChecked, Present
<1>4. BackupHasServer' /\ RestoreRefsComplete'
  <2>1. CASE \E v \in Servers : DeleteServer(v)
    <3>1. PICK v \in Servers : DeleteServer(v)
      BY <2>1
    <3>2. servers' = servers \ {v} /\ ~ ServerReferenced(v)
      BY <3>1 DEF DeleteServer
    <3>3. QED
      BY <1>2, <3>2 DEF IInv, BackupHasServer, RestoreRefsComplete,
         ServerReferenced, Present
  <2>2. CASE UNCHANGED servers
    BY <1>2, <2>2 DEF IInv, BackupHasServer, RestoreRefsComplete, Present
  <2>3. QED
    BY <2>1, <2>2 DEF Operator, CreateSchedule, UpdateSchedule, DeleteSchedule,
       RenameServer, Edit, registry
<1>5. QED
  BY <1>1, <1>3, <1>4 DEF IInv

\* Nothing the invariant speaks of changes.
LEMMA QuietInv ==
    ASSUME IInv, TypeOK',
           UNCHANGED <<servers, backups, restores, tasks, creations, queue, loops>>
    PROVE  IInv'
BY DEF IInv, TaskShape, RestoreShape, Inserted, RowFollowsTask, TaskServer,
   CompletedHasPath, CreationChecked, Present, BackupHasServer,
   RestoreRefsComplete

LEMMA ClockInv ==
    ASSUME IInv, Clock
    PROVE  IInv'
BY ClockType, QuietInv DEF IInv, Clock, Tick, registry, taskVars, restoreVars

LEMMA BackupApiInv ==
    ASSUME IInv, BackupApi
    PROVE  IInv'
<1>1. /\ TypeOK /\ TypeOK'
      /\ UNCHANGED <<creations, queue, loops>>
  BY BackupApiType DEF IInv, BackupApi, restoreVars
<1>2. ASSUME NEW u \in Workers, NEW r \in Schedules, tasks[u][r].backup # None
      PROVE  /\ tasks[u][r].backup \in BackupIds
             /\ backups[tasks[u][r].backup].status # "absent"
  <2>1. tasks[u][r] \in Task
    BY <1>1 DEF TypeOK, TaskTypeOK
  <2>2. "absent" \notin {"deleted"} \cup RowAt(tasks[u][r].pc)
    BY DEF RowAt
  <2>3. QED
    BY <1>2, <2>1, <2>2 DEF Task, IInv, RowFollowsTask
<1>3. ASSUME NEW b \in BackupIds, NEW v \in Servers, NEW t \in Types,
             CreateBackup(b, v, t)
      PROVE  IInv'
  <2>1. /\ UNCHANGED <<servers, restores, tasks>>
        /\ backups[b].status = "absent" /\ v \in servers
        /\ backups'[b].status = "pending" /\ backups'[b].server = v
        /\ \A d \in BackupIds : d # b => backups'[d] = backups[d]
    BY <1>1, <1>3 DEF CreateBackup, InsertBackup, registry, taskVars, TypeOK,
       StoreTypeOK
  <2>2. TaskShape' /\ RestoreShape'
    BY <1>1, <2>1 DEF IInv, TaskShape, RestoreShape, Inserted
  <2>3. RowFollowsTask' /\ TaskServer'
    BY <1>2, <2>1 DEF IInv, RowFollowsTask, TaskServer, Present
  <2>4. CompletedHasPath' /\ CreationChecked' /\ BackupHasServer'
           /\ RestoreRefsComplete'
    BY <1>1, <2>1, RowsKeep DEF IInv
  <2>5. QED
    BY <1>1, <2>2, <2>3, <2>4 DEF IInv
<1>4. ASSUME NEW b \in BackupIds, NEW s \in Schedules, RunScheduledBackup(b, s)
      PROVE  IInv'
  BY <1>3, <1>4, StoreAssumption DEF RunScheduledBackup
<1>5. ASSUME NEW h \in Handlers, DeleteCommit(h)
      PROVE  IInv'
  <2>1. UNCHANGED <<servers, restores, tasks>>
    BY <1>5 DEF DeleteCommit, registry, taskVars
  <2>2. ASSUME NEW d \in BackupIds
        PROVE  \/ backups'[d] = backups[d]
               \/ /\ backups'[d].status = "deleted"
                  /\ \A r \in RestoreIds :
                        restores[r].status \in Live => restores[r].backup # d
    BY <1>5 DEF DeleteCommit, EraseBackups, NoBackup, Referenced
  <2>3. TaskShape' /\ RestoreShape'
    BY <1>1, <2>1 DEF IInv, TaskShape, RestoreShape, Inserted
  <2>4. RowFollowsTask' /\ TaskServer'
    BY <1>2, <2>1, <2>2 DEF IInv, RowFollowsTask, TaskServer, Present, Live
  <2>5. CompletedHasPath' /\ BackupHasServer'
    BY <2>1, <2>2 DEF IInv, CompletedHasPath, BackupHasServer, Present, Live
  <2>6. CreationChecked'
    <3>1. ASSUME NEW k \in Handlers, creations[k].pc = "insert"
          PROVE  creations[k].backup \in BackupIds
      <4>1. creations[k] \in Creation
        BY <1>1 DEF TypeOK, RestoreTypeOK
      <4>2. QED
        BY <3>1, <4>1 DEF Creation, IInv, RestoreShape
    <3>2. QED
      BY <1>1, <2>2, <3>1 DEF IInv, CreationChecked
  <2>7. RestoreRefsComplete'
    <3>1. ASSUME NEW r \in RestoreIds, restores[r].status \in Live
          PROVE  backups'[restores[r].backup] = backups[restores[r].backup]
      BY <1>1, <2>2, <3>1 DEF TypeOK, StoreTypeOK, Restore, IInv, RestoreShape
    <3>2. QED
      BY <2>1, <3>1 DEF IInv, RestoreRefsComplete
  <2>8. QED
    BY <1>1, <2>3, <2>4, <2>5, <2>6, <2>7 DEF IInv
<1>6. CASE UNCHANGED <<servers, backups, restores, tasks>>
  BY <1>1, <1>6, QuietInv
<1>7. QED
  BY <1>3, <1>4, <1>5, <1>6 DEF BackupApi, DeleteStep, DeleteSelect, BatchSelect,
     DeleteUnlink, RequestFault, storeVars, registry, holds, taskVars

LEMMA RestoreApiInv ==
    ASSUME IInv, RestoreApi
    PROVE  IInv'
<1>1. /\ TypeOK /\ TypeOK' /\ RestoreShape
      /\ UNCHANGED <<servers, backups, tasks, loops>>
  BY RestoreApiType DEF IInv, RestoreApi, CreationStep, CreateSelect, CreateInsert,
     CreatePush, CreationFault, storeVars, registry, holds, elsewhere, taskVars
<1>2. TaskShape' /\ RowFollowsTask' /\ TaskServer' /\ CompletedHasPath'
         /\ BackupHasServer'
  BY <1>1 DEF IInv, TaskShape, RowFollowsTask, TaskServer, CompletedHasPath,
     BackupHasServer, Present
<1>3. /\ creations \in [Handlers -> Creation]
      /\ restores \in [RestoreIds -> Restore]
      /\ queue \in Seq(RestoreIds)
  BY <1>1 DEF TypeOK, RestoreTypeOK, StoreTypeOK
<1>4. CASE UNCHANGED <<restores, queue>> /\
           \E h \in Handlers : creations' = [creations EXCEPT ![h] = NoCreation]
  <2>1. RestoreShape' /\ CreationChecked'
    BY <1>1, <1>3, <1>4 DEF IInv, RestoreShape, Inserted, CreationChecked, NoCreation
  <2>2. RestoreRefsComplete'
    BY <1>1, <1>4 DEF IInv, RestoreRefsComplete
  <2>3. QED
    BY <1>1, <1>2, <2>1, <2>2 DEF IInv
<1>5. ASSUME NEW h \in Handlers, NEW b \in BackupIds, CreateSelect(h, b)
      PROVE  IInv'
  <2>1. UNCHANGED <<restores, queue>> /\ b # None
    BY <1>5, StoreAssumption DEF CreateSelect, storeVars, registry, holds
  <2>2. /\ creations'[h] = [pc |-> "insert", backup |-> b, job |-> None]
        /\ \A k \in Handlers : k # h => creations'[k] = creations[k]
        /\ backups[b].status = "completed"
    BY <1>3, <1>5 DEF CreateSelect
  <2>3. RestoreShape' /\ CreationChecked'
    BY <1>1, <2>1, <2>2 DEF IInv, RestoreShape, Inserted, CreationChecked
  <2>4. RestoreRefsComplete'
    BY <1>1, <2>1 DEF IInv, RestoreRefsComplete
  <2>5. QED
    BY <1>1, <1>2, <2>3, <2>4 DEF IInv
<1>6. ASSUME NEW h \in Handlers, NEW r \in RestoreIds, NEW v \in Servers,
             CreateInsert(h, r, v)
      PROVE  IInv'
  <2> DEFINE b == creations[h].backup
  <2>1. UNCHANGED queue /\ creations[h].pc = "insert"
    BY <1>6 DEF CreateInsert
  <2>2. CASE UNCHANGED restores
    BY <1>4, <1>6, <2>1, <2>2, <1>3 DEF CreateInsert, Restore
  <2>3. CASE /\ Present(b) /\ v \in servers
             /\ restores' = [restores EXCEPT ![r] =
                   [status |-> "pending", backup |-> b, server |-> v]]
             /\ creations' = [creations EXCEPT ![h].pc = "push", ![h].job = r]
    <3>1. creations[h] \in Creation /\ b \in BackupIds /\ b # None
             /\ backups[b].status = "completed" /\ backups[b].path # None
      <4>1. creations[h] \in Creation /\ b # None
        BY <1>1, <1>3, <2>1 DEF RestoreShape
      <4>2. b \in BackupIds
        BY <4>1 DEF Creation
      <4>3. QED
        BY <2>1, <2>3, <4>1, <4>2
           DEF IInv, CreationChecked, CompletedHasPath, Present, Live
    <3>2. /\ creations'[h] = [creations[h] EXCEPT !.pc = "push", !.job = r]
          /\ \A k \in Handlers : k # h => creations'[k] = creations[k]
      BY <1>3, <2>3
    <3>3. creations'[h].pc = "push" /\ creations'[h].job = r
      BY <3>1, <3>2 DEF Creation
    <3>4. /\ restores'[r] = [status |-> "pending", backup |-> b, server |-> v]
          /\ \A q \in RestoreIds : q # r => restores'[q] = restores[q]
      BY <1>3, <2>3
    <3>5. r # None /\ "pending" \in Live
      BY StoreAssumption DEF Live
    <3> DEFINE InsertedNext(q) == q # None /\ restores'[q].status \in Live
    <3>6. ASSUME NEW q, Inserted(q), q \in RestoreIds
          PROVE  InsertedNext(q)
      BY <3>4, <3>5, <3>6 DEF Inserted
    <3>7. RestoreShape'
      <4>1. ASSUME NEW k \in Handlers, creations'[k].pc = "push"
            PROVE  InsertedNext(creations'[k].job)
        <5>1. CASE k = h
          BY <3>3, <3>4, <3>5, <5>1 DEF Inserted
        <5>2. CASE k # h
          <6>1. creations[k].job \in RestoreIds /\ Inserted(creations[k].job)
            <7>1. creations[k] \in Creation
              BY <1>3
            <7>2. QED
              BY <1>1, <3>2, <4>1, <5>2, <7>1 DEF RestoreShape, Inserted, Creation
          <6>2. QED
            BY <3>2, <3>6, <5>2, <6>1 DEF Inserted
        <5>3. QED
          BY <5>1, <5>2
      <4>2. ASSUME NEW k \in Handlers, creations'[k].pc = "insert"
            PROVE  creations'[k].backup # None
        BY <1>1, <3>2, <3>3, <4>2 DEF RestoreShape
      <4>3. ASSUME NEW i \in DOMAIN queue'
            PROVE  InsertedNext(queue'[i])
        <5>1. queue[i] \in RestoreIds /\ Inserted(queue[i])
          BY <1>1, <1>3, <2>1, <4>3 DEF RestoreShape
        <5>2. QED
          BY <2>1, <3>6, <5>1 DEF Inserted
      <4>4. ASSUME NEW w \in Workers, loops'[w].pc # "idle"
            PROVE  InsertedNext(loops'[w].job)
        <5>1. loops[w].job \in RestoreIds /\ Inserted(loops[w].job)
          <6>1. loops[w] \in Loop
            BY <1>1 DEF TypeOK, RestoreTypeOK
          <6>2. QED
            BY <1>1, <4>4, <6>1 DEF RestoreShape, Inserted, Loop
        <5>2. QED
          BY <1>1, <3>6, <5>1 DEF Inserted
      <4>5. ASSUME NEW q \in RestoreIds, restores'[q].status \in Live
            PROVE  restores'[q].backup # None
        BY <1>1, <3>1, <3>4, <4>5 DEF RestoreShape
      <4>6. QED
        BY <1>1, <4>1, <4>2, <4>3, <4>4, <4>5 DEF RestoreShape, Inserted
    <3>8. CreationChecked'
      BY <1>1, <3>2, <3>3 DEF IInv, CreationChecked
    <3>9. RestoreRefsComplete'
      BY <1>1, <2>3, <3>1, <3>4 DEF IInv, RestoreRefsComplete
    <3>10. QED
      BY <1>1, <1>2, <3>7, <3>8, <3>9 DEF IInv
  <2>4. QED
    BY <1>6, <2>2, <2>3 DEF CreateInsert
<1>7. ASSUME NEW h \in Handlers, CreatePush(h)
      PROVE  IInv'
  <2>1. CASE UNCHANGED queue
    BY <1>4, <1>7, <2>1 DEF CreatePush
  <2>2. CASE queue' = Append(queue, creations[h].job)
    <3>1. creations[h].job \in RestoreIds /\ Inserted(creations[h].job)
      <4>1. creations[h] \in Creation
        BY <1>3
      <4>2. QED
        BY <1>1, <1>7, <4>1 DEF CreatePush, RestoreShape, Inserted, Creation
    <3>2. UNCHANGED restores
      BY <1>7 DEF CreatePush
    <3>3. \A i \in DOMAIN queue' : Inserted(queue'[i])
      BY <1>1, <1>3, <2>2, <3>1 DEF RestoreShape
    <3>4. creations' = [creations EXCEPT ![h] = NoCreation]
      BY <1>7 DEF CreatePush
    <3>5. RestoreShape' /\ CreationChecked'
      BY <1>1, <1>3, <3>2, <3>3, <3>4
         DEF IInv, RestoreShape, Inserted, CreationChecked, NoCreation
    <3>6. RestoreRefsComplete'
      BY <1>1, <3>2 DEF IInv, RestoreRefsComplete
    <3>7. QED
      BY <1>1, <1>2, <3>5, <3>6 DEF IInv
  <2>3. QED
    BY <1>7, <2>1, <2>2 DEF CreatePush
<1>8. ASSUME NEW h \in Handlers, CreationFault(h)
      PROVE  IInv'
  BY <1>4, <1>8 DEF CreationFault
<1>9. QED
  BY <1>5, <1>6, <1>7, <1>8 DEF RestoreApi, CreationStep

LEMMA RestoreStepInv ==
    ASSUME IInv, NEW w \in Workers, RestoreStep(w)
    PROVE  IInv'
<1>1. /\ TypeOK /\ TypeOK' /\ RestoreShape
      /\ UNCHANGED <<servers, backups, tasks, creations>>
  BY RestoreStepType DEF IInv, RestoreStep, PopRestore, SelectBackup, SelectServer,
     BeginRestore, Decrypt, Decompress, DecompressFails, LRaise, Apply, ApplyHangs,
     CompleteRestore, NotifyRestore, FailRestore, RestoreDbFault, storeVars,
     registry, holds, elsewhere, taskVars
<1>2. /\ loops \in [Workers -> Loop]
      /\ restores \in [RestoreIds -> Restore]
      /\ queue \in Seq(RestoreIds)
      /\ loops[w] \in Loop
  BY <1>1 DEF TypeOK, RestoreTypeOK, StoreTypeOK
<1>3. TaskShape' /\ RowFollowsTask' /\ TaskServer' /\ CompletedHasPath'
         /\ BackupHasServer' /\ CreationChecked'
  BY <1>1 DEF IInv, TaskShape, RowFollowsTask, TaskServer, CompletedHasPath,
     BackupHasServer, CreationChecked, Present
\* The job row of a loop that works is live, and stays so.
<1>4. restores' = restores \/ \E st \in Live : /\ SetRestore(loops[w].job, st)
                                              /\ loops[w].pc # "idle"
  BY DEF RestoreStep, PopRestore, SelectBackup, SelectServer, BeginRestore, Decrypt,
     Decompress, DecompressFails, LRaise, Apply, ApplyHangs, CompleteRestore,
     NotifyRestore, FailRestore, RestoreDbFault, storeVars, registry, holds, LAt,
     Live
<1> DEFINE SameJob(r) ==
              /\ restores'[r].backup = restores[r].backup
              /\ restores'[r].server = restores[r].server
              /\ restores[r].status \in Live <=> restores'[r].status \in Live
<1>5. ASSUME NEW r \in RestoreIds
      PROVE  SameJob(r)
  <2>1. CASE restores' = restores
    BY <2>1
  <2>2. ASSUME NEW st \in Live, SetRestore(loops[w].job, st), loops[w].pc # "idle"
        PROVE  SameJob(r)
    <3>1. restores[loops[w].job].status \in Live
      BY <1>1, <2>2 DEF RestoreShape, Inserted
    <3>2. restores[r] \in Restore
      BY <1>2
    <3>3. \/ restores'[r] = restores[r]
          \/ r = loops[w].job /\ restores'[r] = [restores[r] EXCEPT !.status = st]
      BY <1>2, <2>2 DEF SetRestore
    <3>4. QED
      BY <2>2, <3>1, <3>2, <3>3 DEF Restore
  <2>3. QED
    BY <1>4, <2>1, <2>2
<1>6. RestoreRefsComplete'
  BY <1>1, <1>5 DEF IInv, RestoreRefsComplete
<1> DEFINE LoopMoves ==
              /\ \A u \in Workers : u # w => loops'[u] = loops[u]
              /\ \/ loops'[w] = NoLoop
                 \/ /\ loops'[w].job = loops[w].job
                    /\ loops[w].pc # "idle"
                    /\ loops'[w].pc \in {"decompress", "apply"}
                          => loops'[w].path # None
                 \/ /\ queue # <<>>
                    /\ loops'[w].job = Head(queue)
                    /\ loops'[w].pc = "backup"
<1>7. LoopMoves
  <2>1. CASE PopRestore(w)
    BY <1>2, <2>1 DEF PopRestore
  <2>2. CASE SelectBackup(w)
    <3>1. CASE LEnd(w)
      BY <1>2, <3>1 DEF LEnd
    <3>2. CASE loops' = [loops EXCEPT ![w].pc = "server",
                     ![w].path = backups[restores[loops[w].job].backup].path]
      <4>1. loops[w].pc = "backup"
        BY <2>2 DEF SelectBackup, LAt
      <4>2. QED
        BY <1>2, <3>2, <4>1 DEF Loop
    <3>3. QED
      BY <2>2, <3>1, <3>2 DEF SelectBackup
  <2>3. CASE LEnd(w)
    BY <1>2, <2>3 DEF LEnd
  <2>4. ASSUME NEW pc \in RestoreSteps, LGoto(w, pc), loops[w].pc # "idle",
               pc \in {"decompress", "apply"} => loops[w].path # None
        PROVE  LoopMoves
    <3>1. loops'[w] = [loops[w] EXCEPT !.pc = pc]
             /\ \A u \in Workers : u # w => loops'[u] = loops[u]
      BY <1>2, <2>4 DEF LGoto
    <3>2. QED
      BY <1>2, <2>4, <3>1 DEF Loop
  <2>5. CASE Decrypt(w)
    <3>1. FileAt(loops[w].path, "enc") # None => loops[w].path # None
      BY DEF FileAt
    <3>2. QED
      BY <2>4, <2>5, <3>1 DEF Decrypt, LAt, RestoreSteps
  <2>6. CASE Decompress(w)
    <3>1. loops[w].pc = "decompress" /\ loops[w].path # None
      BY <1>1, <2>6 DEF Decompress, LAt, RestoreShape
    <3>2. QED
      BY <2>4, <2>6, <3>1 DEF Decompress, RestoreSteps
  <2>7. CASE \/ SelectServer(w) \/ BeginRestore(w) \/ DecompressFails(w)
             \/ Apply(w) \/ ApplyHangs(w) \/ CompleteRestore(w)
    BY <2>3, <2>4, <2>7 DEF SelectServer, BeginRestore, DecompressFails, LRaise,
       Apply, ApplyHangs, CompleteRestore, LAt, RestoreSteps
  <2>8. QED
    BY <2>1, <2>2, <2>3, <2>5, <2>6, <2>7 DEF RestoreStep, NotifyRestore,
       FailRestore, RestoreDbFault
<1>8. \A i \in DOMAIN queue' : \E j \in DOMAIN queue : queue'[i] = queue[j]
  <2>1. CASE PopRestore(w)
    BY <1>2, <2>1 DEF PopRestore
  <2>2. CASE UNCHANGED queue
    BY <2>2
  <2>3. QED
    BY <2>1, <2>2 DEF RestoreStep, SelectBackup, SelectServer, BeginRestore,
       Decrypt, Decompress, DecompressFails, LRaise, Apply, ApplyHangs,
       CompleteRestore, NotifyRestore, FailRestore, RestoreDbFault
<1>9. RestoreShape'
  <2> DEFINE InsertedNext(j) == j # None /\ restores'[j].status \in Live
  <2>1. ASSUME NEW j \in RestoreIds, Inserted(j)
        PROVE  InsertedNext(j)
    BY <1>5, <2>1 DEF Inserted
  <2>2. ASSUME NEW h \in Handlers, creations[h].pc = "push"
        PROVE  InsertedNext(creations[h].job)
    <3>1. creations[h].job \in RestoreIds /\ Inserted(creations[h].job)
      <4>1. creations[h] \in Creation
        BY <1>1 DEF TypeOK, RestoreTypeOK
      <4>2. QED
        BY <1>1, <2>2, <4>1 DEF RestoreShape, Inserted, Creation
    <3>2. QED
      BY <2>1, <3>1
  <2>3. ASSUME NEW i \in DOMAIN queue
        PROVE  InsertedNext(queue[i])
    BY <1>1, <1>2, <2>1 DEF RestoreShape
  <2>4. ASSUME NEW u \in Workers, loops[u].pc # "idle"
        PROVE  InsertedNext(loops[u].job)
    <3>1. loops[u].job \in RestoreIds /\ Inserted(loops[u].job)
      <4>1. loops[u] \in Loop
        BY <1>2
      <4>2. QED
        BY <1>1, <2>4, <4>1 DEF RestoreShape, Inserted, Loop
    <3>2. QED
      BY <2>1, <3>1
  <2>5. queue # <<>> => InsertedNext(Head(queue))
    BY <1>2, <2>3
  <2>6. ASSUME NEW u \in Workers
        PROVE  /\ loops'[u].pc # "idle" => InsertedNext(loops'[u].job)
               /\ loops'[u].pc \in {"decompress", "apply"} => loops'[u].path # None
    BY <1>1, <1>7, <2>4, <2>5 DEF NoLoop, RestoreShape
  <2>7. ASSUME NEW r \in RestoreIds, restores'[r].status \in Live
        PROVE  restores'[r].backup # None
    BY <1>1, <1>5, <2>7 DEF RestoreShape
  <2>8. \A i \in DOMAIN queue' : InsertedNext(queue'[i])
    BY <1>8, <2>3
  <2>9. QED
    BY <1>1, <2>2, <2>6, <2>7, <2>8 DEF RestoreShape, Inserted
<1>10. QED
  BY <1>1, <1>3, <1>6, <1>9 DEF IInv

LEMMA CrashInv ==
    ASSUME IInv, NEW w \in Workers, Crash(w)
    PROVE  IInv'
<1>1. TypeOK /\ TypeOK'
  BY CrashType DEF IInv
<1>2. /\ UNCHANGED <<servers, backups, restores, creations, queue>>
      /\ \A u \in Workers, s \in Schedules : tasks'[u][s] \in {tasks[u][s], Idle}
      /\ \A u \in Workers : loops'[u] \in {loops[u], NoLoop}
  BY <1>1 DEF Crash, registry, TypeOK, TaskTypeOK, RestoreTypeOK
<1>3. TaskShape' /\ RestoreShape'
  BY <1>2 DEF IInv, TaskShape, RestoreShape, Inserted, Idle, NoLoop
<1>4. RowFollowsTask' /\ TaskServer'
  BY <1>2 DEF IInv, RowFollowsTask, TaskServer, Present, Idle
<1>5. CompletedHasPath' /\ CreationChecked' /\ BackupHasServer'
         /\ RestoreRefsComplete'
  BY <1>2 DEF IInv, CompletedHasPath, CreationChecked, BackupHasServer,
     RestoreRefsComplete, Present
<1>6. QED
  BY <1>1, <1>3, <1>4, <1>5 DEF IInv

LEMMA InitInv ==
    ASSUME Init
    PROVE  IInv
<1> USE DEF Init, StoreInit, SchedulingInit, TaskInit, RoutesInit, RestoreInit
<1>1. StoreTypeOK
  <2>1. NoBackup("absent") \in Backup /\ NoRestore \in Restore
    BY DEF NoBackup, NoRestore, Backup, Restore, Statuses
  <2>2. 0 \in 0..MaxSecond
    BY StoreAssumption
  <2>3. /\ holders \in [Names -> SUBSET Servers]
        /\ held \in [Workers -> Stems \cup {None}]
        /\ names \in [Servers -> Names]
    BY StoreAssumption
  <2>4. disk \in [Stems -> [Suffixes -> BackupIds \cup {None}]]
    OBVIOUS
  <2>5. spent \in [Kinds -> Nat]
    OBVIOUS
  <2>6. QED
    BY <2>1, <2>2, <2>3, <2>4, <2>5 DEF StoreTypeOK
<1>2. SchedulingTypeOK
  BY SchedulingAssumption DEF SchedulingTypeOK, ScheduleStates
<1>3. TaskTypeOK
  BY IdleType DEF TaskTypeOK, DumpNote, NoDump
<1>4. RoutesTypeOK
  BY DEF RoutesTypeOK, Request, NoRequest
<1>5. RestoreTypeOK
  <2>1. NoCreation \in Creation /\ NoLoop \in Loop
    BY DEF Creation, NoCreation, Loop, NoLoop, RestoreSteps
  <2>2. <<>> \in Seq(RestoreIds)
    OBVIOUS
  <2>3. QED
    BY <2>1, <2>2 DEF RestoreTypeOK
<1>6. /\ \A b \in BackupIds : backups[b].status = "absent"
      /\ \A r \in RestoreIds : restores[r].status = "absent"
      /\ \A w \in Workers, s \in Schedules : tasks[w][s] = Idle
      /\ \A w \in Workers : loops[w] = NoLoop
      /\ \A h \in Handlers : creations[h] = NoCreation
      /\ queue = <<>>
  BY DEF NoBackup, NoRestore
<1>7. TaskShape /\ RowFollowsTask /\ TaskServer
  BY <1>6 DEF TaskShape, RowFollowsTask, TaskServer, Idle
<1>8. RestoreShape /\ CreationChecked
  BY <1>6 DEF RestoreShape, CreationChecked, NoLoop, NoCreation, Live
<1>9. CompletedHasPath /\ BackupHasServer /\ RestoreRefsComplete
  BY <1>6 DEF CompletedHasPath, BackupHasServer, RestoreRefsComplete, Present, Live
<1>10. QED
  BY <1>1, <1>2, <1>3, <1>4, <1>5, <1>7, <1>8, <1>9 DEF IInv, TypeOK

LEMMA NextInv ==
    ASSUME IInv, [Next]_vars
    PROVE  IInv'
<1>1. CASE UNCHANGED vars
  <2>1. TypeOK'
    BY <1>1 DEF IInv, TypeOK, StoreTypeOK, SchedulingTypeOK, TaskTypeOK,
       RoutesTypeOK, RestoreTypeOK, vars, storeVars, registry, holds,
       schedulingVars, taskVars, restoreVars
  <2>2. QED
    BY <1>1, <2>1, QuietInv DEF vars, storeVars, registry, holds, taskVars,
       restoreVars
<1>2. ASSUME NEW w \in Workers, BackupWork(w)
      PROVE  IInv'
  BY <1>2, TaskStepInv DEF BackupWork
<1>3. QED
  BY <1>1, <1>2, OperatorInv, ClockInv, BackupApiInv, RestoreApiInv,
     RestoreStepInv, CrashInv DEF Next

-----------------------------------------------------------------------------
(* The theorems. *)

\* The inductive invariant holds in every reachable state.
THEOREM Invariance == Spec => []IInv
<1>1. Init => IInv
  BY InitInv
<1>2. IInv /\ [Next]_vars => IInv'
  BY NextInv
<1>3. QED
  BY <1>1, <1>2, PTL DEF Spec

\* Every variable keeps its type.
THEOREM TypeCorrect == Spec => []TypeOK
<1>1. IInv => TypeOK
  BY DEF IInv
<1>2. QED
  BY <1>1, Invariance, PTL

\* perform_backup is the only writer of its row: the status of a row says where
\* its coroutine stands, and no row has two coroutines, in one worker or two.
THEOREM RowsFollowTasks == Spec => []RowFollowsTask
<1>1. IInv => RowFollowsTask
  BY DEF IInv
<1>2. QED
  BY <1>1, Invariance, PTL

\* The check of create_restore_job needs no repetition in perform_restore: the
\* backup of a restore job stays COMPLETED, with a path, and its server stays.
THEOREM RestoreRefsStay == Spec => []RestoreRefsComplete
<1>1. IInv => RestoreRefsComplete
  BY DEF IInv
<1>2. QED
  BY <1>1, Invariance, PTL

\* A backup row always has its server: delete_ldap_server cannot overtake an
\* insert of the scheduler or of a route.
THEOREM BackupsKeepServers == Spec => []BackupHasServer
<1>1. IInv => BackupHasServer
  BY DEF IInv
<1>2. QED
  BY <1>1, Invariance, PTL

-----------------------------------------------------------------------------
(* The budgets are only ever spent. *)

LEMMA SpendGrows ==
    ASSUME spent \in [Kinds -> Nat], NEW k \in Kinds, Spend(k)
    PROVE  /\ spent'[k] > 0
           /\ \A j \in Kinds : spent'[j] >= spent[j]
BY DEF Spend

LEMMA SpentSteps ==
    ASSUME [Next]_vars
    PROVE  UNCHANGED spent \/ \E k \in Kinds : Spend(k)
<1>1. CASE UNCHANGED vars
  BY <1>1 DEF vars, storeVars, registry, holds
<1>2. CASE Operator \/ Clock
  BY <1>2 DEF Operator, CreateSchedule, UpdateSchedule, DeleteSchedule, Edit,
     DeleteServer, RenameServer, Clock, Tick, Kinds
<1>3. CASE BackupApi
  BY <1>3 DEF BackupApi, CreateBackup, RunScheduledBackup, DeleteSelect,
     BatchSelect, DeleteStep, DeleteUnlink, DeleteCommit, RequestFault, Kinds,
     storeVars, registry, holds
<1>4. CASE RestoreApi
  BY <1>4 DEF RestoreApi, CreateSelect, CreationStep, CreateInsert, CreatePush,
     CreationFault, Kinds, storeVars, registry, holds
<1>5. ASSUME NEW w \in Workers, BackupWork(w)
      PROVE  UNCHANGED spent \/ \E k \in Kinds : Spend(k)
  BY <1>5 DEF BackupWork, TaskStep, Fire, InsertRow, LoadRow, LoadServer, Begin,
     Dump, DumpFails, DumpHangs, Compress, Encrypt, Size, Torn, Onward, Raise,
     FileFault, Incomplete, Complete, Fail, Notify, Stale, DbFault, Kinds,
     storeVars, registry, holds
<1>6. ASSUME NEW w \in Workers, RestoreStep(w) \/ Crash(w)
      PROVE  UNCHANGED spent \/ \E k \in Kinds : Spend(k)
  BY <1>6 DEF RestoreStep, PopRestore, SelectBackup, SelectServer, BeginRestore,
     Decrypt, Decompress, DecompressFails, LRaise, Apply, ApplyHangs,
     CompleteRestore, NotifyRestore, FailRestore, RestoreDbFault, Crash, Kinds,
     storeVars, registry, holds
<1>7. QED
  BY <1>1, <1>2, <1>3, <1>4, <1>5, <1>6 DEF Next

\* What has never been spent after a step was not spent before it.
LEMMA SpentGrows ==
    ASSUME TypeOK, [Next]_vars
    PROVE  /\ \A j \in Kinds : spent'[j] >= spent[j]
           /\ \A j \in Kinds : spent'[j] = 0 => spent[j] = 0
<1>1. spent \in [Kinds -> Nat]
  BY DEF TypeOK, StoreTypeOK
<1>2. CASE UNCHANGED spent
  BY <1>1, <1>2
<1>3. ASSUME NEW k \in Kinds, Spend(k)
      PROVE  \A j \in Kinds : spent'[j] >= spent[j] /\ spent'[j] \in Nat
  BY <1>1, <1>3, SpendGrows DEF Spend
<1>4. QED
  BY <1>1, <1>2, <1>3, SpentSteps

-----------------------------------------------------------------------------
(* The backups table implements JobLifecycle. *)

LEMMA OneRowMoves ==
    ASSUME NEW b \in BackupIds, NEW x, NEW y, <<x, y>> \in BackupLife!Edges,
           backups[b].status = x, backups'[b].status = y,
           \A d \in BackupIds : d # b => backups'[d] = backups[d]
    PROVE  BackupLife!Move(b)
<1> DEFINE st == [d \in BackupIds |-> backups[d].status]
           nx == [d \in BackupIds |-> backups'[d].status]
<1>1. nx = [st EXCEPT ![b] = y] /\ st[b] = x
  OBVIOUS
<1>2. <<x, y>>[1] = x /\ <<x, y>>[2] = y
  OBVIOUS
<1>3. QED
  BY <1>1, <1>2 DEF BackupLife!Move

LEMMA BackupStep ==
    ASSUME IInv, [Next]_vars
    PROVE  [BackupLife!Next]_([b \in BackupIds |-> backups[b].status])
<1> DEFINE Moves == \E b \in BackupIds : BackupLife!Move(b)
           st == [b \in BackupIds |-> backups[b].status]
<1>1. /\ TypeOK /\ TaskShape /\ RowFollowsTask /\ TaskServer /\ BackupHasServer
      /\ backups \in [BackupIds -> Backup]
  BY DEF IInv, TypeOK, StoreTypeOK
<1>2. ASSUME UNCHANGED backups
      PROVE  UNCHANGED st
  BY <1>2
<1>3. ASSUME NEW b \in BackupIds, NEW v, NEW t, InsertBackup(b, v, t)
      PROVE  Moves
  <2>1. /\ backups[b].status = "absent" /\ backups'[b].status = "pending"
        /\ \A d \in BackupIds : d # b => backups'[d] = backups[d]
    BY <1>1, <1>3 DEF InsertBackup
  <2>2. <<"absent", "pending">> \in BackupLife!Edges
    BY DEF BackupLife!Edges
  <2>3. QED
    BY <2>1, <2>2, OneRowMoves
<1>4. ASSUME NEW w \in Workers, NEW s \in Schedules, TaskStep(w, s)
      PROVE  Moves \/ UNCHANGED backups
  <2> DEFINE t == tasks[w][s]
             b == tasks[w][s].backup
  <2>1. /\ b \in BackupIds \cup {None}
        /\ b = None <=> t.pc \in {"idle", "insert"}
        /\ b # None => backups[b].status \in {"deleted"} \cup RowAt(t.pc)
        /\ b # None /\ Present(b) => ServerOf[s] \in servers
    <3>1. t \in Task
      BY <1>1 DEF TypeOK, TaskTypeOK
    <3>2. b \in BackupIds \cup {None}
      BY <3>1 DEF Task
    <3>3. QED
      BY <1>1, <3>2 DEF TaskShape, RowFollowsTask, TaskServer, BackupHasServer
  <2>2. CASE InsertRow(w, s)
    BY <1>3, <2>2 DEF InsertRow
  <2>3. CASE LoadServer(w, s)
    BY <2>1, <2>3 DEF LoadServer, At
  <2>4. CASE Begin(w, s)
    <3>1. t.pc = "begin" /\ b \in BackupIds /\ b # None /\ Present(b)
      BY <2>1, <2>4 DEF Begin, At
    <3>2. RowAt(t.pc) = {"pending"}
      BY <3>1 DEF RowAt, Before, During
    <3>3. backups[b] \in Backup /\ backups[b].status = "pending"
      BY <1>1, <2>1, <3>1, <3>2 DEF Present, Live
    <3>4. /\ backups'[b].status = "in_progress"
          /\ \A d \in BackupIds : d # b => backups'[d] = backups[d]
      BY <1>1, <2>4, <3>1, <3>3 DEF Begin, SetStatus, Backup
    <3>5. <<"pending", "in_progress">> \in BackupLife!Edges
      BY DEF BackupLife!Edges
    <3>6. QED
      BY <3>1, <3>3, <3>4, <3>5, OneRowMoves
  <2>5. CASE Complete(w, s) \/ Fail(w, s)
    <3>1. t.pc \in {"commit", "fail"} /\ b \in BackupIds /\ b # None /\ Present(b)
      BY <2>1, <2>5 DEF Complete, Fail, At
    <3>2. RowAt(t.pc) = {"in_progress"}
      BY <3>1 DEF RowAt, Before, During
    <3>3. backups[b] \in Backup /\ backups[b].status = "in_progress"
      BY <1>1, <2>1, <3>1, <3>2 DEF Present, Live
    <3>4. /\ backups'[b].status \in {"completed", "failed"}
          /\ \A d \in BackupIds : d # b => backups'[d] = backups[d]
      <4>1. CASE Complete(w, s)
        BY <1>1, <3>1, <3>3, <4>1 DEF Complete, Backup
      <4>2. CASE Fail(w, s)
        BY <1>1, <3>1, <3>3, <4>2 DEF Fail, SetStatus, Backup
      <4>3. QED
        BY <2>5, <4>1, <4>2
    <3>5. /\ <<"in_progress", "completed">> \in BackupLife!Edges
          /\ <<"in_progress", "failed">> \in BackupLife!Edges
      BY DEF BackupLife!Edges
    <3>6. QED
      BY <3>1, <3>3, <3>4, <3>5, OneRowMoves
  <2>6. QED
    BY <1>4, <2>2, <2>3, <2>4, <2>5 DEF TaskStep, Fire, LoadRow, Dump, DumpFails,
       DumpHangs, Compress, Encrypt, Size, Torn, Onward, Raise, FileFault,
       Incomplete, Notify, Stale, DbFault, storeVars, registry, holds
<1>5. ASSUME NEW h \in Handlers, DeleteCommit(h)
      PROVE  (\E D \in SUBSET BackupIds : BackupLife!Delete(D)) \/ UNCHANGED backups
  <2>1. requests[h].ids \in SUBSET BackupIds
    BY <1>1 DEF TypeOK, RoutesTypeOK, Request
  <2>2. CASE EraseBackups(requests[h].ids)
    <3> PICK D \in SUBSET BackupIds : D = requests[h].ids
      BY <2>1
    <3>1. ASSUME NEW d \in BackupIds
          PROVE  backups'[d].status = IF d \in D /\ backups[d].status \in Live
                                      THEN "deleted" ELSE backups[d].status
      BY <2>2 DEF EraseBackups, Present, NoBackup
    <3>2. BackupLife!Present = Live
      BY DEF BackupLife!Present, Live
    <3>3. BackupLife!Delete(D)
      BY <3>1, <3>2 DEF BackupLife!Delete
    <3>4. QED
      BY <3>3
  <2>3. QED
    BY <1>5, <2>2 DEF DeleteCommit
<1>6. CASE UNCHANGED vars
  BY <1>2, <1>6 DEF vars, storeVars, registry, holds
<1>7. CASE Operator \/ Clock \/ RestoreApi
              \/ \E w \in Workers : RestoreStep(w) \/ Crash(w)
  <2>1. UNCHANGED backups
    BY <1>7 DEF Operator, CreateSchedule, UpdateSchedule, DeleteSchedule,
       DeleteServer, RenameServer, Edit, Clock, Tick, RestoreApi, CreationStep,
       CreateSelect, CreateInsert, CreatePush, CreationFault, RestoreStep,
       PopRestore, SelectBackup, SelectServer, BeginRestore, Decrypt, Decompress,
       DecompressFails, LRaise, Apply, ApplyHangs, CompleteRestore, NotifyRestore,
       FailRestore, RestoreDbFault, Crash, storeVars, registry, holds
  <2>2. QED
    BY <1>2, <2>1
<1>8. CASE BackupApi
  BY <1>2, <1>3, <1>5, <1>8 DEF BackupApi, CreateBackup, RunScheduledBackup,
     DeleteSelect, BatchSelect, DeleteStep, DeleteUnlink, RequestFault, storeVars,
     registry, holds, BackupLife!Next
<1>9. CASE \E w \in Workers : BackupWork(w)
  BY <1>2, <1>4, <1>9 DEF BackupWork, BackupLife!Next
<1>10. QED
  BY <1>6, <1>7, <1>8, <1>9 DEF Next

\* The rows of the backups table live the life JobLifecycle describes: taken
\* once, final when ended, gone when deleted, never failed before in progress.
THEOREM BackupRefinement == Spec => BackupLifecycle
<1>1. Init => BackupLife!Init
  BY DEF Init, StoreInit, NoBackup, BackupLife!Init
<1>2. IInv /\ [Next]_vars
         => [BackupLife!Next]_([b \in BackupIds |-> backups[b].status])
  BY BackupStep
<1>3. QED
  BY <1>1, <1>2, Invariance, PTL DEF Spec, BackupLifecycle, BackupLife!Spec
=============================================================================
