--------------------------- MODULE CoroutineProofs ---------------------------
(* Theorems about the coroutines of the workers: the gauges count them, and *)
(* a row that says IN_PROGRESS has one.                                     *)
EXTENDS LdapGuardProofs, LdapGuardInvariants, FiniteSetTheorems

-----------------------------------------------------------------------------
(* One step moves one coroutine. *)

LEMMA TaskOthers ==
    ASSUME TypeOK, NEW w \in Workers, NEW s \in Schedules, TaskStep(w, s)
    PROVE  \A u \in Workers, r \in Schedules :
               u # w \/ r # s => tasks'[u][r] = tasks[u][r]
<1>1. tasks \in [Workers -> [Schedules -> Task]]
  BY DEF TypeOK, TaskTypeOK
<1>2. CASE UNCHANGED tasks
  BY <1>2
<1>3. CASE End(w, s)
  BY <1>1, <1>3, EndTask
<1>4. ASSUME NEW pc \in Steps, Goto(w, s, pc)
      PROVE  \A u \in Workers, r \in Schedules :
                 u # w \/ r # s => tasks'[u][r] = tasks[u][r]
  BY <1>1, <1>4, GotoTask
<1>5. CASE InsertRow(w, s)
  BY <1>1, <1>3, <1>5 DEF InsertRow
<1>6. CASE Dump(w, s) \/ LoadServer(w, s)
  BY <1>1, <1>3, <1>6 DEF Dump, LoadServer
<1>7. CASE \/ Fire(w, s) \/ LoadRow(w, s) \/ Begin(w, s) \/ DumpFails(w, s)
           \/ DumpHangs(w, s) \/ Compress(w, s) \/ Encrypt(w, s) \/ Size(w, s)
           \/ Torn(w, s) \/ FileFault(w, s) \/ Complete(w, s) \/ Fail(w, s)
  BY <1>2, <1>3, <1>4, <1>7 DEF Fire, LoadRow, Begin, DumpFails, DumpHangs, Compress,
     Encrypt, Size, Torn, Onward, Raise, FileFault, Complete, Fail, Steps
<1>8. CASE Notify(w, s) \/ Stale(w, s) \/ DbFault(w, s)
  BY <1>3, <1>8 DEF Notify, Stale, DbFault
<1>9. QED
  BY <1>5, <1>6, <1>7, <1>8 DEF TaskStep

\* A coroutine that goes on keeps its backup once it has one; which position
\* follows which.
LEMMA TaskGoes ==
    ASSUME TypeOK, NEW w \in Workers, NEW s \in Schedules, TaskStep(w, s)
    PROVE  LET pc == tasks[w][s].pc
               nx == tasks'[w][s].pc
           IN \/ Fire(w, s) /\ pc = "idle" /\ UNCHANGED tasks
              \/ /\ tasks'[w][s] = Idle
                 /\ \/ InsertRow(w, s) /\ pc = "insert"
                    \/ LoadRow(w, s) /\ pc = "load"
                    \/ LoadServer(w, s) /\ pc = "server"
                    \/ Notify(w, s) /\ pc = "notify"
                    \/ Stale(w, s) /\ pc \in {"begin", "commit", "fail"}
                    \/ DbFault(w, s) /\ pc \in {"insert", "load", "server", "begin",
                                                "commit", "fail"}
              \/ Fire(w, s) /\ pc = "idle" /\ nx = "insert"
              \/ InsertRow(w, s) /\ pc = "insert" /\ nx = "load"
              \/ /\ tasks'[w][s].backup = tasks[w][s].backup
                 /\ \/ LoadRow(w, s) /\ pc = "load" /\ nx = "server"
                    \/ LoadServer(w, s) /\ pc = "server" /\ nx = "begin"
                    \/ Begin(w, s) /\ pc = "begin" /\ nx = "dump"
                    \/ Dump(w, s) /\ pc = "dump" /\ nx = "compress"
                    \/ DumpFails(w, s) /\ pc \in {"dump", "compress"} /\ nx = "fail"
                    \/ DumpHangs(w, s) /\ pc = "dump" /\ nx = "hung"
                    \/ /\ Compress(w, s) \/ Torn(w, s)
                       /\ pc = "compress" /\ nx \in {"encrypt", "fail"}
                    \/ /\ Encrypt(w, s) \/ Torn(w, s)
                       /\ pc = "encrypt" /\ nx \in {"size", "fail"}
                    \/ Size(w, s) /\ pc = "size" /\ nx \in {"commit", "fail"}
                    \/ FileFault(w, s) /\ pc \in {"compress", "encrypt"} /\ nx = "fail"
                    \/ Complete(w, s) /\ pc = "commit" /\ nx = "notify"
                    \/ Fail(w, s) /\ pc = "fail" /\ nx = "notify"
<1>1. tasks \in [Workers -> [Schedules -> Task]] /\ tasks[w][s] \in Task
  BY DEF TypeOK, TaskTypeOK
<1>2. ASSUME NEW pc \in Steps, Goto(w, s, pc)
      PROVE  tasks'[w][s].pc = pc /\ tasks'[w][s].backup = tasks[w][s].backup
  <2>1. tasks'[w][s] = [tasks[w][s] EXCEPT !.pc = pc]
    BY <1>1, <1>2, GotoTask
  <2>2. QED
    BY <1>1, <2>1 DEF Task
<1>3. ASSUME End(w, s)
      PROVE  tasks'[w][s] = Idle
  BY <1>1, <1>3, EndTask
<1>4. CASE Fire(w, s) \/ LoadRow(w, s) \/ Begin(w, s)
  BY <1>2, <1>3, <1>4 DEF Fire, Running, LoadRow, Begin, At, Steps
<1>5. CASE InsertRow(w, s)
  <2>1. ASSUME NEW b \in BackupIds,
               tasks' = [tasks EXCEPT ![w][s].pc = "load", ![w][s].backup = b]
        PROVE  tasks'[w][s].pc = "load"
    BY <1>1, <2>1 DEF Task
  <2>2. QED
    BY <1>3, <1>5, <2>1 DEF InsertRow, At
<1>6. CASE Dump(w, s)
  BY <1>1, <1>6 DEF Dump, At, Task
<1>11. CASE LoadServer(w, s)
  <2>1. ASSUME NEW n, tasks' = [tasks EXCEPT ![w][s].pc = "begin", ![w][s].name = n]
        PROVE  tasks'[w][s].pc = "begin" /\ tasks'[w][s].backup = tasks[w][s].backup
    BY <1>1, <2>1 DEF Task
  <2>2. QED
    BY <1>3, <1>11, <2>1 DEF LoadServer, At
<1>7. CASE \/ DumpFails(w, s) \/ DumpHangs(w, s) \/ Compress(w, s) \/ Encrypt(w, s)
           \/ Size(w, s) \/ Torn(w, s) \/ FileFault(w, s)
  BY <1>2, <1>7 DEF DumpFails, DumpHangs, Compress, Encrypt, Size, Torn, Onward,
     Raise, FileFault, Incomplete, At, Steps
<1>8. CASE Complete(w, s) \/ Fail(w, s)
  BY <1>2, <1>8 DEF Complete, Fail, At, Steps
<1>9. CASE Notify(w, s) \/ Stale(w, s) \/ DbFault(w, s)
  BY <1>3, <1>9 DEF Notify, Stale, DbFault, At
<1>10. QED
  BY <1>4, <1>5, <1>6, <1>7, <1>8, <1>9, <1>11 DEF TaskStep

\* What the steps that are no coroutine's do to the rows and the coroutines.
LEMMA RowsAndTasksElsewhere ==
    ASSUME TypeOK, [Next]_vars,
           ~ \E w \in Workers : BackupWork(w) \/ Crash(w)
    PROVE  /\ UNCHANGED taskVars
           /\ \A b \in BackupIds : \/ backups'[b] = backups[b]
                                  \/ /\ backups[b].status = "absent"
                                     /\ backups'[b].status = "pending"
                                     /\ backups'[b].path = None
                                  \/ backups'[b] = NoBackup("deleted")
<1> DEFINE Rows == \A b \in BackupIds :
                      \/ backups'[b] = backups[b]
                      \/ /\ backups[b].status = "absent"
                         /\ backups'[b].status = "pending"
                         /\ backups'[b].path = None
                      \/ backups'[b] = NoBackup("deleted")
<1>1. backups \in [BackupIds -> Backup]
  BY DEF TypeOK, StoreTypeOK
<1>2. CASE BackupApi
  <2>1. UNCHANGED taskVars
    BY <1>2 DEF BackupApi, CreateBackup, RunScheduledBackup, DeleteSelect,
       BatchSelect, DeleteStep, DeleteUnlink, DeleteCommit, RequestFault, taskVars
  <2>2. ASSUME UNCHANGED backups
        PROVE  Rows
    BY <2>2
  <2>3. ASSUME NEW b \in BackupIds, NEW v, NEW t, InsertBackup(b, v, t)
        PROVE  Rows
    BY <1>1, <2>3 DEF InsertBackup
  <2>4. ASSUME NEW B, EraseBackups(B)
        PROVE  Rows
    BY <2>4 DEF EraseBackups
  <2>5. Rows
    <3>1. CASE \/ \E b \in BackupIds, v \in Servers, t \in Types : CreateBackup(b, v, t)
               \/ \E b \in BackupIds, s \in Schedules : RunScheduledBackup(b, s)
      BY <2>3, <3>1 DEF CreateBackup, RunScheduledBackup
    <3>2. CASE \E h \in Handlers : DeleteCommit(h)
      BY <2>2, <2>4, <3>2 DEF DeleteCommit
    <3>3. QED
      BY <1>2, <2>2, <3>1, <3>2 DEF BackupApi, DeleteSelect, BatchSelect,
         DeleteStep, DeleteUnlink, RequestFault, storeVars, registry, holds
  <2>6. QED
    BY <2>1, <2>5
<1>3. CASE Operator \/ Clock \/ RestoreApi \/ UNCHANGED vars
  BY <1>3 DEF Operator, CreateSchedule, UpdateSchedule, DeleteSchedule, Edit,
     DeleteServer, RenameServer, Clock, Tick, RestoreApi, CreateSelect,
     CreationStep, CreateInsert, CreatePush, CreationFault, taskVars, storeVars,
     registry, holds, elsewhere, vars
<1>4. CASE \E u \in Workers : RestoreStep(u)
  BY <1>4 DEF RestoreStep, PopRestore, SelectBackup, SelectServer, BeginRestore,
     Decrypt, Decompress, DecompressFails, LRaise, Apply, ApplyHangs,
     CompleteRestore, NotifyRestore, FailRestore, RestoreDbFault, taskVars,
     storeVars, registry, holds, elsewhere
<1>5. QED
  BY <1>2, <1>3, <1>4 DEF Next

-----------------------------------------------------------------------------
(* Rows in progress and their coroutines. *)

LEMMA InProgressStep ==
    ASSUME IInv, InProgressHasTask, [Next]_vars
    PROVE  InProgressHasTask'
<1>1. /\ TypeOK /\ TypeOK' /\ TaskShape /\ RowFollowsTask
      /\ backups \in [BackupIds -> Backup]
      /\ tasks \in [Workers -> [Schedules -> Task]]
      /\ spent \in [Kinds -> Nat]
  BY NextInv DEF IInv, TypeOK, StoreTypeOK, TaskTypeOK
<1> SUFFICES ASSUME NeverSpent({"crash", "db"})', NEW b \in BackupIds,
                    backups'[b].status = "in_progress"
             PROVE  TaskAt(b, During)'
  BY DEF InProgressHasTask
<1>2. NeverSpent({"crash", "db"})
  BY <1>1, SpentGrows DEF NeverSpent, Kinds
<1>3. ASSUME backups[b].status = "in_progress", UNCHANGED tasks
      PROVE  TaskAt(b, During)'
  BY <1>2, <1>3 DEF InProgressHasTask, TaskAt
<1>4. ASSUME NEW w \in Workers, NEW s \in Schedules, TaskStep(w, s)
      PROVE  TaskAt(b, During)'
  <2> DEFINE t == tasks[w][s]
  <2>1. \A u \in Workers, r \in Schedules :
            u # w \/ r # s => tasks'[u][r] = tasks[u][r]
    BY <1>1, <1>4, TaskOthers
  <2>2. ASSUME t.backup = b, tasks'[w][s].backup = b, tasks'[w][s].pc \in During
        PROVE  TaskAt(b, During)'
    BY <2>2 DEF TaskAt
  <2>3. CASE t.backup = b /\ t.pc \in During /\ backups[b].status = "in_progress"
    <3>1. ~ Complete(w, s) /\ ~ Fail(w, s)
      BY <1>1, <2>3 DEF Complete, Fail, SetStatus, Backup
    <3>2. ~ Stale(w, s) /\ ~ Notify(w, s)
      BY <2>3 DEF Stale, Notify, At, During, Present, Live
    <3>3. ~ DbFault(w, s)
      BY <1>1, SpendGrows DEF DbFault, NeverSpent, Kinds
    <3>4. t.pc # "idle" /\ t.pc # "insert" /\ t.pc # "load" /\ t.pc # "server"
             /\ t.pc # "begin" /\ t.pc # "notify"
      BY <2>3 DEF During
    <3>5. /\ tasks'[w][s].pc \in {"compress", "encrypt", "size", "commit", "fail", "hung"}
          /\ tasks'[w][s].backup = b
      BY <1>1, <1>4, <2>3, <3>1, <3>2, <3>3, <3>4, TaskGoes
    <3>6. QED
      BY <2>2, <2>3, <3>5 DEF During
  <2>4. CASE backups[b].status # "in_progress"
    <3>1. Begin(w, s) /\ t.backup = b
      <4>1. ~ UNCHANGED backups
        BY <2>4
      <4>2. ASSUME NEW c, NEW st \in {"completed", "failed"},
                   SetStatus(c, st) \/ InsertBackup(c, ServerOf[s], TypeOf[s])
            PROVE  FALSE
        BY <1>1, <2>4, <4>2 DEF SetStatus, InsertBackup, Backup
      <4>3. ~ InsertRow(w, s) /\ ~ LoadServer(w, s) /\ ~ Fail(w, s)
        BY <4>1, <4>2 DEF InsertRow, LoadServer, Fail
      <4>4. ~ Complete(w, s)
        BY <1>1, <2>4 DEF Complete, Backup
      <4>5. Begin(w, s)
        BY <1>4, <4>1, <4>3, <4>4 DEF TaskStep, Fire, LoadRow, Dump, DumpFails,
           DumpHangs, Compress, Encrypt, Size, Torn, FileFault, Notify, Stale,
           DbFault, storeVars
      <4>6. QED
        BY <1>1, <2>4, <4>5 DEF Begin, SetStatus, Backup
    <3>2. tasks'[w][s].backup = b /\ tasks'[w][s].pc = "dump"
      <4>1. tasks'[w][s] = [tasks[w][s] EXCEPT !.pc = "dump"]
        BY <1>1, <3>1, GotoTask DEF Begin, Steps
      <4>2. tasks[w][s] \in Task
        BY <1>1
      <4>3. QED
        BY <3>1, <4>1, <4>2 DEF Task
    <3>3. QED
      BY <2>2, <3>1, <3>2 DEF During
  <2>5. CASE backups[b].status = "in_progress" /\ ~ (t.backup = b /\ t.pc \in During)
    <3>1. PICK u \in Workers, r \in Schedules :
             tasks[u][r].backup = b /\ tasks[u][r].pc \in During
      BY <1>2, <2>5 DEF InProgressHasTask, TaskAt
    <3>2. tasks'[u][r] = tasks[u][r]
      BY <2>1, <2>5, <3>1
    <3>3. QED
      BY <3>1, <3>2 DEF TaskAt
  <2>6. QED
    BY <2>3, <2>4, <2>5
<1>5. ASSUME NEW w \in Workers, Crash(w)
      PROVE  FALSE
  BY <1>1, <1>5, SpendGrows DEF Crash, NeverSpent, Kinds
<1>6. CASE ~ \E w \in Workers : BackupWork(w) \/ Crash(w)
  <2>1. UNCHANGED tasks /\ backups[b].status = "in_progress"
    BY <1>1, <1>6, RowsAndTasksElsewhere DEF NoBackup, taskVars
  <2>2. QED
    BY <1>3, <2>1
<1>7. QED
  BY <1>4, <1>5, <1>6 DEF BackupWork

\* Every error inside perform_backup ends in its except block: as long as no
\* worker dies and the database takes every statement, a row that says
\* IN_PROGRESS has a coroutine that will still write it.
THEOREM RowsInProgressHaveTasks == Spec => []InProgressHasTask
<1>1. Init => InProgressHasTask
  BY DEF Init, StoreInit, NoBackup, InProgressHasTask
<1>2. IInv /\ InProgressHasTask /\ [Next]_vars => InProgressHasTask'
  BY InProgressStep
<1>3. QED
  BY <1>1, <1>2, Invariance, PTL DEF Spec

-----------------------------------------------------------------------------
(* Gauges. *)

CountedAt == {"compress", "encrypt", "size", "commit", "fail", "notify", "hung"}

\* A deleted row never comes back.
LEMMA DeletedStays ==
    ASSUME IInv, [Next]_vars, NEW b \in BackupIds, backups[b].status = "deleted"
    PROVE  backups'[b].status = "deleted"
<1> DEFINE st == [d \in BackupIds |-> backups[d].status]
           nx == [d \in BackupIds |-> backups'[d].status]
<1>1. \/ UNCHANGED st
      \/ \E d \in BackupIds : BackupLife!Move(d)
      \/ \E D \in SUBSET BackupIds : BackupLife!Delete(D)
  BY BackupStep DEF BackupLife!Next
<1>2. st[b] = "deleted"
  OBVIOUS
<1>3. nx[b] = "deleted"
  <2>1. ASSUME NEW d \in BackupIds, BackupLife!Move(d)
        PROVE  nx[b] = st[b]
    <3>1. PICK e \in BackupLife!Edges : st[d] = e[1] /\ nx = [st EXCEPT ![d] = e[2]]
      BY <2>1 DEF BackupLife!Move
    <3>2. e[1] # "deleted"
      BY DEF BackupLife!Edges
    <3>3. QED
      BY <1>2, <3>1, <3>2
  <2>2. ASSUME NEW D \in SUBSET BackupIds, BackupLife!Delete(D)
        PROVE  nx[b] = "deleted"
    BY <1>2, <2>2 DEF BackupLife!Delete
  <2>3. QED
    BY <1>1, <1>2, <2>1, <2>2
<1>4. QED
  BY <1>3

\* The coroutines of a worker that count, after one of them has moved.
LEMMA CountedMoves ==
    ASSUME NEW w \in Workers, NEW s \in Schedules, IsFiniteSet(Counted(w)),
           \A r \in Schedules : r # s => tasks'[w][r] = tasks[w][r]
    PROVE  LET n == Cardinality(Counted(w))
               m == Cardinality(Counted(w)')
               was == tasks[w][s].pc \in CountedAt
               is  == tasks'[w][s].pc \in CountedAt
           IN /\ IsFiniteSet(Counted(w)')
              /\ n \in Nat
              /\ was /\ is => m = n
              /\ ~ was /\ ~ is => m = n
              /\ ~ was /\ is => m = n + 1
              /\ was /\ ~ is => m = n - 1
<1>1. CASE tasks'[w][s].pc \in CountedAt
  <2>1. Counted(w)' = Counted(w) \cup {s}
    BY <1>1 DEF Counted, CountedAt
  <2>2. s \in Counted(w) <=> tasks[w][s].pc \in CountedAt
    BY DEF Counted, CountedAt
  <2>3. QED
    BY <1>1, <2>1, <2>2, FS_AddElement, FS_CardinalityType
<1>2. CASE tasks'[w][s].pc \notin CountedAt
  <2>1. Counted(w)' = Counted(w) \ {s}
    BY <1>2 DEF Counted, CountedAt
  <2>2. s \in Counted(w) <=> tasks[w][s].pc \in CountedAt
    BY DEF Counted, CountedAt
  <2>3. QED
    BY <1>2, <2>1, <2>2, FS_RemoveElement, FS_CardinalityType
<1>3. QED
  BY <1>1, <1>2

\* What happens to the gauge of one worker is judged against the difference
\* it may show before and after.
BackupGauge(w) ==
    /\ activeBackups[w] >= Cardinality(Counted(w))
    /\ NeverSpent({"db"}) /\ (\A b \in BackupIds : backups[b].status # "deleted")
          => activeBackups[w] = Cardinality(Counted(w))

RestoreGauge(w) ==
    /\ activeRestores[w] >= (IF RCounted(w) THEN 1 ELSE 0)
    /\ NeverSpent({"db"}) => activeRestores[w] = (IF RCounted(w) THEN 1 ELSE 0)

LEMMA BackupGaugeStep ==
    ASSUME GaugeInv, [Next]_vars, NEW v \in Workers
    PROVE  IsFiniteSet(Counted(v)') /\ BackupGauge(v)'
<1>1. /\ IInv /\ TypeOK /\ RowFollowsTask /\ TaskShape
      /\ activeBackups \in [Workers -> Int]
      /\ tasks \in [Workers -> [Schedules -> Task]]
      /\ spent \in [Kinds -> Nat]
      /\ IsFiniteSet(Counted(v)) /\ BackupGauge(v)
      /\ Cardinality(Counted(v)) \in Nat
  BY FS_CardinalityType DEF GaugeInv, GaugesCountJobs, BackupGauge, IInv, TypeOK,
     StoreTypeOK, TaskTypeOK
<1>2. /\ NeverSpent({"db"})' => NeverSpent({"db"})
      /\ (\A b \in BackupIds : backups[b].status # "deleted")'
            => \A b \in BackupIds : backups[b].status # "deleted"
  BY <1>1, SpentGrows, DeletedStays DEF NeverSpent, Kinds
<1>3. ASSUME activeBackups'[v] = activeBackups[v],
             \A s \in Schedules : tasks'[v][s] = tasks[v][s]
      PROVE  IsFiniteSet(Counted(v)') /\ BackupGauge(v)'
  <2>1. Counted(v)' = Counted(v)
    BY <1>3 DEF Counted
  <2>2. QED
    BY <1>1, <1>2, <1>3, <2>1 DEF BackupGauge
<1>4. ASSUME NEW w \in Workers, NEW s \in Schedules, TaskStep(w, s)
      PROVE  IsFiniteSet(Counted(v)') /\ BackupGauge(v)'
  <2> DEFINE n == Cardinality(Counted(v))
             m == Cardinality(Counted(v)')
             g == activeBackups[v]
             h == activeBackups'[v]
             pc == tasks[w][s].pc
             nx == tasks'[w][s].pc
             Raised == /\ pc = "dump"
                       /\ Dump(w, s) \/ DumpFails(w, s) \/ DumpHangs(w, s)
  <2>1. \A u \in Workers, r \in Schedules :
            u # w \/ r # s => tasks'[u][r] = tasks[u][r]
    BY <1>1, <1>4, TaskOthers
  <2>2. /\ Raised => activeBackups' = [activeBackups EXCEPT ![w] = @ + 1]
        /\ Notify(w, s) => activeBackups' = [activeBackups EXCEPT ![w] = @ - 1]
        /\ ~ Raised /\ ~ Notify(w, s) => UNCHANGED activeBackups
    BY <1>4 DEF TaskStep, Fire, InsertRow, LoadRow, LoadServer, Begin, Dump,
       DumpFails, DumpHangs, Compress, Encrypt, Size, Torn, Onward, Raise,
       FileFault, Incomplete, Complete, Fail, Notify, Stale, DbFault, At
  <2>3. CASE w # v
    BY <1>1, <1>3, <2>1, <2>2, <2>3
  <2>4. CASE w = v
    <3>1. /\ IsFiniteSet(Counted(v)') /\ n \in Nat /\ g \in Int
          /\ pc \in CountedAt /\ nx \in CountedAt => m = n
          /\ pc \notin CountedAt /\ nx \notin CountedAt => m = n
          /\ pc \notin CountedAt /\ nx \in CountedAt => m = n + 1
          /\ pc \in CountedAt /\ nx \notin CountedAt => m = n - 1
      BY <1>1, <2>1, <2>4, CountedMoves
    <3>2. ASSUME m >= n - 1, m <= n, h = g, ~ (m = n),
                 \/ ~ NeverSpent({"db"})'
                 \/ ~ (\A b \in BackupIds : backups[b].status # "deleted")'
          PROVE  BackupGauge(v)'
      BY <1>1, <3>1, <3>2 DEF BackupGauge
    <3>3. ASSUME h - g = m - n, h \in Int, m \in Int
          PROVE  BackupGauge(v)'
      <4>1. g >= n /\ h >= m /\ (g = n => h = m)
        <5>1. g >= n
          BY <1>1 DEF BackupGauge
        <5>2. QED
          BY <3>1, <3>3, <5>1
      <4>2. QED
        BY <1>1, <1>2, <4>1 DEF BackupGauge
    <3>4. CASE Raised
      <4>1. pc = "dump" /\ nx \in {"compress", "fail", "hung"}
        BY <1>1, <1>4, <3>4, TaskGoes
      <4>2. m = n + 1 /\ h = g + 1
        BY <1>1, <2>2, <2>4, <3>1, <3>4, <4>1 DEF CountedAt
      <4>3. QED
        BY <3>1, <3>3, <4>2
    <3>5. CASE Notify(w, s)
      <4>1. pc = "notify" /\ nx = "idle" /\ ~ Raised
        BY <1>1, <3>5, EndTask DEF Notify, At, Idle
      <4>2. m = n - 1 /\ h = g - 1
        BY <1>1, <2>2, <2>4, <3>1, <3>5, <4>1 DEF CountedAt
      <4>3. QED
        BY <3>1, <3>3, <4>2
    \* Thrown out of the except block: the row is gone, or the database failed.
    <3>6. CASE (Stale(w, s) \/ DbFault(w, s)) /\ pc \in {"commit", "fail"}
      <4>1. nx = "idle" /\ ~ Raised /\ ~ Notify(w, s)
        <5>1. ~ Raised /\ ~ Notify(w, s)
          BY <3>6 DEF Notify, At
        <5>2. nx = "idle"
          BY <1>1, <3>6, EndTask DEF Stale, DbFault, Idle
        <5>3. QED
          BY <5>1, <5>2
      <4>2. m = n - 1 /\ h = g
        BY <2>2, <3>1, <3>6, <4>1 DEF CountedAt
      <4>3. CASE DbFault(w, s)
        <5>1. ~ NeverSpent({"db"})'
          BY <1>1, <4>3, SpendGrows DEF DbFault, NeverSpent, Kinds
        <5>2. QED
          BY <3>1, <3>2, <4>2, <5>1
      <4>4. CASE Stale(w, s)
        <5> DEFINE b == tasks[w][s].backup
        <5>1. b \in BackupIds /\ b # None
          <6>1. tasks[w][s] \in Task
            BY <1>1
          <6>2. QED
            BY <1>1, <3>6, <6>1 DEF Task, TaskShape
        <5>2. backups[b].status = "deleted"
          <6>1. RowAt(pc) = {"in_progress"}
            BY <3>6 DEF RowAt, Before, During
          <6>2. QED
            BY <1>1, <4>4, <5>1, <6>1 DEF RowFollowsTask, Stale, Present, Live
        <5>3. ~ (\A c \in BackupIds : backups[c].status # "deleted")'
          BY <1>1, <5>1, <5>2, DeletedStays
        <5>4. QED
          BY <3>1, <3>2, <4>2, <5>3
      <4>5. QED
        BY <3>6, <4>3, <4>4
    \* The other steps stay on one side of the gauge's lines.
    <3>7. CASE /\ ~ Raised /\ ~ Notify(w, s)
               /\ ~ ((Stale(w, s) \/ DbFault(w, s)) /\ pc \in {"commit", "fail"})
      <4>1. pc \in CountedAt <=> nx \in CountedAt
        BY <1>1, <1>4, <3>7, TaskGoes DEF CountedAt, Idle
      <4>2. m = n /\ h = g
        BY <2>2, <3>1, <3>7, <4>1
      <4>3. QED
        BY <3>1, <3>3, <4>2
    <3>8. QED
      BY <3>1, <3>4, <3>5, <3>6, <3>7
  <2>5. QED
    BY <2>3, <2>4
<1>5. ASSUME NEW w \in Workers, Crash(w)
      PROVE  IsFiniteSet(Counted(v)') /\ BackupGauge(v)'
  <2>1. CASE w = v
    <3>1. activeBackups'[v] = 0 /\ \A s \in Schedules : tasks'[v][s] = Idle
      BY <1>1, <1>5, <2>1 DEF Crash
    <3>2. Counted(v)' = {}
      BY <3>1 DEF Counted, Idle
    <3>3. QED
      BY <3>1, <3>2, FS_EmptySet DEF BackupGauge
  <2>2. CASE w # v
    BY <1>1, <1>3, <1>5, <2>2 DEF Crash
  <2>3. QED
    BY <2>1, <2>2
<1>6. CASE ~ \E w \in Workers : BackupWork(w) \/ Crash(w)
  BY <1>1, <1>3, <1>6, RowsAndTasksElsewhere DEF taskVars
<1>7. QED
  BY <1>4, <1>5, <1>6 DEF BackupWork

LEMMA RestoreGaugeStep ==
    ASSUME GaugeInv, [Next]_vars, NEW v \in Workers
    PROVE  RestoreGauge(v)'
<1>1. /\ IInv /\ TypeOK
      /\ activeRestores \in [Workers -> Int]
      /\ loops \in [Workers -> Loop]
      /\ spent \in [Kinds -> Nat]
      /\ RestoreGauge(v)
  BY DEF GaugeInv, GaugesCountJobs, RestoreGauge, IInv, TypeOK, StoreTypeOK,
     RestoreTypeOK
<1>2. NeverSpent({"db"})' => NeverSpent({"db"})
  BY <1>1, SpentGrows DEF NeverSpent, Kinds
<1>3. ASSUME activeRestores'[v] = activeRestores[v], RCounted(v)' = RCounted(v)
      PROVE  RestoreGauge(v)'
  BY <1>1, <1>2, <1>3 DEF RestoreGauge
<1>4. ASSUME NEW w \in Workers, RestoreStep(w)
      PROVE  RestoreGauge(v)'
  <2> DEFINE pc == loops[w].pc
             nx == loops'[w].pc
  <2>1. ASSUME NEW p \in RestoreSteps, LGoto(w, p)
        PROVE  nx = p
    <3>1. loops'[w] = [loops[w] EXCEPT !.pc = p]
      BY <1>1, <2>1, GotoLoop
    <3>2. loops[w] \in Loop
      BY <1>1
    <3>3. QED
      BY <3>1, <3>2 DEF Loop
  <2>2. ASSUME LEnd(w)
        PROVE  nx = "idle"
    BY <1>1, <2>2, EndLoop DEF NoLoop
  <2>3. CASE w # v
    <3>1. loops'[v] = loops[v] /\ activeRestores'[v] = activeRestores[v]
      BY <1>1, <1>4, <2>3 DEF RestoreStep, PopRestore, SelectBackup, SelectServer,
         BeginRestore, Decrypt, Decompress, DecompressFails, LRaise, Apply,
         ApplyHangs, CompleteRestore, NotifyRestore, FailRestore, RestoreDbFault,
         LGoto, LEnd
    <3>2. QED
      BY <1>3, <3>1 DEF RCounted
  <2>4. CASE w = v /\ Decrypt(w)
    <3>1. pc = "decrypt" /\ nx \in {"decompress", "fail"}
             /\ activeRestores' = [activeRestores EXCEPT ![w] = @ + 1]
      BY <2>1, <2>4 DEF Decrypt, LAt, RestoreSteps
    <3>2. ~ RCounted(v) /\ RCounted(v)'
      BY <2>4, <3>1 DEF RCounted
    <3>3. activeRestores'[v] = activeRestores[v] + 1 /\ activeRestores[v] \in Int
      BY <1>1, <2>4, <3>1
    <3>4. activeRestores[v] >= 0 /\ (NeverSpent({"db"}) => activeRestores[v] = 0)
      BY <1>1, <3>2 DEF RestoreGauge
    <3>5. QED
      BY <1>2, <3>2, <3>3, <3>4 DEF RestoreGauge
  <2>5. CASE w = v /\ (NotifyRestore(w) \/ FailRestore(w))
    <3>1. pc \in {"notify", "fail"} /\ nx = "idle"
             /\ activeRestores' = [activeRestores EXCEPT ![w] = @ - 1]
      BY <2>2, <2>5 DEF NotifyRestore, FailRestore, LAt
    <3>2. RCounted(v) /\ ~ RCounted(v)'
      BY <2>5, <3>1 DEF RCounted
    <3>3. activeRestores'[v] = activeRestores[v] - 1 /\ activeRestores[v] \in Int
      BY <1>1, <2>5, <3>1
    <3>4. activeRestores[v] >= 1 /\ (NeverSpent({"db"}) => activeRestores[v] = 1)
      BY <1>1, <3>2 DEF RestoreGauge
    <3>5. QED
      BY <1>2, <3>2, <3>3, <3>4 DEF RestoreGauge
  <2>6. CASE w = v /\ RestoreDbFault(w)
    <3>1. nx = "idle" /\ UNCHANGED activeRestores
      BY <2>2, <2>6 DEF RestoreDbFault
    <3>2. ~ RCounted(v)'
      BY <2>6, <3>1 DEF RCounted
    <3>3. ~ NeverSpent({"db"})'
      BY <1>1, <2>6, SpendGrows DEF RestoreDbFault, NeverSpent, Kinds
    <3>4. activeRestores[v] >= 0
      <4>1. activeRestores[v] \in Int
        BY <1>1
      <4>2. QED
        BY <1>1, <4>1 DEF RestoreGauge
    <3>5. QED
      BY <3>1, <3>2, <3>3, <3>4 DEF RestoreGauge
  <2>7. CASE w = v /\ \/ PopRestore(w) \/ SelectBackup(w) \/ SelectServer(w)
                      \/ BeginRestore(w)
    <3>1. pc \in {"idle", "backup", "server", "begin"}
             /\ nx \in {"idle", "backup", "server", "begin", "decrypt"}
             /\ UNCHANGED activeRestores
      <4>1. CASE PopRestore(w)
        BY <1>1, <4>1 DEF PopRestore, LAt
      <4>2. CASE SelectBackup(w)
        <5>1. pc = "backup" /\ UNCHANGED activeRestores
          BY <4>2 DEF SelectBackup, LAt
        <5>2. ASSUME NEW p, loops' = [loops EXCEPT ![w].pc = "server", ![w].path = p]
              PROVE  nx = "server"
          <6>1. loops[w] \in Loop
            BY <1>1
          <6>2. QED
            BY <1>1, <5>2, <6>1 DEF Loop
        <5>3. QED
          BY <2>2, <4>2, <5>1, <5>2 DEF SelectBackup
      <4>3. CASE SelectServer(w) \/ BeginRestore(w)
        BY <2>1, <2>2, <4>3 DEF SelectServer, BeginRestore, LAt, RestoreSteps
      <4>4. QED
        BY <2>7, <4>1, <4>2, <4>3
    <3>2. QED
      BY <1>3, <2>7, <3>1 DEF RCounted
  <2>8. CASE w = v /\ \/ Decompress(w) \/ DecompressFails(w) \/ Apply(w)
                      \/ ApplyHangs(w) \/ CompleteRestore(w)
    <3>1. pc \in {"decompress", "apply", "commit"}
             /\ nx \in {"apply", "commit", "fail", "notify", "hung"}
             /\ UNCHANGED activeRestores
      BY <2>1, <2>8 DEF Decompress, DecompressFails, LRaise, Apply, ApplyHangs,
         CompleteRestore, LAt, RestoreSteps
    <3>2. QED
      BY <1>3, <2>8, <3>1 DEF RCounted
  <2>9. QED
    BY <1>4, <2>3, <2>4, <2>5, <2>6, <2>7, <2>8 DEF RestoreStep
<1>5. ASSUME NEW w \in Workers, Crash(w)
      PROVE  RestoreGauge(v)'
  <2>1. CASE w = v
    <3>1. activeRestores'[v] = 0 /\ ~ RCounted(v)'
      BY <1>1, <1>5, <2>1 DEF Crash, RCounted, NoLoop
    <3>2. QED
      BY <3>1 DEF RestoreGauge
  <2>2. CASE w # v
    BY <1>1, <1>3, <1>5, <2>2 DEF Crash, RCounted
  <2>3. QED
    BY <2>1, <2>2
<1>6. CASE ~ \E w \in Workers : RestoreStep(w) \/ Crash(w)
  <2>1. UNCHANGED <<loops, activeRestores>>
    <3>1. ASSUME NEW w \in Workers, BackupWork(w)
          PROVE  UNCHANGED <<loops, activeRestores>>
      BY <3>1 DEF BackupWork, restoreVars
    <3>2. QED
      BY <1>6, <3>1 DEF Next, Operator, Clock, BackupApi, RestoreApi, CreateSelect,
         CreationStep, CreateInsert, CreatePush, CreationFault, restoreVars, vars
  <2>2. QED
    BY <1>3, <2>1 DEF RCounted
<1>7. QED
  BY <1>4, <1>5, <1>6

\* The gauges never fall below the number of jobs that run, whatever crashes
\* and whatever is deleted; they are exact as long as no coroutine was thrown
\* out of its except block, by a deleted row or a database error.
THEOREM GaugesCount == Spec => []GaugesCountJobs
<1>1. Init => GaugeInv
  <2> SUFFICES ASSUME Init PROVE GaugeInv
    OBVIOUS
  <2>1. \A w \in Workers : /\ activeBackups[w] = 0 /\ activeRestores[w] = 0
                           /\ Counted(w) = {} /\ ~ RCounted(w)
    BY DEF Init, TaskInit, RestoreInit, Counted, RCounted, Idle, NoLoop
  <2>2. QED
    BY <2>1, InitInv, FS_EmptySet DEF GaugeInv, GaugesCountJobs
<1>2. GaugeInv /\ [Next]_vars => GaugeInv'
  <2> SUFFICES ASSUME GaugeInv, [Next]_vars PROVE GaugeInv'
    OBVIOUS
  <2>1. IInv'
    BY NextInv DEF GaugeInv
  <2>2. \A w \in Workers : /\ IsFiniteSet(Counted(w))'
                           /\ BackupGauge(w)' /\ RestoreGauge(w)'
    BY BackupGaugeStep, RestoreGaugeStep
  <2>3. QED
    BY <2>1, <2>2 DEF GaugeInv, GaugesCountJobs, BackupGauge, RestoreGauge
<1>3. GaugeInv => GaugesCountJobs
  BY DEF GaugeInv
<1>4. QED
  BY <1>1, <1>2, <1>3, PTL DEF Spec
=============================================================================
