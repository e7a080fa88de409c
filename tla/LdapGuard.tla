------------------------------ MODULE LdapGuard ------------------------------
(* The whole system: API requests, cron jobs and queue loops step in any    *)
(* order over the shared store, the clock ticks, and workers crash.         *)
EXTENDS RestoreJobs

vars == <<storeVars, schedulingVars, taskVars, requests, halfDeleted, restoreVars>>

TypeOK == /\ StoreTypeOK
          /\ SchedulingTypeOK
          /\ TaskTypeOK
          /\ RoutesTypeOK
          /\ RestoreTypeOK

Init == /\ StoreInit
        /\ SchedulingInit
        /\ TaskInit
        /\ RoutesInit
        /\ RestoreInit

-----------------------------------------------------------------------------
\* The operator edits schedules and servers.
Operator ==
    /\ \/ \E s \in Schedules : CreateSchedule(s) \/ UpdateSchedule(s)
                                                 \/ DeleteSchedule(s)
       \/ \E v \in Servers : DeleteServer(v)
       \/ \E v \in Servers, n \in Names : RenameServer(v, n)
    /\ UNCHANGED <<taskVars, requests, halfDeleted, restoreVars>>

Clock == Tick /\ UNCHANGED <<requests, halfDeleted, restoreVars>>

BackupWork(w) == /\ \E s \in Schedules : TaskStep(w, s)
                 /\ UNCHANGED <<requests, halfDeleted, restoreVars>>

BackupApi ==
    /\ \/ \E b \in BackupIds, v \in Servers, t \in Types : CreateBackup(b, v, t)
       \/ \E b \in BackupIds, s \in Schedules : RunScheduledBackup(b, s)
       \/ \E h \in Handlers, b \in BackupIds : DeleteSelect(h, b)
       \/ \E h \in Handlers, B \in SUBSET BackupIds : BatchSelect(h, B)
       \/ \E h \in Handlers : DeleteStep(h)
    /\ UNCHANGED restoreVars

RestoreApi ==
    \/ \E h \in Handlers, b \in BackupIds : CreateSelect(h, b)
    \/ \E h \in Handlers : CreationStep(h)

\* A worker process dies, its coroutines and gauges with it, perhaps in the
\* middle of a file; it is started again, reads the schedules and polls the
\* queue.
Crash(w) ==
    /\ Spend("crash")
    /\ (\E s \in Schedules : Incomplete(w, s)) \/ UNCHANGED disk
    /\ tasks' = [tasks EXCEPT ![w] = [s \in Schedules |-> Idle]]
    /\ loops' = [loops EXCEPT ![w] = NoLoop]
    /\ Release(w)
    /\ activeBackups' = [activeBackups EXCEPT ![w] = 0]
    /\ activeRestores' = [activeRestores EXCEPT ![w] = 0]
    /\ Load(w)
    /\ UNCHANGED <<registry, backups, restores, now, dumps, schedules,
                   requests, halfDeleted, creations, queue, applied>>

Next == \/ Operator
        \/ Clock
        \/ BackupApi
        \/ RestoreApi
        \/ \E w \in Workers : BackupWork(w) \/ RestoreStep(w) \/ Crash(w)

Spec == Init /\ [][Next]_vars

\* A coroutine of worker w waits for an LDAP server that does not answer.
Hung(w) == loops[w].pc = "hung" \/ \E s \in Schedules : tasks[w][s].pc = "hung"

\* The event loop of a live process resumes each of its coroutines unless one
\* of them waits for an LDAP server: the webhook client has a timeout, and
\* PostgreSQL, Redis and the file system answer or fail.  Nothing is assumed of
\* the API processes, nor of how often an LDAP server hangs.
FairSpec ==
    /\ Spec
    /\ \A w \in Workers : WF_vars(RestoreStep(w) /\ ~ Hung(w))
    /\ \A w \in Workers, s \in Schedules :
          WF_vars(/\ TaskStep(w, s) /\ ~ Hung(w)
                  /\ UNCHANGED <<requests, halfDeleted, restoreVars>>)

-----------------------------------------------------------------------------
(* Abbreviations the properties share. *)

NeverSpent(K) == \A k \in K : spent[k] = 0

\* The coroutines of worker w that work on backup b and stand at one of P.
TaskAt(b, P) == \E w \in Workers, s \in Schedules :
                    tasks[w][s].backup = b /\ tasks[w][s].pc \in P
LoopAt(r, P) == \E w \in Workers : loops[w].job = r /\ loops[w].pc \in P

Before == {"load", "server", "begin"}
During == {"dump", "compress", "encrypt", "size", "commit", "fail", "hung"}

\* The status a coroutine at pc has given its row.
RowAt(pc) == CASE pc \in Before -> {"pending"}
               [] pc \in During -> {"in_progress"}
               [] OTHER         -> {"completed", "failed"}

\* Coroutines that raised the gauge and have not lowered it.
Counted(w)  == {s \in Schedules : tasks[w][s].pc \in
                    {"compress", "encrypt", "size", "commit", "fail", "notify", "hung"}}
RCounted(w) == loops[w].pc \in
                    {"decompress", "apply", "commit", "fail", "notify", "hung"}

\* Job s may name its files by stem p in that second: its server bears, or bore,
\* that name.
MayName(s, p) == ServerOf[s] \in holders[p.name] /\ TypeOf[s] = p.type

NameChangedHands == \E n \in Names : \E u, v \in holders[n] : u # v

\* The backups whose dumps were written to the files of stem p: one, or more
\* when jobs met in the second that names the files.
Dumped(p) == {b \in BackupIds : dumps[b].path = p}

-----------------------------------------------------------------------------
(* Safety *)

\* perform_backup is the only writer of its row: no two coroutines carry the
\* same backup, and the row's status is the one the coroutine's position
\* implies, or the row has been deleted under it.
RowFollowsTask ==
    /\ \A w \in Workers, s \in Schedules :
          LET b == tasks[w][s].backup IN
          b # None => backups[b].status \in {"deleted"} \cup RowAt(tasks[w][s].pc)
    /\ \A u, w \in Workers, s, t \in Schedules :
          /\ tasks[u][s].backup = tasks[w][t].backup
          /\ tasks[u][s].backup # None
          => u = w /\ s = t

\* Every error inside perform_backup ends in its except block: without a
\* worker crash or a database error, a row that says IN_PROGRESS has a
\* coroutine that will change it.
InProgressHasTask ==
    NeverSpent({"crash", "db"}) =>
        \A b \in BackupIds :
            backups[b].status = "in_progress" => TaskAt(b, During)

\* The archive of stem p holds a dump that went there, or a delete_backup of
\* one removed it: its delete is still to commit, took the row, or left it, as
\* it was cut off or refused because a restore job refers to the row.
ArchiveKept(p) ==
    \E c \in Dumped(p) :
        \/ disk[p]["enc"] = c
        \/ \E h \in Handlers : /\ requests[h].pc = "erase" /\ c \in requests[h].ids
                               /\ requests[h].path = p
        \/ backups[c].status = "deleted"
        \/ p \in halfDeleted /\ (Referenced(c) \/ spent["api"] > 0)

\* A COMPLETED row names an archive that is there, unless a delete removed it:
\* its own, or that of another backup whose dump went to the same files.
CompletedHasFile ==
    \A b \in BackupIds :
        backups[b].status = "completed" => ArchiveKept(backups[b].path)

\* A row that a crash or a database error left without its coroutine.
Abandoned(b) == backups[b].status = "in_progress" /\ ~ TaskAt(b, During)

\* Backup c accounts for the archive of stem p: its row is COMPLETED and names
\* it or will be so in two steps, failed with the disk or because two workers
\* met in the files, was abandoned between the archive and the commit, or was
\* deleted.
Account(c, p) ==
    \/ backups[c].status = "completed" /\ backups[c].path = p
    \/ TaskAt(c, {"size", "commit"})
    \/ /\ spent["disk"] > 0 \/ p \in met
       /\ TaskAt(c, {"fail"}) \/ backups[c].status = "failed"
    \/ Abandoned(c)
    \/ backups[c].status = "deleted"

\* An archive on the volume has an account: the backup in the archive, or, where
\* two workers met and may have encrypted each other's files, one whose dump
\* went there.
ArchiveHasRow ==
    \A p \in Stems, b \in BackupIds : disk[p]["enc"] = b =>
        \E c \in Dumped(p) : (c = b \/ p \in met) /\ Account(c, p)

\* A restore of backup c has begun.
RestoreBegun(c) == \E r \in RestoreIds :
    restores[r].backup = c /\ restores[r].status \in Live \ {"pending"}

\* What is left in the clear was written by a backup at work, by one that
\* failed, was abandoned or was deleted, or by a restore from these files, which
\* never removes its copies - unless two workers met in the files.
PlainFileHasCause ==
    \A p \in Stems \ met, b \in BackupIds :
        b \in {disk[p]["ldif"], disk[p]["gz"]} =>
            \/ TaskAt(b, {"compress", "encrypt", "fail"})
            \/ backups[b].status \in {"failed", "deleted"}
            \/ Abandoned(b)
            \/ \E c \in Dumped(p) : RestoreBegun(c)

\* Two dumps are written to one stem only by two jobs - two schedules, or one
\* schedule on two workers - of the same type, whose servers bear or bore its
\* name: dumps of two servers meet only when a name changed hands, and a job
\* does not start twice in a second, and not again while it runs.
ClashNeedsTwoJobs ==
    \A b, c \in BackupIds :
        LET p == dumps[b].path IN
        b # c /\ p # None /\ dumps[c].path = p =>
            /\ dumps[b].by # dumps[c].by
            /\ MayName(dumps[b].by[2], p) /\ MayName(dumps[c].by[2], p)

\* The gauges never count fewer jobs than run, and count exactly those as long
\* as no coroutine was thrown out of its except block, which takes a deleted
\* backup row or a database error.  Restore rows are never deleted.
GaugesCountJobs ==
    \A w \in Workers :
        /\ activeBackups[w] >= Cardinality(Counted(w))
        /\ NeverSpent({"db"}) /\ (\A b \in BackupIds : backups[b].status # "deleted")
              => activeBackups[w] = Cardinality(Counted(w))
        /\ activeRestores[w] >= (IF RCounted(w) THEN 1 ELSE 0)
        /\ NeverSpent({"db"}) => activeRestores[w] = (IF RCounted(w) THEN 1 ELSE 0)

\* The check in create_restore_job is not repeated by the worker, and need not
\* be: the backup and the server a restore job names stay, and the backup
\* stays COMPLETED with a path, whatever is deleted or run meanwhile.
RestoreRefsComplete ==
    \A r \in RestoreIds : restores[r].status \in Live =>
        /\ backups[restores[r].backup].status = "completed"
        /\ backups[restores[r].backup].path # None
        /\ restores[r].server \in servers

\* A restore job reaches its LDAP server at most once, whatever crashes and
\* however many workers poll; exactly once if it says COMPLETED, and never
\* before it says IN_PROGRESS.
AppliedOnce ==
    \A r \in RestoreIds :
        /\ applied[r].times <= 1
        /\ restores[r].status = "completed" => applied[r].times = 1
        /\ restores[r].status \in {"absent", "pending"} => applied[r].times = 0

\* What a restore wrote is the dump of the backup the job names or, where other
\* dumps went to the same files, one of those, and a mixture of them where two
\* workers met: of the servers that bear or bore that name (ClashNeedsTwoJobs),
\* so of the backup's own server as long as no name changes hands.
RestoredContent ==
    \A r \in RestoreIds : applied[r].times > 0 =>
        LET b == restores[r].backup
            p == backups[b].path
            c == applied[r].content
        IN /\ b \in Dumped(p) /\ c \in Dumped(p)
           /\ ~ NameChangedHands => ServerOf[dumps[c].by[2]] = backups[b].server

\* The PENDING jobs that no one will run: their id is neither in the list nor
\* in the hands of the request or of a worker.
HasHolder(r) == \/ \E i \in DOMAIN queue : queue[i] = r
                \/ \E h \in Handlers : creations[h].job = r
                \/ LoopAt(r, {"backup", "server", "begin"})
Lost == {r \in RestoreIds : restores[r].status = "pending" /\ ~ HasHolder(r)}

\* A job id is in the Redis list at most once and only while the job is
\* PENDING and nobody works on it; and of the PENDING jobs no more are lost
\* than Redis, the API, a worker or the database failed.
PendingJobHeld ==
    /\ \A i, j \in DOMAIN queue : queue[i] = queue[j] => i = j
    /\ \A i \in DOMAIN queue : /\ restores[queue[i]].status = "pending"
                              /\ ~ LoopAt(queue[i], RestoreSteps)
    /\ Cardinality(Lost)
          <= spent["redis"] + spent["api"] + spent["crash"] + spent["db"]

\* Foreign keys against stale reads: a backup row that exists has its server,
\* although execute_scheduled_backup inserts long after it read the schedule.
BackupHasServer ==
    \A b \in BackupIds : Present(b) => backups[b].server \in servers

-----------------------------------------------------------------------------
(* The inductive invariant: what the safety theorems rest on.               *)

\* A coroutine carries a backup from its INSERT on, and a file from its dump.
TaskShape ==
    \A w \in Workers, s \in Schedules :
        /\ tasks[w][s].backup = None <=> tasks[w][s].pc \in {"idle", "insert"}
        /\ tasks[w][s].pc \in {"begin", "dump"} => tasks[w][s].name # None
        /\ tasks[w][s].pc \in {"compress", "encrypt", "size", "commit"}
              => tasks[w][s].path # None

\* An id outside the table is that of a row that was inserted: in the hands of
\* a request, in the list, with a queue loop.  A loop keeps the path of a file
\* it found.
Inserted(r) == r # None /\ restores[r].status \in Live

RestoreShape ==
    /\ \A r \in RestoreIds :
          restores[r].status \in Live => restores[r].backup # None
    /\ \A h \in Handlers :
          /\ creations[h].pc = "insert" => creations[h].backup # None
          /\ creations[h].pc = "push" => Inserted(creations[h].job)
    /\ \A i \in DOMAIN queue : Inserted(queue[i])
    /\ \A w \in Workers :
          /\ loops[w].pc # "idle" => Inserted(loops[w].job)
          /\ loops[w].pc \in {"decompress", "apply"} => loops[w].path # None

\* A coroutine's row was inserted for the server of its schedule.
TaskServer ==
    \A w \in Workers, s \in Schedules :
        LET b == tasks[w][s].backup IN
        b # None /\ Present(b) => backups[b].server = ServerOf[s]

CompletedHasPath ==
    \A b \in BackupIds : backups[b].status = "completed" => backups[b].path # None

\* The backup a request found COMPLETED can since only have been deleted.
CreationChecked ==
    \A h \in Handlers : creations[h].pc = "insert" =>
        backups[creations[h].backup].status \in {"completed", "deleted"}

IInv == /\ TypeOK
        /\ TaskShape
        /\ RestoreShape
        /\ RowFollowsTask
        /\ TaskServer
        /\ CompletedHasPath
        /\ CreationChecked
        /\ BackupHasServer
        /\ RestoreRefsComplete

-----------------------------------------------------------------------------
(* The rows live the life JobLifecycle promises. *)

BackupLife  == INSTANCE JobLifecycle WITH
                   Jobs <- BackupIds,
                   status <- [b \in BackupIds |-> backups[b].status]
RestoreLife == INSTANCE JobLifecycle WITH
                   Jobs <- RestoreIds,
                   status <- [r \in RestoreIds |-> restores[r].status]

\* A backup row is taken once, never leaves a final status, never returns
\* after it was deleted, and never fails without having been in progress.
BackupLifecycle == BackupLife!Spec

\* The same of a restore job.
RestoreLifecycle == RestoreLife!Spec

-----------------------------------------------------------------------------
(* Liveness, under FairSpec *)

\* A backup that was started ends, or its row is deleted, or an LDAP server does
\* not answer a coroutine of its worker.
BackupSettles ==
    \A b \in BackupIds : backups[b].status = "in_progress"
        ~> \/ backups[b].status # "in_progress"
           \/ \E w \in Workers, s \in Schedules : tasks[w][s].backup = b /\ Hung(w)

\* A restore job that was pushed ends, unless an LDAP server does not answer a
\* coroutine of the worker that has it or, before one took it, of any worker.
RestoreSettles ==
    \A r \in RestoreIds : (\E i \in DOMAIN queue : queue[i] = r)
        ~> \/ restores[r].status \in {"completed", "failed"}
           \/ \E w \in Workers : loops[w].job = r /\ Hung(w)
           \/ \A w \in Workers : Hung(w)

-----------------------------------------------------------------------------
(* What comments and documents say and the code does not do *)

\* backup_service.py:79 "Generate a unique backup filename."
UniqueFilename ==
    \A b, c \in BackupIds :
        backups[b].path = backups[c].path /\ backups[b].path # None => b = c

\* CHANGELOG.md:16 "Implemented backup file deletion from disk": once a backup
\* is deleted and no coroutine works on it, its archive is gone.
DeletedHasNoFile ==
    \A p \in Stems, b \in BackupIds :
        disk[p]["enc"] = b /\ backups[b].status = "deleted" => TaskAt(b, Steps)

\* backups.py:108 "Schedule backup task in background": a backup job that was
\* created does not stay PENDING.
CreatedBackupRuns ==
    \A b \in BackupIds :
        backups[b].status = "pending" ~> backups[b].status # "pending"
=============================================================================
