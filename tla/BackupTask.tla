----------------------------- MODULE BackupTask -----------------------------
(* The coroutine a cron job runs in a worker: execute_scheduled_backup and  *)
(* the perform_backup it awaits.  It is cut at its awaits, and inside the   *)
(* synchronous stretch at each file it writes.                              *)
(*                                                                          *)
(*   insert   about to INSERT the PENDING row                               *)
(*   load     about to SELECT that row                                      *)
(*   server   about to SELECT its server                                    *)
(*   begin    about to commit IN_PROGRESS                                   *)
(*   dump     awaiting the "started" webhook                                *)
(*   compress, encrypt, size   inside the synchronous stretch               *)
(*   hung     inside it, waiting for an LDAP server that does not answer    *)
(*   commit   about to commit COMPLETED                                     *)
(*   fail     in the except block, about to commit FAILED                   *)
(*   notify   awaiting the "completed" or "failed" webhook                  *)
(*                                                                          *)
(* A statement that was sent before another coroutine took the event loop   *)
(* reaches the database while the loop is held, so only the steps that      *)
(* start file or LDAP work ask whether it is.                               *)
(*                                                                          *)
(* Nothing locks a file.  Each file step is one action, taken when the dump *)
(* starts and when compression and encryption have written their output;    *)
(* that is what it amounts to while no other worker works on the same stem. *)
(* Where two have met, Torn leaves any of the outcomes their reads, writes  *)
(* and removals can have in between each other.                             *)
EXTENDS Scheduling

VARIABLES
    tasks,         \* per worker and schedule, the coroutine
    activeBackups, \* per worker process, the gauge ldapguard_active_backups
    dumps          \* history, read by no action: the file each backup's dump
                   \* wrote, and the worker and job that ran it

taskVars == <<tasks, activeBackups, dumps>>

Steps == {"idle", "insert", "load", "server", "begin", "dump", "compress",
          "encrypt", "size", "commit", "fail", "notify", "hung"}
Task  == [pc : Steps, backup : BackupIds \cup {None}, name : Names \cup {None},
          path : Stems \cup {None}]
Idle  == [pc |-> "idle", backup |-> None, name |-> None, path |-> None]

DumpNote == [path : Stems \cup {None}, by : (Workers \X Schedules) \cup {None}]
NoDump   == [path |-> None, by |-> None]

TaskTypeOK ==
    /\ tasks \in [Workers -> [Schedules -> Task]]
    /\ activeBackups \in [Workers -> Int]
    /\ dumps \in [BackupIds -> DumpNote]

TaskInit ==
    /\ tasks = [w \in Workers |-> [s \in Schedules |-> Idle]]
    /\ activeBackups = [w \in Workers |-> 0]
    /\ dumps = [b \in BackupIds |-> NoDump]

Running(w, s) == tasks[w][s].pc # "idle"

At(w, s, pc)   == tasks[w][s].pc = pc
Goto(w, s, pc) == tasks' = [tasks EXCEPT ![w][s].pc = pc]
End(w, s)      == tasks' = [tasks EXCEPT ![w][s] = Idle]

\* A second passes.  The triggers of the schedules in C fire, on every worker
\* that registered them.  A job whose previous run has not ended is skipped
\* (max_instances = 1); one that was due and has not started is dropped.
Tick ==
    /\ now < MaxSecond
    /\ now' = now + 1
    /\ \E C \in SUBSET Schedules :
          due' = [w \in Workers |-> {s \in C \cap registered[w] : ~ Running(w, s)}]
    /\ UNCHANGED <<registry, backups, restores, disk, holds, spent,
                   schedules, registered, taskVars>>

\* The cron job starts and reads its schedule.
Fire(w, s) ==
    /\ s \in due[w]
    /\ ~ Running(w, s)
    /\ due' = [due EXCEPT ![w] = @ \ {s}]
    /\ \/ schedules[s] = "active" /\ Goto(w, s, "insert")
       \/ schedules[s] # "active" /\ UNCHANGED tasks
    /\ UNCHANGED <<storeVars, schedules, registered, activeBackups, dumps>>

\* Slip: a PENDING row that waits for the server is taken instead of a new one.
InsertRowSlip(w, s) ==
    /\ At(w, s, "insert")
    /\ \E b \in BackupIds :
          /\ \/ InsertBackup(b, ServerOf[s], TypeOf[s])
             \/ /\ backups[b].status = "pending"
                /\ backups[b].server = ServerOf[s]
                /\ UNCHANGED backups
          /\ tasks' = [tasks EXCEPT ![w][s].pc = "load", ![w][s].backup = b]
    /\ UNCHANGED <<registry, restores, disk, holds, now, spent,
                   schedulingVars, activeBackups, dumps>>

\* The PENDING row; without its server the foreign key ends the job.
InsertRow(w, s) ==
    /\ At(w, s, "insert")
    /\ \/ \E b \in BackupIds :
             /\ InsertBackup(b, ServerOf[s], TypeOf[s])
             /\ tasks' = [tasks EXCEPT ![w][s].pc = "load",
                                       ![w][s].backup = b]
       \/ ServerOf[s] \notin servers /\ End(w, s) /\ UNCHANGED backups
    /\ UNCHANGED <<registry, restores, disk, holds, now, spent,
                   schedulingVars, activeBackups, dumps>>

\* SELECT the row: a job that was deleted meanwhile is not started.
LoadRow(w, s) ==
    /\ At(w, s, "load")
    /\ IF Present(tasks[w][s].backup) THEN Goto(w, s, "server") ELSE End(w, s)
    /\ UNCHANGED <<storeVars, schedulingVars, activeBackups, dumps>>

\* Slip: the SELECT has no WHERE.
LoadServerSlip(w, s) ==
    /\ At(w, s, "server")
    /\ \E v \in servers : tasks' = [tasks EXCEPT ![w][s].pc = "begin",
                                                ![w][s].name = names[v]]
    /\ UNCHANGED <<storeVars, schedulingVars, activeBackups, dumps>>

\* SELECT the server.  Without it the row is set FAILED and the coroutine
\* ends, by the commit or by the error the commit raises.
LoadServer(w, s) ==
    LET b == tasks[w][s].backup IN
    /\ At(w, s, "server")
    /\ \/ /\ ServerOf[s] \in servers
          /\ tasks' = [tasks EXCEPT ![w][s].pc = "begin",
                                    ![w][s].name = names[ServerOf[s]]]
          /\ UNCHANGED backups
       \/ /\ ServerOf[s] \notin servers
          /\ IF Present(b) THEN SetStatus(b, "failed") ELSE UNCHANGED backups
          /\ End(w, s)
    /\ UNCHANGED <<registry, restores, disk, holds, now, spent,
                   schedulingVars, activeBackups, dumps>>

\* Slip: the update brings a deleted row back.
BeginSlip(w, s) ==
    /\ At(w, s, "begin")
    /\ SetStatus(tasks[w][s].backup, "in_progress")
    /\ Goto(w, s, "dump")
    /\ UNCHANGED <<registry, restores, disk, holds, now, spent,
                   schedulingVars, activeBackups, dumps>>

Begin(w, s) ==
    /\ At(w, s, "begin")
    /\ Present(tasks[w][s].backup)
    /\ SetStatus(tasks[w][s].backup, "in_progress")
    /\ Goto(w, s, "dump")
    /\ UNCHANGED <<registry, restores, disk, holds, now, spent,
                   schedulingVars, activeBackups, dumps>>

\* The server was loaded before the webhook: its name may have changed since,
\* and another server may bear it.
FileName(w, s) == [name |-> tasks[w][s].name, type |-> TypeOf[s], second |-> now]

NoteDump(w, s) == dumps' = [dumps EXCEPT ![tasks[w][s].backup] =
                               [path |-> FileName(w, s), by |-> <<w, s>>]]

\* The webhook has been answered or has failed.  From here to the commit the
\* event loop is held: the gauge, the file name, the LDAP dump.
Dump(w, s) ==
    /\ At(w, s, "dump")
    /\ Hold(w, FileName(w, s))
    /\ activeBackups' = [activeBackups EXCEPT ![w] = @ + 1]
    /\ PutFile(FileName(w, s), "ldif", tasks[w][s].backup)
    /\ NoteDump(w, s)
    /\ tasks' = [tasks EXCEPT ![w][s].pc = "compress",
                              ![w][s].path = FileName(w, s)]
    /\ UNCHANGED <<registry, backups, restores, now, spent, schedulingVars>>

\* The server cannot be reached or searched, which comes before the file is
\* opened, or not be left in order once the file is written.
DumpFails(w, s) ==
    /\ Spend("ldap")
    /\ Goto(w, s, "fail")
    /\ \/ /\ At(w, s, "dump")
          /\ held[w] = None
          /\ activeBackups' = [activeBackups EXCEPT ![w] = @ + 1]
          /\ UNCHANGED holds
       \/ At(w, s, "compress") /\ Release(w) /\ UNCHANGED activeBackups
    /\ UNCHANGED <<registry, backups, restores, disk, now, schedulingVars, dumps>>

\* The server takes the connection and answers no more.  No call has a timeout:
\* the event loop stays where it is, with every coroutine of the worker.
DumpHangs(w, s) ==
    /\ At(w, s, "dump")
    /\ Spend("hang")
    /\ Hold(w, FileName(w, s))
    /\ activeBackups' = [activeBackups EXCEPT ![w] = @ + 1]
    /\ Goto(w, s, "hung")
    /\ UNCHANGED <<registry, backups, restores, disk, now, schedulingVars, dumps>>

\* Inside the stretch, and out of it to the except block, whose commit is an
\* await.
Onward(w, s, pc) == Goto(w, s, pc) /\ UNCHANGED holds
Raise(w, s) == Goto(w, s, "fail") /\ Release(w)

\* gzip, then remove the plain file; a missing input raises.
Compress(w, s) ==
    LET p == tasks[w][s].path IN
    /\ At(w, s, "compress")
    /\ \/ /\ disk[p]["ldif"] # None
          /\ MoveFile(p, "ldif", "gz")
          /\ Onward(w, s, "encrypt")
       \/ disk[p]["ldif"] = None /\ Raise(w, s) /\ UNCHANGED disk
    /\ UNCHANGED <<registry, backups, restores, now, spent, schedulingVars,
                   activeBackups, dumps>>

\* Slip: the size is taken of the file that was just removed.
EncryptSlip(w, s) ==
    /\ At(w, s, "encrypt")
    /\ MoveFile(tasks[w][s].path, "gz", "enc")
    /\ Raise(w, s)
    /\ UNCHANGED <<registry, backups, restores, now, spent, schedulingVars,
                   activeBackups, dumps>>

\* AES, then remove the gzip file; a missing input raises.
Encrypt(w, s) ==
    LET p == tasks[w][s].path IN
    /\ At(w, s, "encrypt")
    /\ \/ /\ disk[p]["gz"] # None
          /\ MoveFile(p, "gz", "enc")
          /\ Onward(w, s, "size")
       \/ disk[p]["gz"] = None /\ Raise(w, s) /\ UNCHANGED disk
    /\ UNCHANGED <<registry, backups, restores, now, spent, schedulingVars,
                   activeBackups, dumps>>

\* The size of the archive, which a request that deletes another backup of
\* this name may have removed; then the await of the commit.
Size(w, s) ==
    /\ At(w, s, "size")
    /\ Release(w)
    /\ IF disk[tasks[w][s].path]["enc"] # None THEN Goto(w, s, "commit")
                                               ELSE Goto(w, s, "fail")
    /\ UNCHANGED <<registry, backups, restores, disk, now, spent,
                   schedulingVars, activeBackups, dumps>>

\* Two workers met in the stem.  Compression and encryption may find their
\* input or miss it, at the start or when they remove it; the files they read
\* and write may be there or gone, and hold parts of several dumps.  An archive
\* is overwritten but not removed.
Torn(w, s) ==
    LET p == tasks[w][s].path
        b == tasks[w][s].backup
        Left(k) == {None, b, disk[p][k]}
    IN
    /\ p \in met
    /\ \/ /\ At(w, s, "compress")
          /\ \E x \in Left("ldif"), y \in Left("gz") :
                disk' = [disk EXCEPT ![p]["ldif"] = x, ![p]["gz"] = y]
          /\ Onward(w, s, "encrypt") \/ Raise(w, s)
       \/ /\ At(w, s, "encrypt")
          /\ \E x \in Left("gz") :
                disk' = [disk EXCEPT ![p]["gz"] = x, ![p]["enc"] = b]
          /\ Onward(w, s, "size") \/ Raise(w, s)
       \/ /\ At(w, s, "encrypt")
          /\ \E x \in Left("gz") : PutFile(p, "gz", x)
          /\ Raise(w, s)
    /\ UNCHANGED <<registry, backups, restores, now, spent, schedulingVars,
                   activeBackups, dumps>>

\* Compression or encryption stops before it removes its input: the output is
\* incomplete, or was not opened yet.
Incomplete(w, s) ==
    LET out == IF At(w, s, "compress") THEN "gz" ELSE "enc" IN
    /\ tasks[w][s].pc \in {"compress", "encrypt"}
    /\ PutFile(tasks[w][s].path, out, tasks[w][s].backup) \/ UNCHANGED disk

\* Slip: the error is outside the try block.
FileFaultSlip(w, s) ==
    /\ tasks[w][s].pc \in {"compress", "encrypt"}
    /\ Spend("disk")
    /\ End(w, s)
    /\ Release(w)
    /\ UNCHANGED <<registry, backups, restores, disk, now, schedulingVars,
                   activeBackups, dumps>>

\* A full or failing disk.
FileFault(w, s) ==
    /\ Incomplete(w, s)
    /\ Spend("disk")
    /\ Raise(w, s)
    /\ UNCHANGED <<registry, backups, restores, now, schedulingVars,
                   activeBackups, dumps>>

Complete(w, s) ==
    LET b == tasks[w][s].backup IN
    /\ At(w, s, "commit")
    /\ Present(b)
    /\ backups' = [backups EXCEPT ![b].status = "completed",
                                  ![b].path = tasks[w][s].path]
    /\ Goto(w, s, "notify")
    /\ UNCHANGED <<registry, restores, disk, holds, now, spent,
                   schedulingVars, activeBackups, dumps>>

\* Slip: the except block does not lower the gauge.
FailSlip(w, s) ==
    /\ At(w, s, "fail")
    /\ Present(tasks[w][s].backup)
    /\ SetStatus(tasks[w][s].backup, "failed")
    /\ End(w, s)
    /\ UNCHANGED <<registry, restores, disk, holds, now, spent,
                   schedulingVars, activeBackups, dumps>>

\* The except block: FAILED is committed in the session the try block used.
Fail(w, s) ==
    /\ At(w, s, "fail")
    /\ Present(tasks[w][s].backup)
    /\ SetStatus(tasks[w][s].backup, "failed")
    /\ Goto(w, s, "notify")
    /\ UNCHANGED <<registry, restores, disk, holds, now, spent,
                   schedulingVars, activeBackups, dumps>>

\* The last webhook is over: the gauge goes down and the coroutine ends.
Notify(w, s) ==
    /\ At(w, s, "notify")
    /\ activeBackups' = [activeBackups EXCEPT ![w] = @ - 1]
    /\ End(w, s)
    /\ UNCHANGED <<storeVars, schedulingVars, dumps>>

\* A flush that updates a deleted row raises StaleDataError and leaves the
\* session unusable: the except block's own commit raises as well, and the
\* error escapes the coroutine before the webhook and the gauge.
Stale(w, s) ==
    /\ tasks[w][s].pc \in {"begin", "commit", "fail"}
    /\ ~ Present(tasks[w][s].backup)
    /\ End(w, s)
    /\ UNCHANGED <<storeVars, schedulingVars, activeBackups, dumps>>

\* The database refuses a statement: the same path, with the row in place.
DbFault(w, s) ==
    /\ tasks[w][s].pc \in {"insert", "load", "server", "begin", "commit", "fail"}
    /\ Spend("db")
    /\ End(w, s)
    /\ UNCHANGED <<registry, backups, restores, disk, holds, now,
                   schedulingVars, activeBackups, dumps>>

TaskStep(w, s) ==
    \/ Fire(w, s) \/ InsertRow(w, s) \/ LoadRow(w, s) \/ LoadServer(w, s)
    \/ Begin(w, s) \/ Dump(w, s) \/ DumpFails(w, s) \/ DumpHangs(w, s)
    \/ Compress(w, s) \/ Encrypt(w, s) \/ Size(w, s) \/ Torn(w, s) \/ FileFault(w, s)
    \/ Complete(w, s) \/ Fail(w, s) \/ Notify(w, s) \/ Stale(w, s) \/ DbFault(w, s)
=============================================================================
