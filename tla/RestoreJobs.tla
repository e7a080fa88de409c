----------------------------- MODULE RestoreJobs -----------------------------
(* Restores: the API route that checks the backup, inserts the job and      *)
(* pushes its id on the Redis list, and the loop in each worker that pops   *)
(* an id and awaits perform_restore.                                        *)
(*                                                                          *)
(*   backup   popped, about to SELECT the backup                            *)
(*   server   about to SELECT the server                                    *)
(*   begin    about to commit IN_PROGRESS                                   *)
(*   decrypt  awaiting the "started" webhook                                *)
(*   decompress, apply   inside the synchronous stretch                     *)
(*   hung     inside it, waiting for an LDAP server that does not answer    *)
(*   commit   about to commit COMPLETED                                     *)
(*   fail     in the except block, about to commit FAILED                   *)
(*   notify   awaiting the "completed" webhook                              *)
EXTENDS BackupRoutes, Sequences

VARIABLES
    creations,       \* per handler, a POST /restores that is being served
    queue,           \* Redis list "restore_queue"
    loops,           \* per worker, the coroutine of its queue loop
    activeRestores,  \* per worker process, the gauge ldapguard_active_restores
    applied          \* what restores did to their LDAP servers

restoreVars == <<creations, queue, loops, activeRestores, applied>>

RestoreSteps == {"idle", "backup", "server", "begin", "decrypt", "decompress",
                 "apply", "commit", "fail", "notify", "hung"}
Creation   == [pc : {"idle", "insert", "push"},
               backup : BackupIds \cup {None}, job : RestoreIds \cup {None}]
Loop       == [pc : RestoreSteps, job : RestoreIds \cup {None},
               path : Stems \cup {None}]
NoCreation == [pc |-> "idle", backup |-> None, job |-> None]
NoLoop     == [pc |-> "idle", job |-> None, path |-> None]

RestoreTypeOK ==
    /\ creations \in [Handlers -> Creation]
    /\ queue \in Seq(RestoreIds)
    /\ loops \in [Workers -> Loop]
    /\ activeRestores \in [Workers -> Int]
    /\ applied \in [RestoreIds -> [times : Nat, content : BackupIds \cup {None}]]

RestoreInit ==
    /\ creations = [h \in Handlers |-> NoCreation]
    /\ queue = <<>>
    /\ loops = [w \in Workers |-> NoLoop]
    /\ activeRestores = [w \in Workers |-> 0]
    /\ applied = [r \in RestoreIds |-> [times |-> 0, content |-> None]]

\* What no step of this module touches.
elsewhere == <<schedulingVars, taskVars, requests, halfDeleted>>

LAt(w, pc)   == loops[w].pc = pc
LGoto(w, pc) == loops' = [loops EXCEPT ![w].pc = pc]
LEnd(w)      == loops' = [loops EXCEPT ![w] = NoLoop]
SetRestore(r, st) == restores' = [restores EXCEPT ![r].status = st]

-----------------------------------------------------------------------------
\* Slip: any backup may be restored.
CreateSelectSlip(h, b) ==
    /\ creations[h].pc = "idle"
    /\ Present(b)
    /\ creations' = [creations EXCEPT ![h] =
            [pc |-> "insert", backup |-> b, job |-> None]]
    /\ UNCHANGED <<storeVars, elsewhere, queue, loops, activeRestores, applied>>

\* POST /restores: only a completed backup may be restored.
CreateSelect(h, b) ==
    /\ creations[h].pc = "idle"
    /\ backups[b].status = "completed"
    /\ creations' = [creations EXCEPT ![h] =
            [pc |-> "insert", backup |-> b, job |-> None]]
    /\ UNCHANGED <<storeVars, elsewhere, queue, loops, activeRestores, applied>>

\* The INSERT; the foreign keys refuse it when a row it names is gone.
CreateInsert(h, r, v) ==
    LET b == creations[h].backup IN
    /\ creations[h].pc = "insert"
    /\ restores[r].status = "absent"
    /\ \/ /\ Present(b) /\ v \in servers
          /\ restores' = [restores EXCEPT ![r] =
                [status |-> "pending", backup |-> b, server |-> v]]
          /\ creations' = [creations EXCEPT ![h].pc = "push", ![h].job = r]
       \/ /\ ~ Present(b) \/ v \notin servers
          /\ creations' = [creations EXCEPT ![h] = NoCreation]
          /\ UNCHANGED restores
    /\ UNCHANGED <<registry, backups, disk, holds, now, spent, elsewhere,
                   queue, loops, activeRestores, applied>>

\* Slip: the push is made a second time.
CreatePushSlip(h) ==
    /\ creations[h].pc = "push"
    /\ creations' = [creations EXCEPT ![h] = NoCreation]
    /\ queue' = Append(Append(queue, creations[h].job), creations[h].job)
    /\ UNCHANGED <<storeVars, elsewhere, loops, activeRestores, applied>>

\* RPUSH; when Redis does not answer the error is logged and the job stays.
CreatePush(h) ==
    /\ creations[h].pc = "push"
    /\ creations' = [creations EXCEPT ![h] = NoCreation]
    /\ \/ queue' = Append(queue, creations[h].job) /\ UNCHANGED spent
       \/ Spend("redis") /\ UNCHANGED queue
    /\ UNCHANGED <<registry, backups, restores, disk, holds, now, elsewhere,
                   loops, activeRestores, applied>>

CreationFault(h) ==
    /\ creations[h].pc # "idle"
    /\ Spend("api")
    /\ creations' = [creations EXCEPT ![h] = NoCreation]
    /\ UNCHANGED <<registry, backups, restores, disk, holds, now, elsewhere,
                   queue, loops, activeRestores, applied>>

CreationStep(h) ==
    \/ \E r \in RestoreIds, v \in Servers : CreateInsert(h, r, v)
    \/ CreatePush(h)
    \/ CreationFault(h)

-----------------------------------------------------------------------------
\* Slip: the id is read and stays in the list.
PopRestoreSlip(w) ==
    /\ LAt(w, "idle")
    /\ queue # <<>>
    /\ loops' = [loops EXCEPT ![w] =
            [pc |-> "backup", job |-> Head(queue), path |-> None]]
    /\ UNCHANGED <<storeVars, elsewhere, creations, queue, activeRestores,
                   applied>>

\* LPOP, then SELECT of the job row, which is never deleted.
PopRestore(w) ==
    /\ LAt(w, "idle")
    /\ queue # <<>>
    /\ queue' = Tail(queue)
    /\ loops' = [loops EXCEPT ![w] =
            [pc |-> "backup", job |-> Head(queue), path |-> None]]
    /\ UNCHANGED <<storeVars, elsewhere, creations, activeRestores, applied>>

\* Slip: the row is kept where its file path belongs.
SelectBackupSlip(w) ==
    /\ LAt(w, "backup")
    /\ loops' = [loops EXCEPT ![w].pc = "server",
                              ![w].path = backups[restores[loops[w].job].backup]]
    /\ UNCHANGED <<storeVars, elsewhere, creations, queue, activeRestores,
                   applied>>

\* Slip: any backup of the job's server is taken.
SelectBackupOther(w) ==
    /\ LAt(w, "backup")
    /\ \E b \in BackupIds :
          /\ backups[b].status = "completed"
          /\ backups[b].server = restores[loops[w].job].server
          /\ loops' = [loops EXCEPT ![w].pc = "server",
                                    ![w].path = backups[b].path]
    /\ UNCHANGED <<storeVars, elsewhere, creations, queue, activeRestores,
                   applied>>

\* SELECT the backup: without it the job is FAILED at once.
SelectBackup(w) ==
    LET r == loops[w].job
        b == restores[r].backup
    IN
    /\ LAt(w, "backup")
    /\ IF Present(b)
       THEN /\ loops' = [loops EXCEPT ![w].pc = "server",
                                      ![w].path = backups[b].path]
            /\ UNCHANGED restores
       ELSE SetRestore(r, "failed") /\ LEnd(w)
    /\ UNCHANGED <<registry, backups, disk, holds, now, spent, elsewhere,
                   creations, queue, activeRestores, applied>>

\* SELECT the server: the same.
SelectServer(w) ==
    LET r == loops[w].job IN
    /\ LAt(w, "server")
    /\ IF restores[r].server \in servers
       THEN LGoto(w, "begin") /\ UNCHANGED restores
       ELSE SetRestore(r, "failed") /\ LEnd(w)
    /\ UNCHANGED <<registry, backups, disk, holds, now, spent, elsewhere,
                   creations, queue, activeRestores, applied>>

BeginRestore(w) ==
    /\ LAt(w, "begin")
    /\ SetRestore(loops[w].job, "in_progress")
    /\ LGoto(w, "decrypt")
    /\ UNCHANGED <<registry, backups, disk, holds, now, spent, elsewhere,
                   creations, queue, activeRestores, applied>>

\* The webhook is over.  The gauge, then the gzip file beside the archive.  A
\* missing archive raises, and one that does not decode: part of it is missing,
\* or it was encrypted with another key.
Decrypt(w) ==
    LET p == loops[w].path
        c == FileAt(p, "enc")
    IN
    /\ LAt(w, "decrypt")
    /\ held[w] = None
    /\ activeRestores' = [activeRestores EXCEPT ![w] = @ + 1]
    /\ \/ /\ c # None
          /\ Hold(w, p)
          /\ PutFile(p, "gz", c)
          /\ LGoto(w, "decompress")
       \/ LGoto(w, "fail") /\ UNCHANGED <<disk, holds>>
    /\ UNCHANGED <<registry, backups, restores, now, spent, elsewhere,
                   creations, queue, applied>>

\* The loop's coroutine goes to its except block.
LRaise(w) == LGoto(w, "fail") /\ Release(w)

\* The plain file beside it.  Neither copy is removed afterwards.
Decompress(w) ==
    LET p == loops[w].path IN
    /\ LAt(w, "decompress")
    /\ disk[p]["gz"] # None
    /\ PutFile(p, "ldif", disk[p]["gz"])
    /\ LGoto(w, "apply")
    /\ UNCHANGED <<registry, backups, restores, holds, now, spent, elsewhere,
                   creations, queue, activeRestores, applied>>

\* The disk is full, the gzip file is not the one that was just written, or
\* part of it is missing: the output may have been opened.
DecompressFails(w) ==
    LET p == loops[w].path IN
    /\ LAt(w, "decompress")
    /\ \/ disk[p]["gz"] # None /\ PutFile(p, "ldif", disk[p]["gz"])
       \/ UNCHANGED disk
    /\ LRaise(w)
    /\ UNCHANGED <<registry, backups, restores, now, spent, elsewhere,
                   creations, queue, activeRestores, applied>>

\* The plain file is there and its entries, or those before the restore broke
\* off, were sent.
Added(w) ==
    LET c == disk[loops[w].path]["ldif"] IN
    /\ c # None
    /\ applied' = [applied EXCEPT ![loops[w].job] =
                       [times |-> @.times + 1, content |-> c]]

\* The LDIF is added to the server entry by entry; an entry that the server
\* refuses, and every one after the connection broke, is passed over, so what
\* fails here is the connection itself or the reading of the file (see Ldif).
Apply(w) ==
    /\ LAt(w, "apply")
    /\ Release(w)
    /\ \/ Added(w) /\ LGoto(w, "commit") /\ UNCHANGED spent
       \/ /\ Spend("ldap")
          /\ Added(w) \/ UNCHANGED applied
          /\ LGoto(w, "fail")
       \/ /\ disk[loops[w].path]["ldif"] = None
          /\ LGoto(w, "fail")
          /\ UNCHANGED <<applied, spent>>
    /\ UNCHANGED <<registry, backups, restores, disk, now, elsewhere,
                   creations, queue, activeRestores>>

\* The server does not answer the bind or one of the adds, and nothing ends the
\* wait.
ApplyHangs(w) ==
    /\ LAt(w, "apply")
    /\ Spend("hang")
    /\ Added(w) \/ UNCHANGED applied
    /\ LGoto(w, "hung")
    /\ UNCHANGED <<registry, backups, restores, disk, holds, now, elsewhere,
                   creations, queue, activeRestores>>

CompleteRestore(w) ==
    /\ LAt(w, "commit")
    /\ SetRestore(loops[w].job, "completed")
    /\ LGoto(w, "notify")
    /\ UNCHANGED <<registry, backups, disk, holds, now, spent, elsewhere,
                   creations, queue, activeRestores, applied>>

\* Slip: an error of the webhook reaches the except block.
NotifyRestoreSlip(w) ==
    /\ LAt(w, "notify")
    /\ LGoto(w, "fail")
    /\ UNCHANGED <<storeVars, elsewhere, creations, queue, activeRestores,
                   applied>>

NotifyRestore(w) ==
    /\ LAt(w, "notify")
    /\ activeRestores' = [activeRestores EXCEPT ![w] = @ - 1]
    /\ LEnd(w)
    /\ UNCHANGED <<storeVars, elsewhere, creations, queue, applied>>

\* Slip: the except block only logs.
FailRestoreSlip(w) ==
    /\ LAt(w, "fail")
    /\ activeRestores' = [activeRestores EXCEPT ![w] = @ - 1]
    /\ LEnd(w)
    /\ UNCHANGED <<storeVars, elsewhere, creations, queue, applied>>

\* The except block: no webhook, so the gauge follows the commit directly.
FailRestore(w) ==
    /\ LAt(w, "fail")
    /\ SetRestore(loops[w].job, "failed")
    /\ activeRestores' = [activeRestores EXCEPT ![w] = @ - 1]
    /\ LEnd(w)
    /\ UNCHANGED <<registry, backups, disk, holds, now, spent, elsewhere,
                   creations, queue, applied>>

\* The database refuses a statement: the error reaches the loop, which logs it.
RestoreDbFault(w) ==
    /\ loops[w].pc \in {"backup", "server", "begin", "commit", "fail"}
    /\ Spend("db")
    /\ LEnd(w)
    /\ UNCHANGED <<registry, backups, restores, disk, holds, now, elsewhere,
                   creations, queue, activeRestores, applied>>

RestoreStep(w) ==
    \/ PopRestore(w) \/ SelectBackup(w) \/ SelectServer(w) \/ BeginRestore(w)
    \/ Decrypt(w) \/ Decompress(w) \/ DecompressFails(w) \/ Apply(w)
    \/ ApplyHangs(w) \/ CompleteRestore(w) \/ NotifyRestore(w)
    \/ FailRestore(w) \/ RestoreDbFault(w)
=============================================================================
