---------------------------- MODULE BackupRoutes ----------------------------
(* The API routes that change the backups table: create, run a schedule     *)
(* now, delete, batch delete.  The API is a process (or several) of its     *)
(* own: its requests interleave with the workers and with each other.       *)
EXTENDS BackupTask

VARIABLES
    requests,    \* per handler, a delete request that is being served
    halfDeleted  \* history, read by no action: the stems whose archive a request
                 \* removed, or tried to, and whose rows it then left

\* unlink   delete_backup has read the row
\* erase    about to DELETE the rows and commit
Request   == [pc : {"idle", "unlink", "erase"}, ids : SUBSET BackupIds,
              path : Stems \cup {None}]
NoRequest == [pc |-> "idle", ids |-> {}, path |-> None]

RoutesTypeOK == requests \in [Handlers -> Request] /\ halfDeleted \subseteq Stems
RoutesInit   == requests = [h \in Handlers |-> NoRequest] /\ halfDeleted = {}

\* The request ends without its DELETE, after the file if it named one.
LeaveRows(h) ==
    halfDeleted' = IF requests[h].pc = "erase" /\ requests[h].path # None
                   THEN halfDeleted \cup {requests[h].path}
                   ELSE halfDeleted

\* POST /backups and POST /scheduled-backups/{id}/run: both check the server
\* and insert a PENDING row; neither hands it to a worker.
CreateBackup(b, v, t) ==
    /\ InsertBackup(b, v, t)
    /\ UNCHANGED <<registry, restores, disk, holds, now, spent,
                   schedulingVars, taskVars, requests, halfDeleted>>

RunScheduledBackup(b, s) ==
    /\ schedules[s] \in {"active", "inactive"}
    /\ CreateBackup(b, ServerOf[s], TypeOf[s])

\* DELETE /backups/{id}: the row, with the path it has at this moment.
DeleteSelect(h, b) ==
    /\ requests[h].pc = "idle"
    /\ Present(b)
    /\ requests' = [requests EXCEPT ![h] =
            [pc |-> "unlink", ids |-> {b}, path |-> backups[b].path]]
    /\ UNCHANGED <<storeVars, schedulingVars, taskVars, halfDeleted>>

\* Slip: the request ends when it has removed the file.
DeleteUnlinkSlip(h) ==
    LET p == requests[h].path IN
    /\ requests[h].pc = "unlink"
    /\ IF p = None
       THEN requests' = [requests EXCEPT ![h].pc = "erase"] /\ UNCHANGED disk
       ELSE requests' = [requests EXCEPT ![h] = NoRequest] /\ PutFile(p, "enc", None)
    /\ UNCHANGED <<registry, backups, restores, holds, now, spent,
                   schedulingVars, taskVars, halfDeleted>>

\* The file goes first, if the row named one; an error here is only logged.
DeleteUnlink(h) ==
    LET p == requests[h].path IN
    /\ requests[h].pc = "unlink"
    /\ requests' = [requests EXCEPT ![h].pc = "erase"]
    /\ \/ p = None /\ UNCHANGED <<disk, spent>>
       \/ p # None /\ PutFile(p, "enc", None) /\ UNCHANGED spent
       \/ p # None /\ Spend("unlink") /\ UNCHANGED disk
    /\ UNCHANGED <<registry, backups, restores, holds, now, schedulingVars,
                   taskVars, halfDeleted>>

\* POST /backups/batch-delete: every id must be found; files are left alone.
BatchSelect(h, B) ==
    /\ requests[h].pc = "idle"
    /\ B # {}
    /\ \A b \in B : Present(b)
    /\ requests' = [requests EXCEPT ![h] =
            [pc |-> "erase", ids |-> B, path |-> None]]
    /\ UNCHANGED <<storeVars, schedulingVars, taskVars, halfDeleted>>

\* Slip: the foreign key of restore_jobs is missing.
DeleteCommitSlip(h) ==
    /\ requests[h].pc = "erase"
    /\ requests' = [requests EXCEPT ![h] = NoRequest]
    /\ EraseBackups(requests[h].ids)
    /\ UNCHANGED <<registry, restores, disk, holds, now, spent,
                   schedulingVars, taskVars, halfDeleted>>

\* One transaction; a restore job that refers to one of the rows refuses it.
DeleteCommit(h) ==
    /\ requests[h].pc = "erase"
    /\ requests' = [requests EXCEPT ![h] = NoRequest]
    /\ IF \E b \in requests[h].ids : Referenced(b)
       THEN UNCHANGED backups /\ LeaveRows(h)
       ELSE EraseBackups(requests[h].ids) /\ UNCHANGED halfDeleted
    /\ UNCHANGED <<registry, restores, disk, holds, now, spent,
                   schedulingVars, taskVars>>

\* The API process dies, or the database refuses the statement.
RequestFault(h) ==
    /\ requests[h].pc # "idle"
    /\ Spend("api")
    /\ requests' = [requests EXCEPT ![h] = NoRequest]
    /\ LeaveRows(h)
    /\ UNCHANGED <<registry, backups, restores, disk, holds, now,
                   schedulingVars, taskVars>>

DeleteStep(h) == DeleteUnlink(h) \/ DeleteCommit(h) \/ RequestFault(h)
=============================================================================
