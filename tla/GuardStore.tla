----------------------------- MODULE GuardStore -----------------------------
(* The state every process of LDAPGuard shares: the PostgreSQL rows of      *)
(* ldap_servers, backups and restore_jobs with their foreign keys, the      *)
(* backup directory on the shared volume, the wall clock that names the     *)
(* files with the servers' names, and for each worker process the stretch   *)
(* of synchronous code its event loop is in (LDAP and file work never       *)
(* awaits) with the files that stretch works on.                            *)
EXTENDS Integers, FiniteSets

CONSTANTS
    Servers,      \* LDAP servers that may be registered
    Names,        \* their names, which a request may change
    NameOf,       \* the name of a server at the beginning
    Types,        \* backup types ("full", "incremental")
    Schedules,    \* scheduled_backups rows
    ServerOf,     \* the server of a schedule
    TypeOf,       \* the backup type of a schedule
    Workers,      \* worker processes
    Handlers,     \* API requests that may be in flight at once
    BackupIds,    \* primary keys of backups
    RestoreIds,   \* primary keys of restore_jobs
    MaxSecond,    \* bound on the clock
    Budget,       \* bounds on crashes, faults and edits, see Spend
    None          \* SQL NULL, a missing file, no value

Kinds == {"crash", "api", "db", "redis", "ldap", "disk", "unlink", "hang",
          "edit"}

ASSUME StoreAssumption ==
    /\ NameOf \in [Servers -> Names]
    /\ ServerOf \in [Schedules -> Servers]
    /\ TypeOf \in [Schedules -> Types]
    /\ MaxSecond \in Nat
    /\ Budget \in [Kinds -> Nat]
    /\ None \notin BackupIds \cup RestoreIds \cup Servers \cup Names

VARIABLES
    servers,      \* registered ldap_servers rows
    names,        \* the name column of each
    holders,      \* history, read by no action: the servers that bore a name
    backups,      \* backups table
    restores,     \* restore_jobs table
    disk,         \* backup directory
    held,         \* per worker, the stem its synchronous stretch works on
    met,          \* history, read by no action but Torn: the stems that
                  \* stretches of two workers worked on at the same time
    now,          \* current second
    spent         \* how much of each budget is used

registry  == <<servers, names, holders>>
holds     == <<held, met>>
storeVars == <<registry, backups, restores, disk, holds, now, spent>>

Live     == {"pending", "in_progress", "completed", "failed"}
Statuses == Live \cup {"absent", "deleted"}

\* A backup's file is named after the server's name, the type and the second;
\* compression and encryption add one suffix each, so a stem has up to three
\* files.  A file holds the dump of a backup, or a part of it.
Stems    == [name : Names, type : Types, second : 0..MaxSecond]
Suffixes == {"ldif", "gz", "enc"}

ASSUME PathAssumption == None \notin Stems

Backup  == [status : Statuses, server : Servers \cup {None},
            type : Types \cup {None}, path : Stems \cup {None}]
Restore == [status : Statuses, backup : BackupIds \cup {None},
            server : Servers \cup {None}]

NoBackup(st) == [status |-> st, server |-> None, type |-> None, path |-> None]
NoRestore    == [status |-> "absent", backup |-> None, server |-> None]

StoreTypeOK ==
    /\ servers \subseteq Servers
    /\ names \in [Servers -> Names]
    /\ holders \in [Names -> SUBSET Servers]
    /\ backups \in [BackupIds -> Backup]
    /\ restores \in [RestoreIds -> Restore]
    /\ disk \in [Stems -> [Suffixes -> BackupIds \cup {None}]]
    /\ held \in [Workers -> Stems \cup {None}]
    /\ met \subseteq Stems
    /\ now \in 0..MaxSecond
    /\ spent \in [Kinds -> Nat]

StoreInit ==
    /\ servers = Servers
    /\ names = NameOf
    /\ holders = [n \in Names |-> {v \in Servers : NameOf[v] = n}]
    /\ backups = [b \in BackupIds |-> NoBackup("absent")]
    /\ restores = [r \in RestoreIds |-> NoRestore]
    /\ disk = [p \in Stems |-> [k \in Suffixes |-> None]]
    /\ held = [w \in Workers |-> None]
    /\ met = {}
    /\ now = 0
    /\ spent = [k \in Kinds |-> 0]

-----------------------------------------------------------------------------
\* Environment events of each kind are bounded, to keep the model finite.
Spend(k) == /\ spent[k] < Budget[k]
            /\ spent' = [spent EXCEPT ![k] = @ + 1]

Present(b)    == backups[b].status \in Live
Referenced(b) == \E r \in RestoreIds :
                    restores[r].status \in Live /\ restores[r].backup = b

\* Slip: no foreign key from backups to ldap_servers.
InsertBackupSlip(b, v, t) ==
    /\ backups[b].status = "absent"
    /\ backups' = [backups EXCEPT ![b] =
            [status |-> "pending", server |-> v, type |-> t, path |-> None]]

\* INSERT INTO backups: a fresh id, and the foreign key to ldap_servers.
InsertBackup(b, v, t) ==
    /\ v \in servers
    /\ backups[b].status = "absent"
    /\ backups' = [backups EXCEPT ![b] =
            [status |-> "pending", server |-> v, type |-> t, path |-> None]]

\* UPDATE of the status column.  An UPDATE of a row that is gone matches no
\* row: the ORM raises, so every caller has Present(b) as its guard.
SetStatus(b, st) == backups' = [backups EXCEPT ![b].status = st]

\* DELETE FROM backups: rows already gone are passed over.
EraseBackups(B) ==
    backups' = [b \in BackupIds |-> IF b \in B /\ Present(b)
                                    THEN NoBackup("deleted") ELSE backups[b]]

\* The file a path column names: none when the column is NULL.
FileAt(p, k) == IF p = None THEN None ELSE disk[p][k]

\* Write, or with None remove, one file.
PutFile(p, k, c) == disk' = [disk EXCEPT ![p][k] = c]

\* Slip: the input is not removed.
MoveFileSlip(p, from, to) ==
    disk' = [disk EXCEPT ![p][to] = disk[p][from]]

\* A file becomes the next file of its chain and the input is removed.
MoveFile(p, from, to) ==
    disk' = [disk EXCEPT ![p][to] = disk[p][from], ![p][from] = None]

\* Worker w enters a synchronous stretch on the files of stem p, which nothing
\* else in w interrupts, and leaves it.
Hold(w, p) ==
    /\ held[w] = None
    /\ held' = [held EXCEPT ![w] = p]
    /\ met' = IF \E u \in Workers \ {w} : held[u] = p THEN met \cup {p} ELSE met

Release(w) == held' = [held EXCEPT ![w] = None] /\ UNCHANGED met

\* Slips: one of the two foreign keys is missing.
ServerReferencedSlip1(v) ==
    \E r \in RestoreIds : restores[r].status \in Live /\ restores[r].server = v
ServerReferencedSlip2(v) ==
    \E b \in BackupIds : Present(b) /\ backups[b].server = v

\* DELETE FROM ldap_servers: refused while any row refers to the server.
ServerReferenced(v) ==
    \/ \E b \in BackupIds : Present(b) /\ backups[b].server = v
    \/ \E r \in RestoreIds : restores[r].status \in Live /\ restores[r].server = v
=============================================================================
