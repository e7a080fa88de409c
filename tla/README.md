# LDAPGuard: a verification project

LDAPGuard backs up LDAP directories. A FastAPI process serves the routes, one
or more worker processes run cron jobs and poll a Redis list, and all of them
share a PostgreSQL database and a directory of archives. This directory holds
TLA+ modules of its core (the life of a backup and of a restore under
concurrent requests, crashes and faults; the accounts; the registered servers
with their encrypted passwords; import and export of the configuration; the
text of an archive), TLC runs on small instances and theorems checked by TLAPS.

## 1. The system

### Components, state, operations

| Component | Source | State | Operations |
|---|---|---|---|
| Backup coroutine | `workers/tasks/backup_task.py`, `workers/main.py:72-104` | its row in `backups`, its files, one gauge | `execute_scheduled_backup`, `perform_backup` |
| Scheduler | `workers/main.py:45-70`, `api/routes/scheduled_backups.py` | `scheduled_backups`; a copy in each worker's APScheduler | load at start, cron triggers, create / update / delete / run now |
| Backup routes | `api/routes/backups.py` | `backups`, archive files | create, delete, batch delete (list and get only read) |
| Restore route, Redis list | `api/routes/restores.py`, `api/core/redis.py` | `restore_jobs`, `restore_queue` | create: check, insert, push |
| Restore coroutine, queue loop | `workers/tasks/restore_task.py`, `workers/main.py:121-141` | its row in `restore_jobs`, files, one gauge | pop, `perform_restore` |
| File service | `api/services/backup_service.py` | the backup directory, which nothing locks | name, gzip, AES, and back; `cleanup_old_backups` (no caller) |
| LDAP service | `api/services/ldap_service.py` | the directory servers | connect, dump to LDIF, add from LDIF; no call has a time-out |
| Schema, sessions | `api/models/models.py`, `api/core/database.py` | rows, foreign keys, unique keys | per request or coroutine one session, `expire_on_commit=False` |
| Metrics | `api/services/metrics_service.py` | gauges and counters of one process | started, completed, failed |
| Webhooks | `api/services/webhook_service.py` | none | POST with a time-out; errors are swallowed |
| Server routes | `api/routes/ldap_servers.py` | `ldap_servers` | create, update, delete |
| Credentials | `api/core/encryption.py` | `bind_password`, `password_encrypted` | encrypt, decrypt, fall back |
| Accounts | `api/routes/auth.py`, `api/core/security.py` | `users`, tokens | register, login, update, delete |
| Configuration | `api/routes/config.py` | servers, schedules | export, import |
| Settings, keys, audit | `api/routes/settings.py`, `api_keys.py`, `audit_logs.py` | their tables | get-or-insert, create, revoke, list |
| Start-up, migrations, web UI, deployment | `api/main.py`, `migrations/`, `web/`, `k8s/` | none of their own | |

### How they interact

* The API and the workers never call each other. They meet in database rows,
  in the Redis list `restore_queue` (API pushes, workers pop) and in the backup
  directory (workers write and read, the API unlinks).
* A worker is one asyncio event loop. Coroutines interleave at every `await`
  (database statement, Redis call, webhook). LDAP and file work never awaits:
  from the "started" webhook to the final commit the loop is held. A *process*
  may die anywhere, also inside that stretch, and other processes run meanwhile.
* The webhook between the IN_PROGRESS commit and the dump is the widest window:
  it may last as long as the client's time-out. The server row, with the name
  that the file gets, was read before it.
* Several workers are a documented deployment (`--scale worker=3`,
  `README.md:527`). Each of them runs every schedule.
* A schedule is copied into the worker's scheduler at start and read again when
  its job fires. Nothing tells a worker of an edit.

### What is hard

Rows deleted under a running coroutine; an `except` block that reuses a session
whose flush failed; a crash between two of three files; a check in one process
that another relies on later; a job id that is in neither table nor list; two
workers on one list and one volume, inside each other's file steps; a file name
with a resolution of one second and a server name that changes hands; an LDAP
server that never answers; a reply that is lost; a statement that PostgreSQL
refuses and nobody notices. PROJECT.json lists these hazards at their lines.

### What correct means, per component

* **Backup coroutine**: it alone writes its row after the insert, the row says
  where it stands, and it ends. A COMPLETED row names its own archive; archives
  and unencrypted files have an account.
* **Scheduler**: one schedule of one worker has one coroutine at a time, and
  does not start twice in a second.
* **Backup routes**: deletion leaves nothing behind and breaks no reference.
* **Restore route, list, coroutine**: a job names a completed backup for as
  long as it lives, is applied at most once and with a dump from that backup's
  file, and a pending one is somewhere where it will be found.
* **Metrics**: the gauge of active jobs is the number of active jobs.
* **Servers**: no row names a server that is gone.
* **Accounts**: nobody takes his own rights; the last administrator is safe but
  for a race; concurrent edits do not undo each other.
* **Credentials**: a job binds with the password that was saved, and only the
  request that gives a password changes one.
* **Configuration**: an import commits what it reports, all of it or the
  servers alone, but for what a refused lookup undoes; an export is closed under
  the references in it.
* **LDAP service**: a dump restores to the same entries, also when restores of
  it broke off before; the count is that of the entries added, or one less when
  the connection went with a reply.

## 2. Modules

```
JobLifecycle      what a job row promises            (abstract)
GuardStore        tables, foreign keys, files, clock
  Scheduling      scheduled_backups, schedulers of the workers
    BackupTask    execute_scheduled_backup + perform_backup
      BackupRoutes    create, run now, delete, batch delete
        RestoreJobs   restore route, Redis list, perform_restore
          LdapGuard   composition, crashes, fairness, properties, IInv
            LdapGuardInvariants  further inductive invariants
              MCLdapGuard        constants of the runs
            LdapGuardProofs      theorems that need IInv only
              RestoreProofs      who holds a restore job (LdapGuardInvariants)
              CoroutineProofs    coroutines and gauges (LdapGuardInvariants)
                FileProofs       whose dumps a file holds (both of the above)

Accounts          users, register, update_user, delete_user
  MCAccounts      constants of the run
  AccountsProofs  theorems

ServerRegistry    ldap_servers, passwords and keys, migration 003, jobs that bind
  ServerRegistryProofs    theorems
  ConfigTransfer  export and import beside the requests of ServerRegistry
    MCConfigTransfer      constants of the run
    ConfigTransferProofs  theorems (uses the lemmas of ServerRegistryProofs)

Ldif              backup_to_ldif and restore_from_ldif, line by line
  MCLdif          entries, directories and constants of the runs
  LdifProofs      theorems
```

Each module EXTENDS the one above it, so an action says with UNCHANGED exactly
what it leaves alone in the parts below it. `JobLifecycle` is instantiated
twice in `LdapGuard`, for `backups` and for `restore_jobs`.

* **`GuardStore`**. `servers`, `backups`, `restores` are the tables; a status
  `"absent"` is an id that was not used yet, `"deleted"` one whose row is gone.
  `disk[stem][suffix]` holds the id of the backup whose dump, or a part of
  whose dump, a file has. A stem is (server name, type, second), as in
  `generate_backup_filename`; the suffixes are the plain LDIF, `.gz` and `.enc`.
  `names` is the name column of `ldap_servers`, which a request may change, and
  `holders` remembers for the properties which servers bore a name.
  `InsertBackup`, `EraseBackups`, `ServerReferenced` carry the foreign keys.
  `held[w]` is the stem whose files worker `w` works on while it is in
  synchronous code (`Hold`, `Release`), `None` when its event loop is free; `met`
  collects the stems that two workers held at the same time. `Spend(k)` counts
  faults.
* **`Scheduling`**. `schedules` is the table, `registered[w]` the jobs worker
  `w` loaded at start, `due[w]` those whose trigger fired. `Load` is
  `load_scheduled_backups`; it runs at start only. `RenameServer` and
  `DeleteServer` are what the server routes do that a job can notice.
* **`BackupTask`**. `tasks[w][s]` is the coroutine of schedule `s` in worker
  `w`; its `pc` names the await or file operation it is at. `Tick` lets any set
  of cron jobs fire; one that still runs is skipped (`max_instances` is 1).
  `Stale` is the commit of a row that a request deleted: SQLAlchemy raises
  `StaleDataError`, the `except` block's own commit in that session raises
  again, and the coroutine ends without webhook or gauge. `DbFault` is the same
  path when the database refuses a statement. `FileFault`, `DumpFails` reach
  the `except` block properly. `dumps` is a history variable that no action
  reads: the file each backup's dump was written to, and the worker and job that
  ran it. With it the properties tell a collision of names that happened from
  one that could. `LoadServer` takes the name that `FileName` uses after the
  webhook. `DumpHangs` is a dump that never returns. `Dump`, `Compress`,
  `Encrypt` and `Size` are single steps, which is what they amount to while no
  other worker works on the same stem; `Torn` is compression and encryption
  where two have met (see the abstractions below).
* **`BackupRoutes`**. `requests[h]` is a delete request: select, unlink,
  delete-and-commit are separate steps. `halfDeleted` is a history variable
  that no action reads: the stems whose archive went for a delete that was then
  refused or cut off. The code keeps no trace of it.
* **`RestoreJobs`**. `creations[h]` is a POST /restores (select, insert, push);
  `queue` is the list; `loops[w]` the coroutine of the queue loop; `applied[r]`
  what a restore did to its directory server. An archive may fail to decode and
  the copies beside it may be overwritten (`Decrypt`, `DecompressFails`); the
  bind and each add may never return (`ApplyHangs`).
* **`Accounts`** stands alone: no other modelled table depends on more than the
  existence of a user. `users` is the table, `calls[c]` a request with the row
  as its session loaded it (`seen`). `get_current_user` and the role check are
  `Authorize`; `SelectEdited`, `CheckTaken`, `CommitUpdate` are the three
  statements of `update_user`. The session holds one object per row, so an
  administrator who edits himself is compared with, and written from, the row
  that `get_current_user` loaded; only fields that differ from it are written.
* **`ServerRegistry`**. `rows` is `ldap_servers`: a password is a text and the
  key it was enciphered under (`None`: in clear), beside the flag
  `password_encrypted`. `calls[c]` is a request with the row as its session
  loaded it, because an UPDATE writes only the fields that differ from it
  (`Written`): a flag that was loaded TRUE is not written again. `keys` is the
  key of the API and of the worker, read when they start. `Downgrade` drops the
  column; `lost` remembers for the properties which flags went with it.
  `JobRead` and `JobBind` are the two ends of what a job does with a server's
  row; the webhook in between may take long.
* **`ConfigTransfer`** composes with all of it. `imports[i]` is an import and
  its session: `ImportItem` is one pass of a loop, `ImportFlush` the INSERT of
  the row added last, which SQLAlchemy sends before the next statement,
  `ImportServers` and `ImportUsers` are the two commits. A refused INSERT leaves the
  session unusable (`Broken`), since no `except` block of `config.py` rolls it
  back. A refused lookup does not (`LookedUp`): the session goes on, PostgreSQL
  drops what the transaction had sent and takes its COMMIT for a ROLLBACK
  (`Aborted`, `Undone`). Items are taken in any order, as a file may list them. `export` reads
  the three tables at three times. `Elsewhere` is a step of the registry, held
  back where PostgreSQL makes it wait for the rows an import has sent.
* **`Ldif`**. An archive is a sequence of lines; a value is the sequence of the
  lines it has, since line breaks are written as they are. `reader` is the loop
  of `restore_from_ldif`. `Accepts` is the directory server: a new entry, below
  one that exists, with legal attribute names and no value twice. The connection may go at
  any line, after which every add fails, and so may the worker; it may go
  between an add and its reply (`LoseReply`).
  `IsEntry` is what the writer relies on of a search result: a name or none (a
  referral), finitely many values that are a set, so that none is there twice.
  `Block`, `NameAt` and `AttrsAt` say what the lines between two blank lines
  mean to a reader that forgets nothing else; `Reference` adds block after block.
* **`LdapGuardInvariants`** models nothing. It states what the code relies on
  across components, as invariants that each step preserves (section 4).
* **`LdapGuard`**. `Crash(w)` kills a worker and starts it again: coroutines,
  gauges and the held loop are gone, schedules are read afresh.

Operators whose name ends in `Slip` are deliberate mistakes (a forgotten guard,
a swapped order, a missing foreign key) placed before the definition they vary.
Nothing refers to them; putting one in place of its definition must make a run
fail, which shows that the property could fail.

### Abstractions

* Rows that workers run are encrypted and compressed (`main.py:93-94`), so both
  stages are always there. The incremental branch dumps everything, like the
  full one, and its parent is set by no code; types only enter file names.
* **Files.** Nothing locks one. While one worker alone works on a stem, a file
  step has the same outcomes whether it is one step or many: the loop is held,
  a crash or a full disk inside it is `Incomplete`, and the only other process
  that touches these files is a delete request, which unlinks the archive. Where
  two workers met, in code between `open`, the copy loop and `os.remove`, `Torn`
  leaves each file it reads or writes as it was, gone, or with a part of this
  dump, and the step succeeds or raises. A file of such a stem that "holds" a
  dump holds at least a part of it; no property says more there.
* Server names are plain file names: none has a `/` or ends in `.gz` or `.enc`,
  so that different stems have different files.
* A connection to an LDAP server that is lost has executed the add in flight or
  will not. A slow server is a step that comes late, one that never answers a
  `Hangs` step.
* A schedule keeps its server and type. Cron texts are free: any set of
  registered jobs may fire in any second.
* `process_backup_queue` pops a list no code pushes to. It is left out;
  `CreatedBackupRuns` is about that gap.
* A database fault is a statement that fails before it took effect. A commit
  that took effect and whose answer was lost is not modelled.
* A worker restart follows its crash at once. The API's crash is
  `RequestFault` / `CreationFault`.
* All workers and the API mount one volume (`docker-compose.yml`, `k8s/`).
* User 1, whom cron rows name (`created_by=1`), is assumed to exist.
* Ciphers are terms. A wrong key makes unpadding or decoding fail, or, rarely,
  yields some text (`Garbage`); `Decrypt` offers both. Host, port and the other
  plain fields of a server are left out, and with them the connection test of a
  create, which only decides whether it goes on.
* In `ConfigTransfer` a schedule is its name and server, a user its name and
  address. Of the lookups that PostgreSQL can refuse only those for a name it
  does not take are there; a lost connection to PostgreSQL is left out. The database makes the deletion of a server wait while an open
  import has sent a schedule that refers to it (`Unblocked`).
* Migrations run while no request and no import is open: ALTER TABLE waits for
  them. Ids of servers are used once; an import whose servers find no free id
  waits, which only the bound `Servers` makes happen.
* In `Ldif` a value is told apart by how its lines read: a word, an attribute,
  a name, nothing. A value of two lines has a second line that is any of these.
  An `ldap` exception that is not `LDAPError` does not occur.
* In `Accounts` roles are "admin" and the rest; rate limits, passwords and
  tokens are left out. User ids are never used again.
* Sizes, counts, times and messages are dropped. Counters other than the two
  gauges only grow and are dropped.
* Branches that the foreign keys make unreachable (a job whose backup or server
  is missing) are modelled all the same; the invariants show they are dead.
* The model lets a database statement take effect while another coroutine of
  that worker holds the loop, because it may have been sent before. This gives
  more behaviours than the program, so invariants carry over.

## 3. Properties and runs

Constants of every run are in its `.cfg` and MC module. Budgets give each
fault kind at most one occurrence per behaviour (edits: two in `Edits`).

| Run | Instance | Checks |
|---|---|---|
| `BackupFaults` | 1 server, 3 names, 3 schedules (2 loaded), 1 worker, 1 delete request, 2 backups, seconds 0..1, crash / db / disk / ldap / hang / edit once each | `RowFollowsTask`, `InProgressHasTask`, `ArchiveHasRow`, `GaugesCountJobs`, `HeldInv`, `BackupLifecycle` |
| `RestoreFaults` | 1 schedule, 1 worker, 2 requests, 1 backup, 2 restore jobs, every fault once | `TypeOK`, `CompletedHasFile`, `PlainFileHasCause`, `RestoreRefsComplete`, `PendingJobHeld`, `FileInv`, `RestoreLifecycle` |
| `TwoWorkers` | 2 workers, one list, one schedule, one volume, one crash, one hang, 2 backups, 1 restore job, seconds 0..1 | `ArchiveHasRow`, `AppliedOnce`, `FileInv` |
| `Edits` | 2 servers, 3 names, 2 schedules, 1 worker, 2 edits, 2 backups, 1 restore | `BackupHasServer`, `RestoreRefsComplete`, `ClashNeedsTwoJobs`, `RestoredContent`, `BackupLifecycle` |
| `Progress` | 2 servers, a schedule of each, 1 worker, 2 backups, 1 restore, seconds 0..1, disk and LDAP faults, a hang, `FairSpec` | `BackupSettles`, `RestoreSettles` |
| `Administrators` | 2 users, 2 names, 2 addresses, 2 requests (`MCAccounts`) | `AInv`, `LastAdminLostByRace`, `NoLostUpdate` |
| `LdifRestores` | archives of 2 to 4 entries with one that is not simple, 4 directories before, 2 restores (`MCLdif`) | `LdifTypeOK`, `PlainComesBack`, `CountIsAdded`, `RepeatReaches`, `LdifInv` |
| `Registry` | 2 servers, 2 names, 2 keys, 2 requests, 1 job, 2 imports, 13 files and the last export, 4 operations of which an import is two (`MCConfigTransfer`) | `ConfigTypeOK`, `FlagTellsCipher`, `BindFaithful`, `CountsAreCommitted`, `ImportInHalves`, `ImportComplete`, `ExportCovers`, `PasswordChangesOnPurpose` |
| `SameSecond`, `DeleteWhileRunning`, `NeverRun`, `BinaryLost` | smallest instance each | a statement of the repository, violated (section 5) |

What the less obvious ones say:

* `RowFollowsTask`: the status of a row is the one its coroutine's position
  implies, or the row was deleted; no row has two coroutines.
* `CompletedHasFile`, `ArchiveHasRow`, `PlainFileHasCause` relate the table and
  the directory in both directions, whatever faults happened: each names what
  became of the very backup a file belongs to. A row is COMPLETED and its
  archive there, or a delete is between unlink and commit, took the row, or
  left it (`halfDeleted`) because it was cut off or a restore job refers to it
  (`Referenced`). An archive or a copy in the clear belongs to a coroutine at
  work, or to a row that failed, was deleted, or is `Abandoned`: IN_PROGRESS
  and without its coroutine; restores leave copies in the clear as well
  (`RestoreBegun`). Backups whose dumps met in one file are no exception: their
  archive holds the dump of one of them (`Dumped`), and deleting one takes the
  file of the other, which nothing in the code prevents. Where two workers met
  in the files, a copy in the clear may be anybody's, and the archive is
  accounted for by one of the backups dumped there; everywhere else
  `ArchiveHasRow` says that it has the row of the very dump in it, because the
  event loop is held from dump to commit.
* `ClashNeedsTwoJobs`: dumps meet in a file only if two jobs (two schedules, or
  one on two workers) of one type ran them, within one second, and the server of
  each bears or bore the name in the file. One job of one worker never does,
  however long it takes and whatever is skipped, restarted or edited; two
  servers only after a name passed from one to the other while a webhook was
  under way.
* `FileInv`, `HeldInv`, `LdifInv` are the inductive invariants of section 4: a
  job has one holder (`RestoreInv`, a part of `FileInv`), a backup one stem, a
  held loop one coroutine, and a reader holds what the lines since the last blank
  one say. `IInv` is a part of the first two.
* `RestoreRefsComplete`: `perform_restore` does not repeat the route's check
  and need not: the foreign key that refuses the deletion and the finality of
  COMPLETED keep it true.
* `AppliedOnce`: a restore job reaches its server at most once under crashes
  and several workers. The price is `PendingJobHeld`: an id that was popped is
  lost if the worker dies before IN_PROGRESS, and each fault loses at most one.
* `GaugesCountJobs`: never too low, exact while no row was deleted and no
  database error happened.
* `LastAdminLostByRace`: that an administrator always remains is false, two
  administrators can demote each other at once. The property says how far the
  guards reach: the fatal commit belongs to a request whose own author has
  lost his rights since he was loaded.
* `NoLostUpdate`: only the fields an update asks for change, whatever was
  committed between its SELECT and its UPDATE.
* `BackupLifecycle`, `RestoreLifecycle`: refinement of `JobLifecycle`.
* `RestoredContent`: a restore writes back a dump that went to its backup's
  files: its own, another one of these, or a mixture where two workers met. It
  is a dump of the backup's own server as long as no name has had two servers;
  only the name in the file tells servers apart.
* `FlagTellsCipher`: no code clears the flag and an UPDATE may skip it, and yet
  it always fits the password, because a request that skips the flag loaded it
  TRUE and nothing makes it FALSE. Only a downgrade does, for the rows in `lost`.
* `BindFaithful`: the worker hands the bind the password of the row it read,
  and otherwise it says how it went wrong: another key (none, so an anonymous
  bind, or garbage), or a flag lost in a downgrade (the cipher itself).
* `PasswordChangesOnPurpose`: two updates of one server, one of the name and one
  of the password, never put an old password back.
* `CountsAreCommitted`: the loops count a row when it is added to the session,
  long before the database sees it. A refused row cannot end in a reply of
  success, because the session is unusable after it and the last commit raises.
  A refused *lookup* can, and then its half of the import (the servers, or the
  schedules and users) is counted and rolled back as a whole (`Undone`).
* `ImportInHalves`: an import that fails leaves nothing or its servers. The
  price is that one bad user discards every schedule.
* `ImportComplete`: found, inserted, in `errors`, removed by somebody, undone
  by a refused lookup of another item, or a
  schedule whose server id is unknown here (`skipped`), of which the reply says
  nothing. A schedule whose id belongs to *another* server here is attached to
  it; nothing in the file would allow to notice. Two imports that overlap may
  both add one schedule name, which is not unique; every later import of that name
  is then an error.
* `ExportCovers`: the servers are read first, so a schedule in the file names a
  server in it or one created meanwhile. The file keeps server *ids* only in
  schedules, which is why it need not import into another system.
* `PlainComesBack`: an entry each of whose values is one line comes back exactly,
  whatever the values of its neighbours do to the lines around it, provided its
  parent comes before it and no line break of another value reads like its name.
* `CountIsAdded`: `entries_restored` is the number of entries this restore
  added, or one less, and that only once the connection is lost: the reply that
  went with it. A second one cannot go, because every later add fails at once.
* `BackupSettles`, `RestoreSettles`: what was started or queued ends, unless an
  LDAP server never answers a coroutine of the worker that has it, or, before
  a worker took the job, of every worker (`Hung`). Nothing else stops a loop: a
  coroutine that raises anywhere in the stretch lets go of it.
* `RepeatReaches`: repeating a restore after broken ones reaches at least the
  entries that one undisturbed restore would. It may reach more: an entry whose
  parent came later in the file is accepted the second time.

### Why the bounds are enough

The interesting cases need two coroutines on one name (two schedules or two
workers), a request that overtakes a coroutine (one handler, two to race
deletions or a restore with a deletion; two imports), one fault at any point, two ids in
the list to see order and loss, and two seconds, one to fire in and one in which a job
that was late writes its file. Two names changing hands take two renames, hence
the two edits and the third name of `Edits`. Each run has the actors its properties need; a second of
everything in one run is beyond TLC, and the theorems cover every size for the
properties they state. Permutations of backup ids, job ids, handlers and
workers are symmetries: the specification only compares them. Runs with liveness use none.

Deadlock is not checked. The clock is bounded (`MaxSecond`) and ids are finite,
so the model runs out of work in an ordinary way.

In `Registry` four operations (requests, exports, migrations, restarts, reads by
a job; an import counts twice) suffice to export and import, to let two imports race, or to
set a password, downgrade, upgrade and bind. The files have what can be missing,
wrong or there twice: a server or user that exists, an unknown server id, one
address for two users, an item without a required field, an item that is not an
object. Server ids, names, keys, clients and importers are symmetries. In
`LdifRestores` at most one entry of an archive is not simple, which is enough
for it to spoil a neighbour on either side.

### Fairness

`FairSpec` adds weak fairness of each queue loop and each cron coroutine while
its worker is not `Hung`. A live event loop resumes every coroutine whose await
is over, and these awaits end: the webhook client has a time-out (10 s), and
PostgreSQL, Redis and the file system are taken to answer or to fail. LDAP calls
are not: `ldap_service.py` sets neither a network nor an operation time-out, so
a server that stops answering holds the loop with every coroutine of the worker
(`DumpHangs`, `ApplyHangs`), and the liveness properties say so. Nothing is
assumed of the operator, of API processes, faults, crashes or ticks.
`RestoreSettles` starts at the list: an id whose push failed is in no list and
no code looks for it (section 5). Both are checked without crashes, since no
code picks up a row whose worker died, and without database errors, which leave
a row as a crash does.

## 4. Proofs

`LdapGuardProofs` proves, for every set of workers, schedules, servers,
handlers, ids and every budget:

| Theorem | Statement |
|---|---|
| `Invariance` | `Spec => []IInv` |
| `TypeCorrect` | `Spec => []TypeOK` |
| `RowsFollowTasks` | `Spec => []RowFollowsTask` |
| `RestoreRefsStay` | `Spec => []RestoreRefsComplete` |
| `BackupsKeepServers` | `Spec => []BackupHasServer` |
| `BackupRefinement` | `Spec => BackupLifecycle`: the backups table implements `JobLifecycle` |

Assumptions: `StoreAssumption` (schedules have a server and a type, the clock
bound and budgets are numbers, `None` is no id), `PathAssumption` (`None` is no
file name) and `SchedulingAssumption` (loaded schedules are schedules).

The safety properties are not inductive alone, so `IInv` (in `LdapGuard`)
strengthens them:

* `TaskShape`, `RestoreShape`: a coroutine has a backup exactly from its insert
  on, a path while it works on files; ids in requests, list and loops are those
  of rows that exist. Without this a step could update row `None`, and types
  would not be preserved.
* `TaskServer`: the row of a coroutine names its schedule's server. Together
  with `BackupHasServer` it shows that the branch "LDAP server not found" of
  `perform_backup` never runs on a live row, which would be a move from PENDING
  to FAILED that `JobLifecycle` forbids.
* `CompletedHasPath`, `CreationChecked`: between the check of a restore request
  and its insert a COMPLETED row can only have been deleted, and then the
  foreign key refuses the insert.

The argument: types first, per group of actions (`TaskStepType` ...
`RestoreStepType`). Then two lemmas say all that the other conjuncts need to
know of a step: `TaskMoves` (one coroutine and its own row change) and
`RowsKeep` (rows that are COMPLETED or deleted stay). `TaskStepInv`,
`OperatorInv`, `BackupApiInv`, `RestoreApiInv`, `RestoreStepInv`, `CrashInv`
apply them, one step per action; `NextInv` combines them. `BackupStep` maps
each step to an edge of `JobLifecycle`, a deletion or a stutter. TLC checks
`IInv` as a part of `FileInv` and `HeldInv`.

`AccountsProofs` proves, for any users and any number of requests,
`GuardsHold` (`AccountsSpec => []AInv`), `AdminSurvives`
(`AccountsSpec => LastAdminLostByRace`) and `EditsKept`
(`AccountsSpec => NoLostUpdate`), from `AccountsAssumption` (`None` is no id,
name or address). `AInv` adds to the types what a guard leaves in a request
that waits for the database: an administrator who edits himself asks neither
to be disabled nor for another role, and is loaded as an active administrator,
so the commit leaves both fields alone. `OneCall` reduces each step to the one
request it changes; `AuthorSurvivesUpdate` and `AuthorSurvivesDelete` are the
heart of `AdminSurvives`.

`ServerRegistryProofs` proves for any servers, names, secrets, keys, clients,
jobs and bound, from `RegistryAssumption` (the marker values are none of the
data):

| Theorem | Statement |
|---|---|
| `RegistryInvHolds` | `RegistrySpec => []RegistryInv` |
| `FlagsHold` | `RegistrySpec => []FlagTellsCipher` |
| `BindsHold` | `RegistrySpec => []BindFaithful` |
| `PasswordsStay` | `RegistrySpec => PasswordChangesOnPurpose` |

`RegistryInv` adds to the types what each step relies on. `Coherent`: a row,
also as a job read it, has the flag exactly if its password is enciphered,
unless a downgrade took the flag, and then the flag is FALSE. `CallsFit`: a flag that an
update loaded TRUE is still TRUE at its commit. This is the conjunct that
makes an UPDATE that skips the flag harmless; it holds because only a
downgrade clears flags and a downgrade waits for requests.

`ConfigTransferProofs` proves for `TransferSpec`, for any files and any number
of imports, from `RegistryAssumption` and `ConfigAssumption` (`Files` are sets
of items):

| Theorem | Statement |
|---|---|
| `ConfigInvHolds` | `TransferSpec => []ConfigInv` |
| `CountsHold`, `HalvesHold`, `CompleteHolds`, `ExportsCover` | `[]CountsAreCommitted`, `[]ImportInHalves`, `[]ImportComplete`, `[]ExportCovers` |
| `FlagsHoldHere`, `BindsHoldHere`, `PasswordsStayHere` | the properties of the registry, with imports running |

`ConfigInv` is `RegistryInv` and what a session knows: `SessionFits` (what it
counted is committed, held, about to be sent, or was undone by a refused lookup,
and then the whole half of the import it belongs to; rows of the wrong kind are
in no section), `Accounted` (an item it is done with is an error, was skipped,
or its name is in a table, in the session, undone, or was removed by somebody), `References`
(schedules, also those sent and not committed, name servers that exist: without it
the commit at the end could leave a schedule without a server) and `ExportFits`
(after the servers were read, each live server was listed or was free when the export
began). The steps of the registry keep their part by the lemmas of
`ServerRegistryProofs`; what is proved anew is that they leave sessions and
references alone, for which `Unblocked` is needed.

`ConfigTypeOK` (`TransferTypes`) follows from the same invariant.

### Restore jobs: `RestoreProofs`

| Theorem | Statement |
|---|---|
| `RestoreInvariance` | `Spec => []RestoreInv` |
| `JobAppliedOnce` | `Spec => []AppliedOnce` |
| `PendingJobsHeld` | `Spec => []PendingJobHeld`: among the rest, no more PENDING jobs are lost than there were faults |
| `LostForever` | `Spec => [][Lost \subseteq Lost']_vars`: a lost job is never picked up again |
| `RestoreRefinement` | `Spec => RestoreLifecycle`: the `restore_jobs` table implements `JobLifecycle` |

That a job is applied once is not a matter of `perform_restore`, which would run
a COMPLETED job again; it holds because an id is in one place at a time. `HeldOnce`
says so of the three places (a request before its RPUSH, the list, a loop), `HeldWhile`
when there is an id at all, `JobFollowsHolder` which status the holder implies
and `AppliedFollowsLoop` that the only step that changes the LDAP server lies
between two positions that are passed once. Fresh ids come from the INSERT, LPOP
removes what it returns, and a crash drops an id without putting it anywhere,
which is why an id can be lost but never be there twice. How many are lost is
counted by `LossInv`: only a refused push, an aborted request, a crash or a
database error takes an id from its holder without changing the row, and each
takes one, as a request and a loop hold one id each; `Lost` stays finite with it
(`LossSteps`, `LossStays`). And it only grows, because nothing but the route that
inserted a job ever pushes its id.

### Coroutines and gauges: `CoroutineProofs`

`RowsInProgressHaveTasks` and `GaugesCount` (both `Spec => []...`). `GaugeInv` adds to the property that
the coroutines a gauge counts are finitely many, since the set of schedules need
not be finite: each step adds or removes at most one (`TaskOthers`), and the
cardinality follows it.

### Files: `FileProofs`

| Theorem | Statement |
|---|---|
| `FileInvariance` | `Spec => []FileInv` |
| `CompletedRowsHaveFiles` | `Spec => []CompletedHasFile` |
| `PlainFilesHaveCauses` | `Spec => []PlainFileHasCause` |
| `RestoresReadTheirBackup` | `Spec => []RestoredContent` |
| `HeldInvariance` | `Spec => []HeldInv` |
| `ArchivesHaveRows` | `Spec => []ArchiveHasRow` |
| `ClashesNeedTwoJobs` | `Spec => []ClashNeedsTwoJobs` |

All of them hold for any number of workers. What two workers that meet in a stem
may do to each other's files is a step of the model (`Torn`), so none of these
theorems takes a file step of two workers for atomic: the properties either
hold of torn files too (`CompletedHasFile`, `RestoredContent`,
`ClashNeedsTwoJobs`), say what remains of them (`ArchiveHasRow`), or are about
the stems where no two workers met (`PlainFileHasCause`).

The question behind them is whose dumps a file may hold.
`Uses(b, p)` collects whatever ties backup `b` to stem `p`: its row, its
coroutine, a file with its dump, a request about to unlink. `OwnerInv` says that
a backup uses no stem before its dump (`Fresh`), afterwards only the one that
`dumps` has for it (`OneStem`), that a coroutine took a name that its server bore
(`NameBorne`), and what the dump says of the job that ran it (`OneDump`): its
server is among the holders of the name, and in the second of the name the job
is neither due nor before another dump. The last is `max_instances` and the
clock, which only grows; it makes `ClashNeedsTwoJobs` inductive, since a job that
reaches a dump has made no other one in this second (`OwnDumpStep`).

From there `DumpMoves` follows a dump from file to file: where no other dump went to
the stem and no other worker worked on it, each step of a job finds what it
looks for. `ArchiveThere` extends `CompletedHasFile` to the position before the
commit: `Size` has seen an archive, and `ArchiveStays` shows of every step that
what keeps `ArchiveKept` true goes over into something that does. Compression and encryption, torn or
not, overwrite an archive with a dump of the same stem and never remove it. The
one hard case is a delete request that ends after its
unlink: `PathsAgree` ties it to the one row it selected, which then is deleted,
or `LeaveRows` records the stem. `PlainGoes` narrows `PlainFileHasCause` for the plain
LDIF: it must be gone once its backup is encrypting, or the compressed copy would
outlive its cause. `RestoredContent` follows from `OneStem`, from `OneDump` and
from `RestoreRefsComplete`, which keeps the row whose path the restore read.

Crashes and database errors need no exception because of two lemmas.
`InProgressGoes`: a coroutine whose row is IN_PROGRESS stays, goes on, or leaves its
row abandoned; that no second coroutine has the row is `RowFollowsTask`.
`AbandonedStays`: nobody takes up an abandoned row, so whatever files it left
keep their account until the row is deleted.

`ArchiveHasRow` needs more, since it claims the row of the very dump in an
archive. It rests on `HeldInv`: of the coroutines of a worker at most one is
between dump and size, with the event loop held and its stem in `held`
(`HeldByOne`); two workers that hold one stem have it in `met`
(`MeetingsNoted`); so outside `met` nobody else works on the files of a stretch
(`StretchAlone`) and a coroutine encrypts what it has dumped itself (`OwnDump`),
whoever wrote a file of that name before. In a stem in `met` it is the coroutine that
encrypts, not the dump encrypted, that accounts for the archive
(`ArchiveWritten`), and `AccountStays` and `EndedStays` carry that to the
commit, the failure, the crash or the deletion.

### The archive: `LdifProofs`

| Theorem | Statement |
|---|---|
| `LdifInvariance` | `LdifSpec => []LdifInv` |
| `LdifTypes` | `LdifSpec => []LdifTypeOK` |
| `PlainEntriesComeBack` | `LdifSpec => []PlainComesBack` |
| `CountsAdded` | `LdifSpec => []CountIsAdded` |
| `RepeatsReach` | `LdifSpec => []RepeatReaches` |

for any names, any tree of them, archives of any length with values of any
number of lines, and any number of restores, from `LdifAssumption` (what is below
a name is a tree, a directory is finite, the marker values are no names) and
`SourcesAssumption` (`IsEntry`, see section 2).

The writer and the reference concatenate and add over sequences, so facts about
them need induction over data. The library's induction theorems take an operator
and cannot be used; that every set of numbers has a least element needs none
(`LeastNumber`, from the well-foundedness of `<`), and a counterexample of least
length does the rest. `SolutionExists` and `SolutionUnique` show in this way that
the recursive functions have the values their equations say; `EntryShape`,
`PartGrows` and `ArchiveShape` locate each entry's lines in the file.

`LdifInv` is what the reader carries from line to line. `ReaderFollows`: after
a blank line it holds nothing; inside a plain entry it holds its name and the values
so far; the name of an entry that no other line imitates is held nowhere else.
The first matters: an attribute line that a line break forged is thrown away at
the next blank line and cannot reach a neighbour. `DirectoryFollows`: what was
there stays, what was added of such an entry is its content, whatever restore added it, and with the
connection up every entry that hangs together with its ancestors is there
once its lines are passed. `CountFollows` relates counter and directory: they go up together, and differ
by one from the step on that loses a reply, which is also the step that takes
the connection down.
`BlockFollows`: the reader's state is that of the block it is in, up to the order of the
values, and the directory is not behind `Reference`; an entry may be refused
there and accepted here or the other way round, but whatever `Reference` has
gained, the directory has as well.

### Only model-checked

Every invariant, action property and refinement that a passing run checks has
a theorem. Liveness under fairness (`BackupSettles`, `RestoreSettles`) is out
of the prover's reach, as is ENABLED, and stays with TLC.

## 5. What the code does otherwise than its texts say

* `SameSecond`: "Generate a unique backup filename"
  (`api/services/backup_service.py:79`); two schedules of one server and type
  that dump in one second write one file, and both rows name it.
* `DeleteWhileRunning`: "Implemented backup file deletion from disk"
  (`CHANGELOG.md:16`); a backup deleted while it runs leaves its archive.
* `NeverRun`: "Schedule backup task in background"
  (`api/routes/backups.py:108`); nothing starts a backup created by a route.
* `BinaryLost`: "Handle binary data", "Base64 encode binary data"
  (`api/services/ldap_service.py:82`, `:86`); the reader splits `attr:: text` at
  its first `": "`, so the attribute is `attr:`, the add is refused, and the entry is
  missing after the restore.

Seen in passing runs, where a property states how far the code gets:

* Deleting a running backup leaves the gauge of active backups too high until
  the worker restarts (`GaugesCountJobs` excepts it).
* A restore job whose push to Redis failed stays PENDING: the comment
  "can be processed later" (`api/routes/restores.py:92`) names no code, and there
  is none (`PendingJobHeld` counts it as lost, `LostForever` proves it stays so).
* After two renames in the time of one webhook, a restore of one server's
  backup can write back the dump of another server that was made in the same
  second (`RestoredContent` and `ClashNeedsTwoJobs` say when).
* An import reports success with counts of rows that are not there: a name that
  PostgreSQL refuses in a lookup aborts the transaction, the `except` block
  swallows the error, and the COMMIT is a ROLLBACK without an error
  (`CountsAreCommitted` and `ImportComplete` except exactly these rows).
* `entries_restored` can be one too low: an add whose reply was lost is counted
  as failed (`CountIsAdded`).
* An LDAP server that stops answering stops a worker: its queue and all its
  schedules (`BackupSettles` and `RestoreSettles` except it).
* An import reports success while it skipped every schedule whose server id
  does not exist (`ImportComplete`), and the comment "so we have IDs for
  scheduled backups" (`api/routes/config.py:124`) describes no mapping of ids.

## 6. Not modelled, and the plan

Order of the plan; all of it is done.

1. `GuardStore`, `Scheduling`, `BackupTask`, `BackupRoutes`: backups, first
   because everything else refers to their rows and files.
2. `RestoreJobs`, `LdapGuard`, `JobLifecycle`: restores, the composition, the
   abstract specification.
3. `LdapGuardProofs`: `IInv` and what follows from it.
4. `Accounts`, `AccountsProofs`: who may change whom.
5. `ServerRegistry`, `ServerRegistryProofs`: passwords, flags and keys.
6. `ConfigTransfer`, `ConfigTransferProofs`: import and export beside 5.
7. `Ldif`: the archive's text.
8. `LdapGuardInvariants`, `RestoreProofs`, `CoroutineProofs`, `FileProofs`: one
   holder of a job, one stem of a backup, one coroutine that holds a loop.
9. `LdifProofs`: the round trip for archives of any length.
10. `dumps`, `halfDeleted`: file properties about what happened to a backup
    instead of what may happen to any, and so without exceptions for names
    that collide or for behaviours with a fault.
11. `names`, `held` and `met`, `Torn`: renamed servers, and workers that
    interrupt each other's file steps; LDAP servers that never answer; lost
    replies in `Ldif`; refused lookups in `ConfigTransfer`.

Not modelled:

* Settings, API keys, audit logs: one lookup and one write of a row nothing
  else reads. Keys are checked by no route, settings are read by no service, no
  code writes audit logs; two inserts of one setting are settled by the
  unique key.
* Accounts together with backups: cron rows name user 1, who can be deleted
  while no row names him, and each later job then fails on its insert. That
  failure is `DbFault`; the product of both models is beyond TLC.
* `process_backup_queue` (its list is filled by no code), `cleanup_old_backups`,
  `backup_to_json`, `get_modified_entries` (no caller).
* Migrations 001 and 002: their constraints are in the modules of their tables.
* Start-up and wiring, the web UI (a client of the routes), manifests.
