--------------------------- MODULE ServerRegistry ---------------------------
(* The table of LDAP servers with the bind password of each: the routes of  *)
(* ldap_servers.py, cut at their statements, the encryption of              *)
(* encryption.py under the key of each process, migration 003, and what the *)
(* worker's jobs read from the table and bind with.                         *)
EXTENDS Naturals

CONSTANTS
    Servers,    \* primary keys, never used twice
    Names,      \* names of servers
    Secrets,    \* bind passwords
    Keys,       \* encryption keys: the 32 bytes that AESEncryption keeps
    Clients,    \* requests to the API that may be in flight at once
    Jobs,       \* coroutines of the worker that talk to a server
    Schedules,  \* names of schedules; not unique in the table
    Garbage,    \* a text that came out of a wrong key and still unpads
    Unset,      \* a field that an update does not give
    MaxOperations,  \* bound on the operations begun
    None

ASSUME RegistryAssumption ==
    /\ None \notin Names \cup Secrets \cup Keys
    /\ Unset \notin Names \cup Secrets \cup {None}
    /\ Garbage \notin Secrets \cup {None}
    /\ MaxOperations \in Nat

VARIABLES
    rows,       \* the table ldap_servers
    column,     \* whether it has the column password_encrypted
    lost,       \* servers whose flag was dropped with that column
    schedules,  \* the table scheduled_backups
    keys,       \* the encryption key each process was started with
    calls,      \* the request each client waits for
    jobs,       \* the jobs of the worker
    begun       \* operations begun so far

dataVars == <<rows, column, lost, schedules, keys, calls, jobs>>
registryVars == <<dataVars, begun>>

\* What a password column, or a bind, may hold: a text in clear (key None) or
\* enciphered.  The empty text counts as none.
Text       == [text : Secrets \cup {None, Garbage}, key : Keys \cup {None}]
Clear(p)     == [text |-> p, key |-> None]
Cipher(p, k) == [text |-> p, key |-> k]
NoPassword   == Clear(None)

Row   == [state : {"free", "live", "gone"}, name : Names \cup {None},
          secret : Text, flag : BOOLEAN]
NoRow == [state |-> "free", name |-> None, secret |-> NoPassword, flag |-> FALSE]

Call == [op : {"idle", "create", "update", "delete"}, id : Servers \cup {None},
         name : Names \cup {Unset}, secret : Secrets \cup {None, Unset}, loaded : Row]
NoCall == [op |-> "idle", id |-> None, name |-> Unset, secret |-> Unset, loaded |-> NoRow]

Job   == [state : {"idle", "loaded", "bound"}, row : Row, unflagged : BOOLEAN, bound : Text]
NoJob == [state |-> "idle", row |-> NoRow, unflagged |-> FALSE, bound |-> NoPassword]

Processes == {"api", "worker"}

RegistryTypeOK ==
    /\ rows \in [Servers -> Row]
    /\ column \in BOOLEAN
    /\ lost \subseteq Servers
    /\ schedules \subseteq [name : Schedules, server : Servers]
    /\ keys \in [Processes -> Keys]
    /\ calls \in [Clients -> Call]
    /\ jobs \in [Jobs -> Job]
    /\ begun \in 0..MaxOperations

Live(s)      == rows[s].state = "live"
NameTaken(n) == \E s \in Servers : Live(s) /\ rows[s].name = n

\* A table that upgrade has just left: rows with passwords in clear.
RegistryInit ==
    /\ rows \in [Servers -> {NoRow} \cup [state : {"live"}, name : Names,
                                secret : {Clear(p) : p \in Secrets \cup {None}}, flag : {FALSE}]]
    /\ \A s, t \in Servers : Live(s) /\ Live(t) /\ rows[s].name = rows[t].name => s = t
    /\ column = TRUE
    /\ lost = {}
    /\ schedules = {}
    /\ keys \in [Processes -> Keys]
    /\ calls = [c \in Clients |-> NoCall]
    /\ jobs = [j \in Jobs |-> NoJob]
    /\ begun = 0

-----------------------------------------------------------------------------
(* The routes *)

Idle(c)   == calls[c].op = "idle"
Doing(c, op) == calls[c].op = op
Finish(c) == calls' = [calls EXCEPT ![c] = NoCall]

\* create_ldap_server up to the connection test.
CreateSelect(c, n, p) ==
    /\ column /\ Idle(c) /\ ~ NameTaken(n)
    /\ calls' = [calls EXCEPT ![c] =
                    [NoCall EXCEPT !.op = "create", !.name = n, !.secret = p]]
    /\ UNCHANGED <<rows, column, lost, schedules, keys, jobs>>

Encrypted(p) == IF p = None THEN NoPassword ELSE Cipher(p, keys["api"])

\* Its INSERT; the name may have been taken in the meantime.
CreateInsert(c) ==
    LET call == calls[c] IN
    /\ Doing(c, "create")
    /\ Finish(c)
    /\ IF NameTaken(call.name) THEN UNCHANGED rows
       ELSE \E s \in Servers :
              /\ rows[s].state = "free"
              /\ rows' = [rows EXCEPT ![s] =
                    [state |-> "live", name |-> call.name,
                     secret |-> Encrypted(call.secret), flag |-> call.secret # None]]
    /\ UNCHANGED <<column, lost, schedules, keys, jobs>>

\* update_ldap_server loads the row; n and p are the fields that are given.
UpdateSelect(c, s, n, p) ==
    /\ column /\ Idle(c) /\ Live(s)
    /\ calls' = [calls EXCEPT ![c] =
                    [op |-> "update", id |-> s, name |-> n, secret |-> p, loaded |-> rows[s]]]
    /\ UNCHANGED <<rows, column, lost, schedules, keys, jobs>>

\* Slip: the UPDATE writes the whole row as it was loaded.
WrittenSlip(row, call) ==
    [call.loaded EXCEPT
        !.name   = IF call.name = Unset THEN @ ELSE call.name,
        !.secret = IF call.secret = Unset THEN @ ELSE Encrypted(call.secret),
        !.flag   = @ \/ call.secret \notin {Unset, None}]

\* Slip: the flag is not set with the password.
WrittenUnflagged(row, call) ==
    [row EXCEPT
        !.name   = IF call.name \in {Unset, call.loaded.name} THEN @ ELSE call.name,
        !.secret = IF call.secret = Unset THEN @
                   ELSE IF call.secret = None /\ call.loaded.secret = NoPassword THEN @
                   ELSE Encrypted(call.secret)]

\* The UPDATE writes the fields whose values differ from those loaded: a
\* password always does (its initialization vector is random), a flag that was
\* loaded TRUE does not, and nothing clears a flag.
Written(row, call) ==
    [row EXCEPT
        !.name   = IF call.name \in {Unset, call.loaded.name} THEN @ ELSE call.name,
        !.secret = IF call.secret = Unset THEN @
                   ELSE IF call.secret = None /\ call.loaded.secret = NoPassword THEN @
                   ELSE Encrypted(call.secret),
        !.flag   = @ \/ (call.secret \notin {Unset, None} /\ ~ call.loaded.flag)]

\* The name may be another server's by now, and the row may be gone.
UpdateFails(call) ==
    \/ ~ Live(call.id)
    \/ \E s \in Servers \ {call.id} : Live(s) /\ rows[s].name = Written(rows[call.id], call).name

UpdateCommit(c) ==
    LET call == calls[c] IN
    /\ Doing(c, "update")
    /\ Finish(c)
    /\ IF UpdateFails(call) THEN UNCHANGED <<rows, lost>>
       ELSE /\ rows' = [rows EXCEPT ![call.id] = Written(@, call)]
            /\ lost' = IF rows'[call.id].flag THEN lost \ {call.id} ELSE lost
    /\ UNCHANGED <<column, schedules, keys, jobs>>

DeleteSelect(c, s) ==
    /\ column /\ Idle(c) /\ Live(s)
    /\ calls' = [calls EXCEPT ![c] =
                    [NoCall EXCEPT !.op = "delete", !.id = s, !.loaded = rows[s]]]
    /\ UNCHANGED <<rows, column, lost, schedules, keys, jobs>>

\* A schedule that names the server makes the DELETE fail (so does a backup or
\* a restore job, see LdapGuard); a row that is gone does not.
DeleteCommit(c) ==
    LET s == calls[c].id IN
    /\ Doing(c, "delete")
    /\ Finish(c)
    /\ IF \E x \in schedules : x.server = s THEN UNCHANGED <<rows, lost>>
       ELSE /\ rows' = [rows EXCEPT ![s] = [NoRow EXCEPT !.state = "gone"]]
            /\ lost' = lost \ {s}
    /\ UNCHANGED <<column, schedules, keys, jobs>>

\* create_scheduled_backup and delete_scheduled_backup.
AddSchedule(n, s) ==
    /\ column /\ Live(s)
    /\ schedules' = schedules \cup {[name |-> n, server |-> s]}
    /\ UNCHANGED <<rows, column, lost, keys, calls, jobs>>

RemoveSchedule(x) ==
    /\ x \in schedules
    /\ schedules' = schedules \ {x}
    /\ UNCHANGED <<rows, column, lost, keys, calls, jobs>>

-----------------------------------------------------------------------------
(* Deployment *)

\* The table cannot be altered while a request has read it and not ended.
Quiet == \A c \in Clients : Idle(c)

Downgrade ==
    /\ column /\ Quiet
    /\ column' = FALSE
    /\ lost' = lost \cup {s \in Servers : rows[s].flag}
    /\ rows' = [s \in Servers |-> [rows[s] EXCEPT !.flag = FALSE]]
    /\ UNCHANGED <<schedules, keys, calls, jobs>>

Upgrade ==
    /\ ~ column
    /\ column' = TRUE
    /\ UNCHANGED <<rows, lost, schedules, keys, calls, jobs>>

\* ENCRYPTION_KEY is read when a process starts; nothing enciphers the
\* passwords anew.
RestartApi(k) ==
    /\ keys' = [keys EXCEPT !["api"] = k]
    /\ calls' = [c \in Clients |-> NoCall]
    /\ UNCHANGED <<rows, column, lost, schedules, jobs>>

RestartWorker(k) ==
    /\ keys' = [keys EXCEPT !["worker"] = k]
    /\ jobs' = [j \in Jobs |-> NoJob]
    /\ UNCHANGED <<rows, column, lost, schedules, calls>>

-----------------------------------------------------------------------------
(* The worker *)

\* Slip: what cannot be deciphered is used as it is.
DecryptSlip(row, k) ==
    IF row.flag /\ row.secret.key = k THEN {Clear(row.secret.text)} ELSE {row.secret}

\* decrypt_ldap_password: as it is without the flag; None when deciphering or
\* unpadding fails, which a wrong key does not always make it do.
Decrypt(row, k) ==
    IF row.secret = NoPassword \/ ~ row.flag THEN {row.secret}
    ELSE IF row.secret.key = k THEN {Clear(row.secret.text)}
    ELSE {NoPassword, Clear(Garbage)}

\* perform_backup and perform_restore read the server's row ...
JobRead(j, s) ==
    /\ column /\ Live(s)
    /\ jobs[j].state # "loaded"
    /\ jobs' = [jobs EXCEPT ![j] = [NoJob EXCEPT !.state = "loaded", !.row = rows[s],
                                                 !.unflagged = s \in lost]]
    /\ UNCHANGED <<rows, column, lost, schedules, keys, calls>>

\* ... and bind later, after the notification; without a password the bind is
\* anonymous.
JobBind(j) ==
    /\ jobs[j].state = "loaded"
    /\ \E v \in Decrypt(jobs[j].row, keys["worker"]) :
          jobs' = [jobs EXCEPT ![j].state = "bound", ![j].bound = v]
    /\ UNCHANGED <<rows, column, lost, schedules, keys, calls>>

-----------------------------------------------------------------------------
\* What somebody begins, and what goes on by itself.
Request ==
    \/ \E c \in Clients, n \in Names, p \in Secrets \cup {None} : CreateSelect(c, n, p)
    \/ \E c \in Clients, s \in Servers, n \in Names \cup {Unset},
          p \in Secrets \cup {None, Unset} : UpdateSelect(c, s, n, p)
    \/ \E c \in Clients, s \in Servers : DeleteSelect(c, s)
    \/ \E n \in Schedules, s \in Servers : AddSchedule(n, s)
    \/ \E x \in schedules : RemoveSchedule(x)
    \/ \E j \in Jobs, s \in Servers : JobRead(j, s)

Deploy == Downgrade \/ Upgrade \/ \E k \in Keys : RestartWorker(k)
Reload == \E k \in Keys : RestartApi(k)

Continue ==
    \/ \E c \in Clients : CreateInsert(c) \/ UpdateCommit(c) \/ DeleteCommit(c)
    \/ \E j \in Jobs : JobBind(j)

Begin == begun < MaxOperations /\ begun' = begun + 1

RegistryNext == \/ (Request \/ Deploy \/ Reload) /\ Begin
                \/ Continue /\ UNCHANGED begun
RegistrySpec == RegistryInit /\ [][RegistryNext]_registryVars

-----------------------------------------------------------------------------
(* What is promised *)

\* The flag of a row says whether its password is enciphered, whatever
\* overlaps: an update that loaded the row before another one encrypted its
\* password, a password that is cleared, restarts under other keys.  Only a
\* downgrade, which drops the flags and keeps the passwords, breaks it, for the
\* servers it found encrypted, until their password is saved again.
FlagTellsCipher == column => \A s \in Servers \ lost :
    Live(s) /\ rows[s].secret # NoPassword => (rows[s].flag <=> rows[s].secret.key # None)

\* A job binds with the password that was saved when it read the row, whatever
\* happens to the row after that; it binds with none, or with garbage, only
\* when the password was saved under another key than the worker's, and with
\* the enciphered text only when the flag was lost in a downgrade.
BindFaithful == \A j \in Jobs :
    LET job == jobs[j] IN
    job.state = "bound" =>
        \/ job.bound = Clear(job.row.secret.text)
        \/ /\ job.row.secret.key \notin {None, keys["worker"]}
           /\ job.bound \in {NoPassword, Clear(Garbage)}
        \/ job.unflagged /\ job.bound = job.row.secret

\* The password of a server changes only by the request that gives one, is then
\* that password under the API's key, and is never put back by a request that
\* loaded the row earlier to change something else.
PasswordStays ==
    \A s \in Servers : Live(s) /\ Live(s)' /\ rows'[s].secret # rows[s].secret =>
        \E c \in Clients :
            /\ Doing(c, "update") /\ calls[c].id = s /\ calls[c].secret # Unset
            /\ rows'[s].secret = Encrypted(calls[c].secret)
PasswordChangesOnPurpose == [][PasswordStays]_registryVars

\* The inductive strengthening: of a row, in the table or as a job read it,
\* whose flag was lost or not; and of the requests that loaded one.
Coherent(row, unflagged) ==
    /\ unflagged => ~ row.flag
    /\ ~ unflagged /\ row.secret # NoPassword => (row.flag <=> row.secret.key # None)

CallsFit == \A c \in Clients : LET call == calls[c] IN
    /\ call.op # "idle" => column
    /\ call.op = "create" => call.name \in Names /\ call.secret # Unset
    /\ call.op \in {"update", "delete"} =>
           call.id \in Servers /\ rows[call.id].state # "free"
    /\ call.op = "update" /\ call.loaded.flag /\ Live(call.id) => rows[call.id].flag

RegistryInv ==
    /\ RegistryTypeOK
    /\ \A s \in Servers :
           /\ Coherent(rows[s], s \in lost)
           /\ rows[s].state = "free" => s \notin lost /\ ~ rows[s].flag
    /\ CallsFit
    /\ \A j \in Jobs : Coherent(jobs[j].row, jobs[j].unflagged)
    /\ BindFaithful
=============================================================================
