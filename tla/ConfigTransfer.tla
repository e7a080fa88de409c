--------------------------- MODULE ConfigTransfer ---------------------------
(* Export and import of the configuration (config.py) beside the requests   *)
(* of ServerRegistry and those that add and remove users.  An import looks  *)
(* each item of its file up, adds what it does not find, and commits twice: *)
(* after the servers and at the end.                                        *)
EXTENDS ServerRegistry, FiniteSets

CONSTANTS
    Users,      \* user names
    Emails,     \* e-mail addresses
    Importers,  \* import requests that may be in flight at once
    Files       \* files from other systems

VARIABLES
    accounts,   \* the table users
    exported,   \* the file of the last export
    export,     \* the export request
    imports     \* the import requests, one session each

configVars == <<accounts, exported, export, imports>>
transferVars == <<registryVars, configVars>>

\* A row, or an item of a file.  key is the e-mail address of a user, the
\* server id of a schedule.  A bad item lacks a required field, which the
\* INSERT finds out; an odd one is not an object, and .get fails; a refused one
\* has a name that PostgreSQL does not take, as one with a NUL character.
Thing(kind, name, key, quality) ==
    [kind |-> kind, name |-> name, key |-> key, quality |-> quality]
Good(kind, name, key) == Thing(kind, name, key, "good")

Things ==
    LET Kind(kind, name, key) == [kind : {kind}, name : name, key : key,
                                  quality : {"good", "bad", "odd", "refused"}]
    IN Kind("server", Names, {None}) \cup Kind("schedule", Schedules, Servers)
         \cup Kind("user", Users, Emails)

Sections == <<"server", "schedule", "user">>
Of(kind, things) == {x \in things : x.kind = kind}
Label(x) == <<x.kind, x.name>>

ASSUME ConfigAssumption == Files \subseteq SUBSET Things /\ None \notin Things

\* The three tables as one set of rows.
Table == {Good("server", rows[s].name, None) : s \in {t \in Servers : Live(t)}}
            \cup {Good("schedule", x.name, x.server) : x \in schedules}
            \cup accounts
Present == {Label(x) : x \in Table}

\* section is the list being imported, 0 before and 4 after all; counted is what
\* the reply counts; held are the rows sent and not committed; gone is what
\* others removed since the import began.
Session == [section : 0..4, file : SUBSET Things, todo : SUBSET Things,
            pending : Things \cup {None}, held : SUBSET Things, counted : SUBSET Things,
            committed : SUBSET Things, errors : SUBSET Things, skipped : SUBSET Things,
            gone : SUBSET {Label(x) : x \in Things}, reply : {"none", "ok", "error"}]
NoSession == [section |-> 0, file |-> {}, todo |-> {}, pending |-> None, held |-> {},
              counted |-> {}, committed |-> {}, errors |-> {}, skipped |-> {},
              gone |-> {}, reply |-> "none"]
Exporting == [step : 0..3, read : SUBSET Things, listed : SUBSET Servers,
              unborn : SUBSET Servers]
NoExport  == [step |-> 0, read |-> {}, listed |-> {}, unborn |-> {}]

Open(i) == imports[i].section \in 1..3

ConfigInit == /\ RegistryInit
              /\ accounts = {}
              /\ exported = {}
              /\ export = NoExport
              /\ imports = [i \in Importers |-> NoSession]

-----------------------------------------------------------------------------
(* export_configuration: three queries, each of what is there at its time *)

\* Slip: the schedules are read before the servers.
ExportOrderSlip == <<"schedule", "server", "user">>
ExportOrder == Sections

ExportBegin ==
    /\ column /\ export.step = 0
    /\ export' = [NoExport EXCEPT !.step = 1,
                                  !.unborn = {s \in Servers : rows[s].state = "free"}]
    /\ UNCHANGED <<dataVars, accounts, exported, imports>>

\* The last query is followed by the reply, the file.
ExportQuery ==
    LET kind == ExportOrder[export.step]
        read == export.read \cup Of(kind, Table)
    IN /\ export.step \in 1..3
       /\ export' = [export EXCEPT
              !.step = (@ + 1) % 4, !.read = read,
              !.listed = IF kind = "server" THEN {s \in Servers : Live(s)} ELSE @]
       /\ exported' = IF export.step = 3 THEN read ELSE exported
       /\ UNCHANGED <<registryVars, accounts, imports>>

-----------------------------------------------------------------------------
(* import_configuration *)

Update(i, ses) == imports' = [imports EXCEPT ![i] = ses]

ImportBegin(i, file) ==
    /\ column /\ ~ Open(i)
    /\ Update(i, [NoSession EXCEPT !.section = 1, !.file = file, !.todo = Of("server", file)])
    /\ UNCHANGED <<dataVars, accounts, exported, export>>

\* Slip: a user is looked up by e-mail address.
FoundSlip(ses, x) == {r \in Table \cup ses.held : r.kind = x.kind /\
                         IF x.kind = "user" THEN r.key = x.key ELSE r.name = x.name}
Found(ses, x) == {r \in Table \cup ses.held : Label(r) = Label(x)}

\* A lookup that the database refused aborted the transaction that items of this
\* kind share: the servers have the first, schedules and users the second.
Aborted(ses, kind) == \E e \in ses.errors :
    e.quality = "refused" /\ (e.kind = "server" <=> kind = "server")

\* What was counted and rolled back with such a transaction.
Undone(ses) == {x \in ses.counted : Aborted(ses, x.kind)}

\* One pass of a loop.  A schedule whose server does not exist is passed over
\* without a word; two schedules of one name make scalar_one_or_none fail.  The
\* except block swallows a refused lookup: no flush failed, so the session stays
\* usable, but PostgreSQL has dropped what the transaction sent, refuses each
\* later statement of it, and takes its COMMIT for a ROLLBACK without an error.
LookedUp(ses, x) ==
    LET rest  == [ses EXCEPT !.todo = @ \ {x}]
        error == [rest EXCEPT !.errors = @ \cup {x}]
    IN IF x.quality = "odd" \/ Aborted(ses, x.kind) THEN error
       ELSE IF x.kind = "schedule" /\ ~ (x.key \in Servers /\ Live(x.key))
       THEN [rest EXCEPT !.skipped = @ \cup {x}]
       ELSE IF x.quality = "refused" THEN [error EXCEPT !.held = {}]
       ELSE IF Found(ses, x) = {}
       THEN [rest EXCEPT !.pending = x, !.counted = @ \cup {x}]
       ELSE IF Cardinality(Found(ses, x)) > 1 THEN error
       ELSE rest

ImportItem(i, x) ==
    /\ Open(i) /\ imports[i].pending = None
    /\ x \in imports[i].todo
    /\ Update(i, LookedUp(imports[i], x))
    /\ UNCHANGED <<registryVars, accounts, exported, export>>

\* What the unique keys forbid.
Same(x, y) == /\ x.kind = y.kind
              /\ \/ x.kind = "server" /\ x.name = y.name
                 \/ x.kind = "user" /\ (x.name = y.name \/ x.key = y.key)

\* Session i waits for j, which has inserted a row with the same key.
WaitsFor(i, j) == /\ i # j /\ imports[i].pending # None
                  /\ \E r \in imports[j].held : Same(imports[i].pending, r)
Rejected(ses)  == LET x == ses.pending IN
    \/ x.quality = "bad"
    \/ \E r \in Table \cup ses.held : Same(x, r)
    \/ x.kind = "schedule" /\ ~ Live(x.key)

\* Slip: a failed import keeps what it has sent, and its locks.
BrokenSlip(ses) == [ses EXCEPT !.section = 4, !.todo = {}, !.pending = None,
                               !.reply = "error"]

\* A failed INSERT rolls the session back and leaves it unusable: every later
\* item is an error, the next commit raises, and the reply is 500.
Broken(ses) == [ses EXCEPT !.section = 4, !.todo = {}, !.pending = None, !.held = {},
                           !.reply = "error"]

\* Slip: the item's except block rolls back and the import goes on.
ImportFlushSlip(i) ==
    LET ses == imports[i] IN
    /\ ses.pending # None
    /\ \A j \in Importers : ~ WaitsFor(i, j)
    /\ Update(i, IF Rejected(ses) THEN [ses EXCEPT !.pending = None, !.held = {}]
                 ELSE [ses EXCEPT !.pending = None, !.held = @ \cup {ses.pending}])
    /\ UNCHANGED <<registryVars, accounts, exported, export>>

\* The INSERT of the row added last, before the session's next statement.  The
\* database ends a deadlock of two imports by failing one of them.
ImportFlush(i) ==
    LET ses == imports[i] IN
    /\ ses.pending # None
    /\ \/ /\ Rejected(ses) \/ \E j \in Importers : WaitsFor(i, j) /\ WaitsFor(j, i)
          /\ Update(i, Broken(ses))
       \/ /\ ~ Rejected(ses) /\ \A j \in Importers : ~ WaitsFor(i, j)
          /\ Update(i, [ses EXCEPT !.pending = None, !.held = @ \cup {ses.pending}])
    /\ UNCHANGED <<registryVars, accounts, exported, export>>

Committed(ses) == [ses EXCEPT !.committed = @ \cup ses.held, !.held = {}]
NextSection(ses) == [ses EXCEPT !.section = @ + 1,
                                !.todo = Of(Sections[ses.section + 1], ses.file)]
Ended(i, n) == /\ imports[i].section = n /\ imports[i].todo = {}
               /\ imports[i].pending = None

\* The servers' commit; they get new ids and have no password.  After a refused
\* lookup there is nothing left to commit, and the next transaction is sound.
ImportServers(i) ==
    LET ses == imports[i] IN
    /\ Ended(i, 1)
    /\ \E ids \in [ses.held -> {s \in Servers : rows[s].state = "free"}] :
         /\ \A x, y \in ses.held : ids[x] = ids[y] => x = y
         /\ rows' = [s \in Servers |->
                IF \E x \in ses.held : ids[x] = s
                THEN [NoRow EXCEPT !.state = "live",
                        !.name = (CHOOSE x \in ses.held : ids[x] = s).name]
                ELSE rows[s]]
    /\ Update(i, NextSection(Committed(ses)))
    /\ UNCHANGED <<column, lost, schedules, keys, calls, jobs, begun, accounts, exported, export>>

\* Slip: the schedules are committed before the users are read.
ImportSchedulesSlip(i) ==
    LET ses == imports[i] IN
    /\ Ended(i, 2)
    /\ schedules' = schedules \cup {[name |-> x.name, server |-> x.key] : x \in ses.held}
    /\ Update(i, NextSection(Committed(ses)))
    /\ UNCHANGED <<rows, column, lost, keys, calls, jobs, begun, accounts, exported, export>>

ImportSchedules(i) ==
    /\ Ended(i, 2)
    /\ Update(i, NextSection(imports[i]))
    /\ UNCHANGED <<registryVars, accounts, exported, export>>

\* The second commit: schedules and users.
ImportUsers(i) ==
    LET ses == imports[i] IN
    /\ Ended(i, 3)
    /\ schedules' = schedules \cup
           {[name |-> x.name, server |-> x.key] : x \in Of("schedule", ses.held)}
    /\ accounts' = accounts \cup Of("user", ses.held)
    /\ Update(i, [Committed(ses) EXCEPT !.section = 4, !.reply = "ok"])
    /\ UNCHANGED <<rows, column, lost, keys, calls, jobs, begun, exported, export>>

-----------------------------------------------------------------------------
(* The other requests *)

Held == UNION {imports[i].held : i \in Importers}

\* What a step of somebody else took away.
Noted == IF UNCHANGED <<rows, schedules, accounts>> THEN UNCHANGED imports
         ELSE LET away == Present \ Present' IN
              imports' = [i \in Importers |-> [imports[i] EXCEPT !.gone = @ \cup away]]

\* register, and delete_user (see Accounts).
AddUser(n, e) ==
    LET x == Good("user", n, e) IN
    /\ \A r \in Table \cup Held : ~ Same(x, r)
    /\ accounts' = accounts \cup {x}
    /\ UNCHANGED <<dataVars, exported, export, imports>>

RemoveUser(x) ==
    /\ x \in accounts
    /\ accounts' = accounts \ {x}
    /\ UNCHANGED <<dataVars, exported, export>>
    /\ Noted

\* A row with the name of one that an import has sent waits for its commit; so
\* do the removal and the renaming of a server that a schedule it has sent
\* refers to, and a change of the table for every session.
Unblocked ==
    /\ \A s \in Servers : rows'[s].name # rows[s].name =>
           /\ \A r \in Of("server", Held) : r.name # rows'[s].name
           /\ \A r \in Of("schedule", Held) : r.key # s
    /\ column' # column => export.step = 0 /\ \A i \in Importers : ~ Open(i)

Elsewhere(A) == A /\ Unblocked /\ UNCHANGED <<accounts, exported, export>> /\ Noted

\* A restart of the API ends its requests; open sessions are rolled back.
ReloadAll ==
    /\ Reload
    /\ export' = NoExport
    /\ imports' = [i \in Importers |-> IF Open(i) THEN NoSession ELSE imports[i]]
    /\ UNCHANGED <<accounts, exported>>

TransferNext ==
    \/ Elsewhere(Request \/ Deploy) /\ Begin
    \/ Elsewhere(Continue) /\ UNCHANGED begun
    \/ ReloadAll /\ Begin
    \/ ExportQuery
    \/ \E i \in Importers : \/ ImportFlush(i) \/ ImportServers(i) \/ ImportSchedules(i)
                            \/ ImportUsers(i) \/ \E x \in imports[i].todo : ImportItem(i, x)
    \* An import counts as two operations.
    \/ /\ \E i \in Importers, f \in Files \cup {exported} : ImportBegin(i, f)
       /\ begun + 1 < MaxOperations /\ begun' = begun + 2
    \/ /\ \/ ExportBegin
          \/ \E n \in Users, e \in Emails : AddUser(n, e)
          \/ \E x \in accounts : RemoveUser(x)
       /\ Begin

TransferSpec == ConfigInit /\ [][TransferNext]_transferVars
-----------------------------------------------------------------------------
(* What is promised *)

ConfigTypeOK ==
    /\ RegistryTypeOK
    /\ accounts \subseteq Of("user", Things)
    /\ exported \subseteq Things
    /\ export \in Exporting
    /\ imports \in [Importers -> Session]
    /\ \A i \in Importers : ~ Open(i) =>
           imports[i].todo \cup imports[i].held = {} /\ imports[i].pending = None

\* The numbers of a reply of success are those of the rows that the import
\* committed, although rows are counted before they are sent: a refused INSERT
\* never goes with such a reply.  A refused lookup does: its half of the import
\* (servers; schedules and users) is counted and all of it rolled back, and only
\* the errors in the reply tell.
CountsAreCommitted == \A i \in Importers :
    imports[i].reply = "ok" =>
        imports[i].committed = imports[i].counted \ Undone(imports[i])

\* An import that fails leaves nothing, or exactly the servers it counted; one
\* that was not answered leaves no schedule and no user.
ImportInHalves == \A i \in Importers :
    LET ses == imports[i] IN
    ses.reply # "ok" => ses.committed \in {{}, Of("server", ses.counted)}

\* After an import that reports success, every item of the file without an
\* error of its own is in the table under its name, unless somebody removed it
\* since the import began, or a refused lookup of another item undid it; but a
\* schedule whose server id does not exist here is missing without a word.
ImportComplete == \A i \in Importers :
    LET ses == imports[i] IN
    ses.reply = "ok" => \A x \in ses.file \ (ses.errors \cup ses.skipped) :
        Label(x) \in Present \cup ses.gone \cup {Label(y) : y \in Undone(ses)}

\* An export does not see one moment, but a schedule in it names a server that
\* is in it too, or one created while the export ran.
ExportCovers ==
    export.step \in {0, 3} => \A x \in Of("schedule", export.read) :
        x.key \in export.listed \cup export.unborn

-----------------------------------------------------------------------------
(* The inductive strengthening                                              *)

Waiting(ses) == IF ses.pending = None THEN {} ELSE {ses.pending}

\* What one session knows: the kinds of the rows in it, by section, and what
\* it has counted.
SessionFits(ses) ==
    /\ ses.section = 4 <=> ses.reply # "none"
    /\ ses.section \in 1..3 => ses.todo \subseteq Of(Sections[ses.section], ses.file)
    /\ ses.section = 1 => \A x \in ses.counted : x.kind = "server"
    /\ ses.section \in {2, 3} => \A x \in ses.held \cup Waiting(ses) : x.kind # "server"
    /\ ses.reply # "error" =>
           ses.committed \cup ses.held \cup Waiting(ses) = ses.counted \ Undone(ses)
    /\ ses.section < 2 => ses.committed = {}
    /\ ses.section \in {2, 3} => ses.committed = Of("server", ses.counted \ Undone(ses))
    /\ ses.reply = "error" => ses.committed \in {{}, Of("server", ses.counted)}

\* The sections before section n, and in it what is not to do any more.
Done(ses) == {x \in ses.file : \E n \in 1..3 :
                 x.kind = Sections[n] /\ (n < ses.section \/ (n = ses.section /\ x \notin ses.todo))}

\* What a session has added and not committed, or lost.
Entered(ses) == ses.held \cup Waiting(ses) \cup Undone(ses)

\* What the session has dealt with is somewhere.
Accounted(ses) ==
    ses.reply # "error" => \A x \in Done(ses) \ (ses.errors \cup ses.skipped) :
        Label(x) \in Present \cup ses.gone \cup {Label(y) : y \in Entered(ses)}

\* Schedules, also those sent and not committed, refer to servers that exist.
References ==
    /\ \A s \in Servers : Live(s) => rows[s].name \in Names
    /\ \A x \in schedules : Live(x.server)
    /\ \A i \in Importers : \A x \in Of("schedule", imports[i].held) : Live(x.key)

ExportFits ==
    /\ export.step > 0 => \A s \in Servers : rows[s].state = "free" => s \in export.unborn
    /\ export.step > 1 => \A s \in Servers : Live(s) => s \in export.listed \cup export.unborn
    /\ export.step < 3 /\ export.step > 0 => Of("schedule", export.read) = {}
    /\ ExportCovers

ConfigInv == /\ RegistryInv /\ ConfigTypeOK /\ References /\ ExportFits
             /\ \A i \in Importers : SessionFits(imports[i]) /\ Accounted(imports[i])
=============================================================================
