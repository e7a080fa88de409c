------------------------------ MODULE Accounts ------------------------------
(* The users table and the routes of auth.py that change it: register,      *)
(* update_user, delete_user.  Each request is cut at its statements; any    *)
(* number of them interleave.                                               *)
(*                                                                          *)
(*   name, email, insert    register: the two checks, then the INSERT       *)
(*   edit, taken, update    update_user: SELECT the user, check the e-mail  *)
(*                          address, UPDATE                                 *)
(*   remove, delete         delete_user: SELECT the user, DELETE            *)
CONSTANTS
    UserIds,   \* primary keys of users
    Names,     \* user names
    Emails,    \* e-mail addresses
    Clients,   \* requests that may be in flight at once
    None

ASSUME AccountsAssumption == None \notin UserIds \cup Names \cup Emails

VARIABLES
    users,     \* users table
    calls      \* per client, the request that is being served

accountVars == <<users, calls>>

\* The routes tell administrators from the rest ("operator" or "viewer").
Roles == {"admin", "viewer"}
Row   == [state : {"absent", "active", "disabled", "deleted"},
          role : Roles \cup {None}, name : Names \cup {None},
          email : Emails \cup {None}]
NoRow(st) == [state |-> st, role |-> None, name |-> None, email |-> None]

\* What an update asks for: None where the field is not given.
Change == [state : {"active", "disabled", None}, role : Roles \cup {None},
           email : Emails \cup {None}]

\* A request: who makes it, on which user, what it writes, and the row as the
\* session loaded it.
Call == [pc : {"idle", "name", "email", "insert", "edit", "taken", "update",
               "remove", "delete"},
         actor : UserIds \cup {None}, target : UserIds \cup {None},
         new : Row \cup Change, seen : Row]
NoCall == [pc |-> "idle", actor |-> None, target |-> None,
           new |-> NoRow("absent"), seen |-> NoRow("absent")]

AccountsTypeOK == users \in [UserIds -> Row] /\ calls \in [Clients -> Call]

AccountsInit == /\ users = [u \in UserIds |-> NoRow("absent")]
                /\ calls = [c \in Clients |-> NoCall]

Exists(u) == users[u].state \in {"active", "disabled"}
Admin(u)  == users[u].state = "active" /\ users[u].role = "admin"

\* The unique keys, for a row with id u.
NameFree(n, u)  == \A v \in UserIds \ {u} : Exists(v) => users[v].name # n
EmailFree(e, u) == \A v \in UserIds \ {u} : Exists(v) => users[v].email # e

Go(c, pc)    == calls' = [calls EXCEPT ![c].pc = pc]
Finish(c)    == calls' = [calls EXCEPT ![c] = NoCall]
Stand(c, pc) == calls[c].pc = pc

-----------------------------------------------------------------------------
\* POST /auth/register, open to everybody, with any role.
Register(c, row) ==
    /\ Stand(c, "idle")
    /\ calls' = [calls EXCEPT ![c] = [NoCall EXCEPT !.pc = "name", !.new = row]]
    /\ UNCHANGED users

CheckName(c) ==
    /\ Stand(c, "name")
    /\ IF NameFree(calls[c].new.name, None) THEN Go(c, "email") ELSE Finish(c)
    /\ UNCHANGED users

CheckEmail(c) ==
    /\ Stand(c, "email")
    /\ IF EmailFree(calls[c].new.email, None) THEN Go(c, "insert") ELSE Finish(c)
    /\ UNCHANGED users

\* The unique keys decide when two requests passed the same check.
InsertUser(c) ==
    LET row == calls[c].new IN
    /\ Stand(c, "insert")
    /\ Finish(c)
    /\ IF NameFree(row.name, None) /\ EmailFree(row.email, None)
       THEN \E u \in UserIds : /\ users[u].state = "absent"
                               /\ users' = [users EXCEPT ![u] = row]
       ELSE UNCHANGED users

-----------------------------------------------------------------------------
\* get_current_user and the role check load the actor's row.
Authorize(c, a, t, new, pc) ==
    /\ Stand(c, "idle")
    /\ Admin(a)
    /\ calls' = [calls EXCEPT ![c] =
            [pc |-> pc, actor |-> a, target |-> t, new |-> new, seen |-> users[a]]]
    /\ UNCHANGED users

Edit(c, a, t, new) == Authorize(c, a, t, new, "edit")
Remove(c, a, t)    == Authorize(c, a, t, NoRow("absent"), "remove")

\* The rest of update_user up to the commit: an administrator may not demote
\* himself.
Assign(c, k) ==
    IF k.target = k.actor /\ k.new.role \notin {None, "admin"}
    THEN Finish(c)
    ELSE calls' = [calls EXCEPT ![c] = [k EXCEPT !.pc = "update"]]

\* The session holds one object per row: the actor's own is not loaded again.
Loaded(k) == [k EXCEPT !.seen = IF k.target = k.actor THEN @ ELSE users[k.target]]

\* Slip: an administrator may disable himself.
SelectEditedSlip(c) ==
    LET k == calls[c] IN
    /\ Stand(c, "edit")
    /\ UNCHANGED users
    /\ IF ~ Exists(k.target) THEN Finish(c)
       ELSE IF k.new.email = None THEN Assign(c, Loaded(k))
       ELSE calls' = [calls EXCEPT ![c] = [Loaded(k) EXCEPT !.pc = "taken"]]

\* An administrator may not disable himself.
SelectEdited(c) ==
    LET k == calls[c]
        refused == ~ Exists(k.target) \/ (k.target = k.actor /\ k.new.state = "disabled")
    IN
    /\ Stand(c, "edit")
    /\ UNCHANGED users
    /\ \/ refused /\ Finish(c)
       \/ ~ refused /\ k.new.email = None /\ Assign(c, Loaded(k))
       \/ /\ ~ refused /\ k.new.email # None
          /\ calls' = [calls EXCEPT ![c] = [Loaded(k) EXCEPT !.pc = "taken"]]

CheckTaken(c) ==
    /\ Stand(c, "taken")
    /\ UNCHANGED users
    /\ IF EmailFree(calls[c].new.email, calls[c].target)
       THEN Assign(c, calls[c]) ELSE Finish(c)

\* A field is written when it is given and differs from what was loaded.
Asked(k, f) == IF k.new[f] # None THEN k.new[f] ELSE k.seen[f]
Written(k)  == {f \in {"state", "role", "email"} : Asked(k, f) # k.seen[f]}

\* Slip: the whole row is written, as it was loaded.
CommitUpdateSlip(c) ==
    LET k == calls[c] IN
    /\ Stand(c, "update")
    /\ Finish(c)
    /\ IF Exists(k.target) /\ EmailFree(Asked(k, "email"), k.target)
       THEN users' = [users EXCEPT ![k.target] =
                [name |-> k.seen.name, state |-> Asked(k, "state"),
                 role |-> Asked(k, "role"), email |-> Asked(k, "email")]]
       ELSE UNCHANGED users

\* The UPDATE fails when the row is gone or the address was taken meanwhile.
CommitUpdate(c) ==
    LET k == calls[c] IN
    /\ Stand(c, "update")
    /\ Finish(c)
    /\ IF /\ Exists(k.target)
          /\ "email" \in Written(k) => EmailFree(Asked(k, "email"), k.target)
       THEN users' = [users EXCEPT ![k.target] =
                [f \in DOMAIN @ |-> IF f \in Written(k) THEN Asked(k, f) ELSE @[f]]]
       ELSE UNCHANGED users

\* An administrator may not delete himself.
SelectRemoved(c) ==
    LET k == calls[c] IN
    /\ Stand(c, "remove")
    /\ IF ~ Exists(k.target) \/ k.target = k.actor THEN Finish(c) ELSE Go(c, "delete")
    /\ UNCHANGED users

\* The DELETE; rows of other tables that name the user refuse it.
CommitDelete(c) ==
    LET t == calls[c].target IN
    /\ Stand(c, "delete")
    /\ Finish(c)
    /\ \/ Exists(t) /\ users' = [users EXCEPT ![t] = NoRow("deleted")]
       \/ UNCHANGED users

\* The process dies or the database refuses a statement.
CallFault(c) == ~ Stand(c, "idle") /\ Finish(c) /\ UNCHANGED users

AccountsNext ==
    \E c \in Clients :
        \/ \E r \in Roles, n \in Names, e \in Emails :
              Register(c, [state |-> "active", role |-> r, name |-> n, email |-> e])
        \/ CheckName(c) \/ CheckEmail(c) \/ InsertUser(c)
        \/ \E a, t \in UserIds : Remove(c, a, t) \/ \E new \in Change : Edit(c, a, t, new)
        \/ SelectEdited(c) \/ CheckTaken(c) \/ CommitUpdate(c)
        \/ SelectRemoved(c) \/ CommitDelete(c)
        \/ CallFault(c)

AccountsSpec == AccountsInit /\ [][AccountsNext]_accountVars

-----------------------------------------------------------------------------
\* What the guards leave in a request: one that edits was made by an active
\* administrator and does not take his own rights, one that deletes deletes
\* somebody else.
Ungranted(k) == k.pc \in {"idle", "name", "email", "insert"}
SelfGuarded ==
    \A c \in Clients : LET k == calls[c] IN
        /\ Ungranted(k) \/ {k.actor, k.target} \subseteq UserIds
        /\ k.pc \in {"name", "email", "insert"} => k.new \in Row
        /\ k.pc \in {"edit", "taken", "update"} => k.new \in Change
        /\ k.pc \in {"edit", "taken", "update"} /\ (k.pc = "edit" \/ k.target = k.actor) =>
              k.seen.role = "admin" /\ k.seen.state = "active"
        /\ k.pc \in {"taken", "update"} /\ k.target = k.actor => k.new.state # "disabled"
        /\ k.pc = "update" /\ k.target = k.actor => k.new.role \in {None, "admin"}
        /\ k.pc = "delete" => k.target # k.actor

\* Types and guards together: the inductive invariant of the proofs.
AInv == AccountsTypeOK /\ SelfGuarded

HasAdmin == \E u \in UserIds : Admin(u)

\* The self-guards of update_user and delete_user protect the last
\* administrator, except from a race: the step that leaves none is the commit
\* of a request whose own author has meanwhile ceased to be one.
LastAdminLostByRace ==
    [][HasAdmin /\ ~ HasAdmin' =>
          \E c \in Clients : /\ calls[c].pc \in {"update", "delete"}
                             /\ calls'[c] = NoCall
                             /\ ~ Admin(calls[c].actor)]_accountVars

\* Two requests that edit different fields of one user do not undo each other:
\* a field changes only to the value that the request that commits asks for.
NoLostUpdate ==
    [][\A u \in UserIds, f \in {"state", "role", "email"} :
          Exists(u) /\ Exists(u)' /\ users'[u][f] # users[u][f] =>
              \E c \in Clients : /\ calls[c].pc = "update"
                                 /\ calls'[c] = NoCall
                                 /\ calls[c].target = u
                                 /\ users'[u][f] = calls[c].new[f]]_accountVars
=============================================================================
