--------------------------- MODULE AccountsProofs ---------------------------
(* Proofs about Accounts: the guards of auth.py hold in every interleaving  *)
(* of any number of requests on any number of users.                        *)
EXTENDS Accounts, TLAPS

USE AccountsAssumption

-----------------------------------------------------------------------------
(* What the shapes of rows and requests allow.                              *)

LEMMA CallFields ==
    ASSUME NEW k \in Call
    PROVE  /\ k.pc \in {"idle", "name", "email", "insert", "edit", "taken",
                        "update", "remove", "delete"}
           /\ k.actor \in UserIds \cup {None} /\ k.target \in UserIds \cup {None}
           /\ k.new \in Row \cup Change /\ k.seen \in Row
  BY DEF Call

LEMMA NoRowIsRow == NoRow("absent") \in Row /\ NoRow("deleted") \in Row
  BY DEF NoRow, Row

LEMMA NoCallIsCall == NoCall \in Call /\ Ungranted(NoCall) /\ NoCall.pc = "idle"
  BY NoRowIsRow DEF NoCall, Call, Ungranted

\* A request that keeps what the guards leave in it.
Guarded(k) ==
    /\ Ungranted(k) \/ {k.actor, k.target} \subseteq UserIds
    /\ k.pc \in {"name", "email", "insert"} => k.new \in Row
    /\ k.pc \in {"edit", "taken", "update"} => k.new \in Change
    /\ k.pc \in {"edit", "taken", "update"} /\ (k.pc = "edit" \/ k.target = k.actor) =>
          k.seen.role = "admin" /\ k.seen.state = "active"
    /\ k.pc \in {"taken", "update"} /\ k.target = k.actor => k.new.state # "disabled"
    /\ k.pc = "update" /\ k.target = k.actor => k.new.role \in {None, "admin"}
    /\ k.pc = "delete" => k.target # k.actor

LEMMA SelfGuardedIs == SelfGuarded <=> \A c \in Clients : Guarded(calls[c])
  BY DEF SelfGuarded, Guarded

LEMMA NoCallGuarded == Guarded(NoCall)
  BY NoCallIsCall DEF Guarded, Ungranted

\* One request changes; the others and the invariant stay.
LEMMA OneCall ==
    ASSUME AInv, NEW c \in Clients, NEW k \in Call, Guarded(k),
           calls' = [calls EXCEPT ![c] = k], users' \in [UserIds -> Row]
    PROVE  AInv'
  <1>1. calls' \in [Clients -> Call]
    BY DEF AInv, AccountsTypeOK
  <1>2. \A d \in Clients : Guarded(calls'[d])
    BY SelfGuardedIs DEF AInv, AccountsTypeOK
  <1> QED
    BY <1>1, <1>2 DEF AInv, AccountsTypeOK, SelfGuarded, Guarded

LEMMA Finishing ==
    ASSUME AInv, NEW c \in Clients, Finish(c), users' \in [UserIds -> Row]
    PROVE  AInv'
  BY OneCall, NoCallIsCall, NoCallGuarded DEF Finish

-----------------------------------------------------------------------------
(* The steps.                                                               *)

\* The rest of update_user, for a request that may be written.
LEMMA Assigning ==
    ASSUME AInv, NEW c \in Clients, NEW k \in Call, Assign(c, k),
           users' = users, k.new \in Change,
           {k.actor, k.target} \subseteq UserIds,
           k.target = k.actor => /\ k.seen.role = "admin" /\ k.seen.state = "active"
                                 /\ k.new.state # "disabled"
    PROVE  AInv'
  <1>0. users' \in [UserIds -> Row]
    BY DEF AInv, AccountsTypeOK
  <1>1. CASE Finish(c)
    BY <1>0, <1>1, Finishing
  <1>2. CASE ~ Finish(c)
    <2> DEFINE up == [k EXCEPT !.pc = "update"]
    <2>1. up \in Call
      BY DEF Call
    <2>2. /\ up.pc = "update" /\ up.actor = k.actor /\ up.target = k.target
          /\ up.new = k.new /\ up.seen = k.seen
      BY DEF Call
    <2>3. /\ calls' = [calls EXCEPT ![c] = up]
          /\ k.target = k.actor => k.new.role \in {None, "admin"}
      BY <1>2 DEF Assign
    <2>4. Guarded(up)
      BY <2>2, <2>3 DEF Guarded
    <2> QED
      BY <1>0, <2>1, <2>3, <2>4, OneCall
  <1> QED
    BY <1>1, <1>2

LEMMA RegisterStep ==
    ASSUME AInv, NEW c \in Clients, NEW row \in Row, Register(c, row)
    PROVE  AInv'
  <1> DEFINE k == [NoCall EXCEPT !.pc = "name", !.new = row]
  <1>1. k \in Call /\ k.pc = "name"
    BY NoCallIsCall, NoRowIsRow DEF NoCall, Call
  <1>2. Guarded(k)
    BY <1>1 DEF Guarded, Ungranted
  <1> QED
    BY <1>1, <1>2, OneCall DEF Register, AInv, AccountsTypeOK

LEMMA CheckStep ==
    ASSUME AInv, NEW c \in Clients, CheckName(c) \/ CheckEmail(c)
    PROVE  AInv'
  <1>0. users' \in [UserIds -> Row]
    BY DEF CheckName, CheckEmail, AInv, AccountsTypeOK
  <1>1. CASE Finish(c)
    BY <1>0, <1>1, Finishing
  <1>2. ASSUME NEW pc \in {"email", "insert"}, Go(c, pc) PROVE AInv'
    <2> DEFINE k == [calls[c] EXCEPT !.pc = pc]
    <2>1. calls[c] \in Call /\ Guarded(calls[c]) /\ calls[c].pc \in {"name", "email"}
      BY SelfGuardedIs DEF AInv, AccountsTypeOK, CheckName, CheckEmail, Stand
    <2>2. k \in Call /\ k.pc = pc /\ k.new = calls[c].new
      BY <2>1 DEF Call
    <2>3. Guarded(k)
      BY <2>1, <2>2 DEF Guarded, Ungranted
    <2>4. calls' = [calls EXCEPT ![c] = k]
      BY <1>2 DEF Go, AInv, AccountsTypeOK
    <2> QED
      BY <1>0, <2>2, <2>3, <2>4, OneCall
  <1> QED
    BY <1>1, <1>2 DEF CheckName, CheckEmail

LEMMA InsertStep ==
    ASSUME AInv, NEW c \in Clients, InsertUser(c)
    PROVE  AInv'
  <1>1. calls[c].new \in Row
    BY SelfGuardedIs DEF AInv, InsertUser, Stand, Guarded
  <1>2. users' \in [UserIds -> Row]
    BY <1>1 DEF InsertUser, AInv, AccountsTypeOK
  <1> QED
    BY <1>2, Finishing DEF InsertUser

LEMMA AuthorizeStep ==
    ASSUME AInv, NEW c \in Clients, NEW a \in UserIds, NEW t \in UserIds,
           \/ Remove(c, a, t)
           \/ \E new \in Change : Edit(c, a, t, new)
    PROVE  AInv'
  <1>0. users' = users /\ users[a] \in Row
    BY DEF Remove, Edit, Authorize, AInv, AccountsTypeOK
  <1>1. ASSUME NEW pc \in {"edit", "remove"}, NEW new \in Row \cup Change,
               pc = "edit" => new \in Change,
               Authorize(c, a, t, new, pc)
        PROVE  AInv'
    <2> DEFINE k == [pc |-> pc, actor |-> a, target |-> t, new |-> new, seen |-> users[a]]
    <2>1. k \in Call
      BY <1>0 DEF Call
    <2>2. Guarded(k)
      BY <1>1 DEF Guarded, Authorize, Admin
    <2> QED
      BY <1>0, <1>1, <2>1, <2>2, OneCall DEF Authorize, AInv, AccountsTypeOK
  <1> QED
    BY <1>1, NoRowIsRow DEF Remove, Edit

LEMMA SelectEditedStep ==
    ASSUME AInv, NEW c \in Clients, SelectEdited(c)
    PROVE  AInv'
  <1> DEFINE k == calls[c]
             l == Loaded(k)
  <1>0. users' = users /\ users' \in [UserIds -> Row]
    BY DEF SelectEdited, AInv, AccountsTypeOK
  <1>1. /\ k \in Call /\ k.pc = "edit" /\ k.new \in Change
        /\ {k.actor, k.target} \subseteq UserIds
        /\ k.seen.role = "admin" /\ k.seen.state = "active"
    BY SelfGuardedIs DEF SelectEdited, Stand, AInv, AccountsTypeOK, Guarded, Ungranted
  <1>2. /\ l \in Call /\ l.new = k.new /\ l.actor = k.actor /\ l.target = k.target
        /\ k.target = k.actor => l.seen = k.seen
    BY <1>0, <1>1 DEF Loaded, Call
  <1>3. CASE Finish(c)
    BY <1>0, <1>3, Finishing
  <1>4. CASE Assign(c, l) /\ (k.target = k.actor => k.new.state # "disabled")
    BY <1>0, <1>1, <1>2, <1>4, Assigning
  <1>5. CASE /\ calls' = [calls EXCEPT ![c] = [l EXCEPT !.pc = "taken"]]
             /\ k.target = k.actor => k.new.state # "disabled"
    <2> DEFINE m == [l EXCEPT !.pc = "taken"]
    <2>1. /\ m \in Call /\ m.pc = "taken" /\ m.new = l.new /\ m.seen = l.seen
          /\ m.actor = l.actor /\ m.target = l.target
      BY <1>2 DEF Call
    <2>2. Guarded(m)
      BY <1>1, <1>2, <1>5, <2>1 DEF Guarded
    <2> QED
      BY <1>0, <1>5, <2>1, <2>2, OneCall
  <1> QED
    BY <1>3, <1>4, <1>5 DEF SelectEdited

LEMMA CheckTakenStep ==
    ASSUME AInv, NEW c \in Clients, CheckTaken(c)
    PROVE  AInv'
  <1>1. users' = users /\ users' \in [UserIds -> Row]
    BY DEF CheckTaken, AInv, AccountsTypeOK
  <1>2. calls[c] \in Call /\ Guarded(calls[c]) /\ calls[c].pc = "taken"
    BY SelfGuardedIs DEF CheckTaken, Stand, AInv, AccountsTypeOK
  <1>3. CASE Finish(c)
    BY <1>1, <1>3, Finishing
  <1>4. CASE Assign(c, calls[c])
    BY <1>1, <1>2, <1>4, Assigning DEF Guarded, Ungranted
  <1> QED
    BY <1>3, <1>4 DEF CheckTaken

LEMMA CommitUpdateStep ==
    ASSUME AInv, NEW c \in Clients, CommitUpdate(c)
    PROVE  AInv'
  <1> DEFINE k == calls[c]
             row == [f \in DOMAIN users[k.target] |->
                        IF f \in Written(k) THEN Asked(k, f) ELSE users[k.target][f]]
  <1>1. /\ k \in Call /\ k.new \in Change /\ k.target \in UserIds
        /\ users[k.target] \in Row /\ users \in [UserIds -> Row]
    BY SelfGuardedIs DEF CommitUpdate, Stand, AInv, AccountsTypeOK, Guarded, Ungranted
  <1>2. /\ "state" \in Written(k) => Asked(k, "state") \in {"active", "disabled"}
        /\ "role" \in Written(k) => Asked(k, "role") \in Roles
        /\ "email" \in Written(k) => Asked(k, "email") \in Emails
        /\ "name" \notin Written(k)
    BY <1>1 DEF Written, Asked, Change
  <1>3. row \in Row
    BY <1>1, <1>2 DEF Row
  <1>4. users' = users \/ users' = [users EXCEPT ![k.target] = row]
    BY DEF CommitUpdate
  <1>5. users' \in [UserIds -> Row]
    BY <1>1, <1>3, <1>4
  <1> QED
    BY <1>5, Finishing DEF CommitUpdate

LEMMA DeleteStep ==
    ASSUME AInv, NEW c \in Clients,
           SelectRemoved(c) \/ CommitDelete(c) \/ CallFault(c)
    PROVE  AInv'
  <1>1. users' \in [UserIds -> Row]
    BY NoRowIsRow DEF SelectRemoved, CommitDelete, CallFault, AInv, AccountsTypeOK
  <1>2. CASE Finish(c)
    BY <1>1, <1>2, Finishing
  <1>3. CASE SelectRemoved(c) /\ ~ Finish(c)
    <2> DEFINE k == [calls[c] EXCEPT !.pc = "delete"]
    <2>1. calls[c] \in Call /\ Guarded(calls[c]) /\ calls[c].pc = "remove"
      BY <1>3, SelfGuardedIs DEF SelectRemoved, Stand, AInv, AccountsTypeOK
    <2>2. k \in Call /\ k.pc = "delete" /\ k.actor = calls[c].actor
          /\ k.target = calls[c].target
      BY <2>1 DEF Call
    <2>3. Guarded(k) /\ calls' = [calls EXCEPT ![c] = k]
      BY <1>3, <2>1, <2>2 DEF SelectRemoved, Go, Guarded, Ungranted
    <2> QED
      BY <1>1, <2>2, <2>3, OneCall
  <1> QED
    BY <1>2, <1>3 DEF CommitDelete, CallFault

LEMMA Initially == AccountsInit => AInv
  <1> SUFFICES ASSUME AccountsInit PROVE AInv
    OBVIOUS
  <1>1. AccountsTypeOK
    BY NoRowIsRow, NoCallIsCall DEF AccountsInit, AccountsTypeOK
  <1> QED
    BY <1>1, SelfGuardedIs, NoCallGuarded DEF AccountsInit, AInv

LEMMA Stepwise == AInv /\ [AccountsNext]_accountVars => AInv'
  <1> SUFFICES ASSUME AInv, [AccountsNext]_accountVars PROVE AInv'
    OBVIOUS
  <1>1. CASE UNCHANGED accountVars
    BY <1>1 DEF accountVars, AInv, AccountsTypeOK, SelfGuarded, Ungranted
  <1>2. ASSUME NEW c \in Clients, NEW r \in Roles, NEW n \in Names, NEW e \in Emails,
               Register(c, [state |-> "active", role |-> r, name |-> n, email |-> e])
        PROVE  AInv'
    BY <1>2, RegisterStep DEF Row
  <1> QED
    BY <1>1, <1>2, CheckStep, InsertStep, AuthorizeStep, SelectEditedStep, CheckTakenStep,
       CommitUpdateStep, DeleteStep DEF AccountsNext

\* What the guards of update_user and delete_user leave in a request stays true
\* while it waits for the database, whatever other requests do.
THEOREM GuardsHold == AccountsSpec => []AInv
  BY Initially, Stepwise, PTL DEF AccountsSpec

-----------------------------------------------------------------------------
(* The action properties.                                                   *)

\* An author who still is an administrator survives the update he commits.
LEMMA AuthorSurvivesUpdate ==
    ASSUME AInv, NEW c \in Clients, CommitUpdate(c), Admin(calls[c].actor)
    PROVE  HasAdmin'
  <1> DEFINE k == calls[c]
             a == k.actor
  <1>1. /\ k \in Call /\ a \in UserIds /\ k.target \in UserIds /\ users[a] \in Row
        /\ users \in [UserIds -> Row] /\ k.new \in Change /\ Guarded(k)
    BY SelfGuardedIs DEF CommitUpdate, Stand, AInv, AccountsTypeOK, Guarded, Ungranted
  <1>2. k.target = a => "state" \notin Written(k) /\ "role" \notin Written(k)
    BY <1>1, AccountsAssumption DEF CommitUpdate, Stand, Guarded, Change, Asked, Written
  <1>3. users'[a].state = "active" /\ users'[a].role = "admin"
    <2>1. CASE users' = users
      BY <2>1 DEF Admin
    <2>2. CASE users' = [users EXCEPT ![k.target] = [f \in DOMAIN users[k.target] |->
                  IF f \in Written(k) THEN Asked(k, f) ELSE users[k.target][f]]]
      <3>1. CASE k.target # a
        BY <1>1, <2>2, <3>1 DEF Admin
      <3>2. CASE k.target = a
        BY <1>1, <1>2, <2>2, <3>2 DEF Admin, Row
      <3> QED
        BY <3>1, <3>2
    <2> QED
      BY <2>1, <2>2 DEF CommitUpdate
  <1> QED
    BY <1>1, <1>3 DEF HasAdmin, Admin

\* So he does when what he commits is a deletion.
LEMMA AuthorSurvivesDelete ==
    ASSUME AInv, NEW c \in Clients, CommitDelete(c), Admin(calls[c].actor)
    PROVE  HasAdmin'
  <1>1. /\ calls[c].actor \in UserIds /\ calls[c].target # calls[c].actor
        /\ users \in [UserIds -> Row]
    BY SelfGuardedIs DEF CommitDelete, Stand, AInv, AccountsTypeOK, Guarded, Ungranted
  <1> QED
    BY <1>1 DEF CommitDelete, HasAdmin, Admin

LEMMA InsertKeeps ==
    ASSUME AInv, NEW c \in Clients, InsertUser(c), HasAdmin
    PROVE  HasAdmin'
  <1>1. PICK a \in UserIds : Admin(a)
    BY DEF HasAdmin
  <1>2. users'[a] = users[a]
    BY <1>1 DEF InsertUser, Admin, AInv, AccountsTypeOK
  <1> QED
    BY <1>1, <1>2 DEF HasAdmin, Admin

\* The steps that write no row.
Reads(c) ==
    \/ \E row \in Row : Register(c, row)
    \/ CheckName(c) \/ CheckEmail(c)
    \/ \E a, t \in UserIds : Remove(c, a, t) \/ \E new \in Change : Edit(c, a, t, new)
    \/ SelectEdited(c) \/ CheckTaken(c) \/ SelectRemoved(c) \/ CallFault(c)

LEMMA Splits ==
    ASSUME [AccountsNext]_accountVars
    PROVE  \/ users' = users
           \/ \E c \in Clients : InsertUser(c) \/ CommitUpdate(c) \/ CommitDelete(c)
  <1>1. CASE UNCHANGED accountVars
    BY <1>1 DEF accountVars
  <1>2. ASSUME NEW c \in Clients, Reads(c) PROVE users' = users
    BY <1>2 DEF Reads, Register, CheckName, CheckEmail, Remove, Edit, Authorize,
                SelectEdited, CheckTaken, SelectRemoved, CallFault
  <1>3. ASSUME NEW r \in Roles, NEW n \in Names, NEW e \in Emails
        PROVE  [state |-> "active", role |-> r, name |-> n, email |-> e] \in Row
    BY DEF Row
  <1> QED
    BY <1>1, <1>2, <1>3 DEF AccountsNext, Reads

LEMMA CommitEnds ==
    ASSUME AInv, NEW c \in Clients, CommitUpdate(c) \/ CommitDelete(c)
    PROVE  calls[c].pc \in {"update", "delete"} /\ calls'[c] = NoCall
  BY DEF AInv, AccountsTypeOK, CommitUpdate, CommitDelete, Finish, Stand

\* auth.py may lose its last administrator only through a commit whose author
\* has lost his rights since get_current_user loaded him.
THEOREM AdminSurvives == AccountsSpec => LastAdminLostByRace
  <1> DEFINE Lost == HasAdmin /\ ~ HasAdmin' =>
          \E c \in Clients : /\ calls[c].pc \in {"update", "delete"}
                             /\ calls'[c] = NoCall
                             /\ ~ Admin(calls[c].actor)
  <1>1. AInv /\ [AccountsNext]_accountVars => Lost
    <2> SUFFICES ASSUME AInv, [AccountsNext]_accountVars, HasAdmin, ~ HasAdmin'
                 PROVE  \E c \in Clients : /\ calls[c].pc \in {"update", "delete"}
                                           /\ calls'[c] = NoCall
                                           /\ ~ Admin(calls[c].actor)
      OBVIOUS
    <2>1. users' # users
      BY DEF HasAdmin, Admin
    <2>2. PICK c \in Clients : CommitUpdate(c) \/ CommitDelete(c)
      BY <2>1, Splits, InsertKeeps
    <2>3. ~ Admin(calls[c].actor)
      BY <2>2, AuthorSurvivesUpdate, AuthorSurvivesDelete
    <2> QED
      BY <2>2, <2>3, CommitEnds
  <1> QED
    BY <1>1, GuardsHold, PTL DEF AccountsSpec, LastAdminLostByRace

\* Concurrent update_user requests do not undo each other's fields.
THEOREM EditsKept == AccountsSpec => NoLostUpdate
  <1> DEFINE Kept == \A u \in UserIds, f \in {"state", "role", "email"} :
          Exists(u) /\ Exists(u)' /\ users'[u][f] # users[u][f] =>
              \E c \in Clients : /\ calls[c].pc = "update"
                                 /\ calls'[c] = NoCall
                                 /\ calls[c].target = u
                                 /\ users'[u][f] = calls[c].new[f]
  <1>1. AInv /\ [AccountsNext]_accountVars => Kept
    <2> SUFFICES ASSUME AInv, [AccountsNext]_accountVars, NEW u \in UserIds,
                        NEW f \in {"state", "role", "email"},
                        Exists(u), Exists(u)', users'[u][f] # users[u][f]
                 PROVE  \E c \in Clients : /\ calls[c].pc = "update"
                                           /\ calls'[c] = NoCall
                                           /\ calls[c].target = u
                                           /\ users'[u][f] = calls[c].new[f]
      OBVIOUS
    <2>0. users \in [UserIds -> Row]
      BY DEF AInv, AccountsTypeOK
    <2>1. ASSUME NEW c \in Clients, InsertUser(c) PROVE FALSE
      BY <2>0, <2>1 DEF InsertUser, Exists
    <2>2. ASSUME NEW c \in Clients, CommitDelete(c) PROVE FALSE
      BY <2>0, <2>2 DEF CommitDelete, Exists, NoRow
    <2>3. PICK c \in Clients : CommitUpdate(c)
      BY <2>1, <2>2, Splits
    <2>4. /\ calls[c].target = u /\ f \in Written(calls[c])
          /\ users'[u][f] = Asked(calls[c], f)
      <3>1. users[u] \in Row /\ f \in DOMAIN users[u]
        BY <2>0 DEF Row
      <3>2. users' = [users EXCEPT ![calls[c].target] =
                [g \in DOMAIN users[calls[c].target] |->
                    IF g \in Written(calls[c]) THEN Asked(calls[c], g)
                    ELSE users[calls[c].target][g]]]
        BY <2>3 DEF CommitUpdate
      <3>3. calls[c].target = u
        BY <2>0, <3>2
      <3> QED
        BY <2>0, <3>1, <3>2, <3>3
    <2>5. users'[u][f] = calls[c].new[f]
      BY <2>4 DEF Written, Asked
    <2>6. calls[c].pc = "update" /\ calls'[c] = NoCall
      BY <2>3, CommitEnds DEF CommitUpdate, Stand
    <2> QED
      BY <2>4, <2>5, <2>6
  <1> QED
    BY <1>1, GuardsHold, PTL DEF AccountsSpec, NoLostUpdate
=============================================================================
