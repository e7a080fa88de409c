------------------------ MODULE ConfigTransferProofs ------------------------
(* Proofs about ConfigTransfer: for any number of imports, exports and      *)
(* other requests, of files of any size.                                    *)
EXTENDS ConfigTransfer, ServerRegistryProofs

USE ConfigAssumption

-----------------------------------------------------------------------------
(* Rows and items                                                           *)

LEMMA Kinds ==
    ASSUME NEW x \in Things
    PROVE  /\ x.kind \in {"server", "schedule", "user"}
           /\ x.kind = "server" => x.name \in Names /\ x.key = None
           /\ x.kind = "schedule" => x.name \in Schedules /\ x.key \in Servers
           /\ x.kind = "user" => x.name \in Users /\ x.key \in Emails
  BY DEF Things

LEMMA GoodThings ==
    /\ \A n \in Names : Good("server", n, None) \in Things
    /\ \A n \in Schedules, s \in Servers : Good("schedule", n, s) \in Things
    /\ \A n \in Users, e \in Emails : Good("user", n, e) \in Of("user", Things)
    /\ \A k, n, e : Good(k, n, e).kind = k /\ Label(Good(k, n, e)) = <<k, n>>
  BY DEF Good, Thing, Things, Of, Label

LEMMA TableThings ==
    ASSUME ConfigInv
    PROVE  Table \subseteq Things /\ Present \subseteq {Label(x) : x \in Things}
  <1>1. Table \subseteq Things
    <2>1. \A s \in Servers : Live(s) => Good("server", rows[s].name, None) \in Things
      BY GoodThings DEF ConfigInv, References
    <2>2. \A x \in schedules : Good("schedule", x.name, x.server) \in Things
      BY GoodThings DEF ConfigInv, RegistryInv, RegistryTypeOK
    <2>3. accounts \subseteq Things
      BY DEF ConfigInv, ConfigTypeOK, Of
    <2> QED
      BY <2>1, <2>2, <2>3 DEF Table
  <1> QED
    BY <1>1 DEF Present

\* What is present, table by table.
LEMMA PresentIs ==
    \A l : l \in Present <=>
        \/ \E s \in Servers : Live(s) /\ l = <<"server", rows[s].name>>
        \/ \E x \in schedules : l = <<"schedule", x.name>>
        \/ \E x \in accounts : l = Label(x)
  <1>1. \A n : Label(Good("server", n, None)) = <<"server", n>>
    BY GoodThings
  <1>2. \A n, s : Label(Good("schedule", n, s)) = <<"schedule", n>>
    BY GoodThings
  <1> HIDE ConfigAssumption, RegistryAssumption
  <1>3. ASSUME NEW l
        PROVE  l \in Present <=> \E x \in Table : l = Label(x)
    BY Zenon DEF Present
  <1>4. ASSUME NEW x
        PROVE  x \in Table <=>
                 \/ \E s \in Servers : Live(s) /\ x = Good("server", rows[s].name, None)
                 \/ \E y \in schedules : x = Good("schedule", y.name, y.server)
                 \/ x \in accounts
    BY DEF Table
  <1> QED
    <2> SUFFICES ASSUME NEW l
                 PROVE  l \in Present <=>
                           \/ \E s \in Servers : Live(s) /\ l = <<"server", rows[s].name>>
                           \/ \E x \in schedules : l = <<"schedule", x.name>>
                           \/ \E x \in accounts : l = Label(x)
      OBVIOUS
    <2>1. ASSUME NEW s \in Servers, Live(s), l = <<"server", rows[s].name>>
          PROVE  \E x \in Table : l = Label(x)
      BY <1>1, <1>4, <2>1
    <2>2. ASSUME NEW y \in schedules, l = <<"schedule", y.name>>
          PROVE  \E x \in Table : l = Label(x)
      BY <1>2, <1>4, <2>2
    <2>3. ASSUME NEW y \in accounts, l = Label(y)
          PROVE  \E x \in Table : l = Label(x)
      BY <1>4, <2>3
    <2>4. ASSUME NEW x \in Table, l = Label(x)
          PROVE  \/ \E s \in Servers : Live(s) /\ l = <<"server", rows[s].name>>
                 \/ \E y \in schedules : l = <<"schedule", y.name>>
                 \/ \E y \in accounts : l = Label(y)
      BY <1>1, <1>2, <1>4, <2>4
    <2> QED
      BY <1>3, <2>1, <2>2, <2>3, <2>4

-----------------------------------------------------------------------------
(* The registry within the composition                                      *)

LEMMA Frame ==
    ASSUME RegistryInv, UNCHANGED dataVars, begun' \in 0..MaxOperations
    PROVE  RegistryInv'
  BY DEF dataVars, RegistryInv, RegistryTypeOK, CallsFit, Live, BindFaithful

\* Rows that appear have no password; schedules that appear are schedules.
LEMMA RowsGrow ==
    ASSUME RegistryInv, UNCHANGED <<column, lost, keys, calls, jobs, begun>>,
           rows' \in [Servers -> Row],
           \A s \in Servers : \/ rows'[s] = rows[s]
                              \/ /\ rows[s].state = "free" /\ rows'[s].state = "live"
                                 /\ rows'[s].secret = NoPassword /\ rows'[s].flag = FALSE,
           schedules' \subseteq [name : Schedules, server : Servers]
    PROVE  RegistryInv'
  <1>1. RegistryTypeOK'
    BY DEF RegistryInv, RegistryTypeOK
  <1>2. \A s \in Servers :
            /\ Coherent(rows'[s], s \in lost')
            /\ rows'[s].state = "free" => s \notin lost' /\ ~ rows'[s].flag
    <2> TAKE s \in Servers
    <2>1. /\ Coherent(rows[s], s \in lost)
          /\ rows[s].state = "free" => s \notin lost /\ ~ rows[s].flag
      BY DEF RegistryInv
    <2> QED
      BY <2>1 DEF Coherent
  <1>3. CallsFit'
    BY DEF RegistryInv, CallsFit, Live
  <1>4. BindFaithful'
    BY DEF RegistryInv, BindFaithful
  <1> QED
    BY <1>1, <1>2, <1>3, <1>4 DEF RegistryInv

-----------------------------------------------------------------------------
(* Sessions                                                                 *)

LEMMA NoSessionFits ==
    /\ NoSession \in Session /\ SessionFits(NoSession)
    /\ NoSession.section = 0 /\ NoSession.held = {} /\ NoSession.todo = {}
    /\ NoSession.pending = None /\ Done(NoSession) = {}
  BY DEF NoSession, Session, SessionFits, Waiting, Undone, Of, Done

\* What was rolled back depends on what was counted and on the errors.
LEMMA UndoneSame ==
    ASSUME NEW ses, NEW new, new.counted = ses.counted, new.errors = ses.errors
    PROVE  Undone(new) = Undone(ses)
  BY DEF Undone, Aborted

\* Of the servers all were rolled back, or none.
LEMMA UndoneServers ==
    ASSUME NEW ses
    PROVE  Of("server", ses.counted \ Undone(ses)) \in {{}, Of("server", ses.counted)}
  <1>1. CASE Aborted(ses, "server")
    BY <1>1 DEF Of, Undone
  <1>2. CASE ~ Aborted(ses, "server")
    BY <1>2 DEF Of, Undone
  <1> QED
    BY <1>1, <1>2

\* The updates of a session that the actions write.
LEMMA SessionWith ==
    ASSUME NEW s \in Session
    PROVE  /\ \A n \in 0..4, a \in SUBSET Things, b \in SUBSET Things :
                [s EXCEPT !.section = n, !.file = a, !.todo = b] \in Session
           /\ \A a \in SUBSET Things : [s EXCEPT !.todo = a] \in Session
           /\ \A a \in SUBSET Things : [s EXCEPT !.errors = a] \in Session
           /\ \A a \in SUBSET Things : [s EXCEPT !.skipped = a] \in Session
           /\ \A a \in SUBSET Things : [s EXCEPT !.held = a] \in Session
           /\ \A g \in SUBSET {Label(x) : x \in Things} : [s EXCEPT !.gone = g] \in Session
           /\ \A p \in Things \cup {None}, a \in SUBSET Things :
                /\ [s EXCEPT !.pending = p, !.counted = a] \in Session
                /\ [s EXCEPT !.pending = p, !.held = a] \in Session
           /\ \A a \in SUBSET Things, b \in SUBSET Things :
                [s EXCEPT !.committed = a, !.held = b] \in Session
           /\ \A n \in 0..4, a \in SUBSET Things :
                [s EXCEPT !.section = n, !.todo = a] \in Session
           /\ \A n \in 0..4, r \in {"none", "ok", "error"} :
                [s EXCEPT !.section = n, !.reply = r] \in Session
           /\ \A n \in 0..4, a \in SUBSET Things, p \in Things \cup {None},
                 b \in SUBSET Things, r \in {"none", "ok", "error"} :
                [s EXCEPT !.section = n, !.todo = a, !.pending = p, !.held = b, !.reply = r]
                   \in Session
  <1> DEFINE N == 0..4
             T == SUBSET Things
             P == Things \cup {None}
             G == SUBSET {Label(x) : x \in Things}
             R == {"none", "ok", "error"}
  <1>1. Session = [section : N, file : T, todo : T, pending : P, held : T, counted : T,
                   committed : T, errors : T, skipped : T, gone : G, reply : R]
    BY DEF Session
  <1> HIDE DEF N, T, P, G, R
  <1>2. \A a \in T : /\ [s EXCEPT !.todo = a] \in Session
                     /\ [s EXCEPT !.errors = a] \in Session
                     /\ [s EXCEPT !.skipped = a] \in Session
                     /\ [s EXCEPT !.held = a] \in Session
    BY <1>1
  <1>3. \A g \in G : [s EXCEPT !.gone = g] \in Session
    BY <1>1
  <1>4. \A p \in P, a \in T : /\ [s EXCEPT !.pending = p, !.counted = a] \in Session
                             /\ [s EXCEPT !.pending = p, !.held = a] \in Session
    BY <1>1
  <1>5. \A a \in T, b \in T : [s EXCEPT !.committed = a, !.held = b] \in Session
    BY <1>1
  <1>6. \A n \in N, a \in T, b \in T :
           /\ [s EXCEPT !.section = n, !.todo = a] \in Session
           /\ [s EXCEPT !.section = n, !.file = a, !.todo = b] \in Session
    BY <1>1
  <1>7. \A n \in N, r \in R : [s EXCEPT !.section = n, !.reply = r] \in Session
    BY <1>1
  <1>8. \A n \in N, a \in T, p \in P, b \in T, r \in R :
           [s EXCEPT !.section = n, !.todo = a, !.pending = p, !.held = b, !.reply = r]
              \in Session
    BY <1>1
  <1> QED
    BY <1>2, <1>3, <1>4, <1>5, <1>6, <1>7, <1>8 DEF N, T, P, G, R

\* What Accounted says of the session that importer j has after a step.
LEMMA AccountedNext ==
    ASSUME NEW j \in Importers, NEW new, imports'[j] = new,
           new.reply # "error" => \A x \in Done(new) \ (new.errors \cup new.skipped) :
               Label(x) \in Present' \cup new.gone \cup {Label(y) : y \in Entered(new)}
    PROVE  (Accounted(imports[j]))'
  <1>1. /\ (imports[j])' = new /\ (Done(imports[j]))' = Done(new)
        /\ (Entered(imports[j]))' = Entered(new)
    BY DEF Done, Entered, Waiting, Undone, Aborted
  <1> QED
    BY <1>1 DEF Accounted

\* One session goes on, and the tables stay.
LEMMA OneSession ==
    ASSUME ConfigInv, NEW i \in Importers, NEW ses \in Session, Update(i, ses),
           UNCHANGED <<dataVars, accounts, exported, export>>, begun' \in 0..MaxOperations,
           SessionFits(ses), Accounted(ses),
           ses.section \notin 1..3 => ses.todo \cup ses.held = {} /\ ses.pending = None,
           \A x \in Of("schedule", ses.held) : Live(x.key)
    PROVE  ConfigInv'
  <1>1. RegistryInv'
    BY Frame DEF ConfigInv
  <1>2. \A j \in Importers : imports'[j] = IF j = i THEN ses ELSE imports[j]
    BY DEF Update, ConfigInv, ConfigTypeOK
  <1>3. ConfigTypeOK'
    BY <1>1, <1>2 DEF Update, ConfigInv, ConfigTypeOK, RegistryInv, Open
  <1>4. References'
    BY <1>2 DEF ConfigInv, References, dataVars, Live
  <1>5. ExportFits'
    BY DEF ConfigInv, ExportFits, dataVars, Live, ExportCovers
  <1>6. Present' = Present
    BY DEF Present, Table, dataVars, Live
  <1>7. \A j \in Importers : SessionFits(imports'[j]) /\ (Accounted(imports[j]))'
    <2> TAKE j \in Importers
    <2>1. CASE j = i
      BY <1>2, <1>6, <2>1, AccountedNext DEF Accounted
    <2>2. CASE j # i
      <3>1. SessionFits(imports[j]) /\ Accounted(imports[j]) /\ imports'[j] = imports[j]
        BY <1>2, <2>2 DEF ConfigInv
      <3> QED
        BY <1>6, <3>1, AccountedNext DEF Accounted
    <2> QED
      BY <2>1, <2>2
  <1> QED
    BY <1>1, <1>3, <1>4, <1>5, <1>7 DEF ConfigInv

LEMMA SectionNames == Sections[1] = "server" /\ Sections[2] = "schedule" /\ Sections[3] = "user"
  BY DEF Sections

LEMMA SessionIs ==
    ASSUME ConfigInv, NEW i \in Importers
    PROVE  /\ imports[i] \in Session /\ SessionFits(imports[i]) /\ Accounted(imports[i])
           /\ \A x \in Of("schedule", imports[i].held) : Live(x.key)
           /\ imports[i].section \in 0..4 /\ (Open(i) <=> imports[i].section \in 1..3)
           /\ ~ Open(i) => imports[i].todo = {} /\ imports[i].held = {} /\ imports[i].pending = None
  BY DEF ConfigInv, ConfigTypeOK, References, Open, Session

\* An item that was dealt with, in the account of its session.
LEMMA AccountItem ==
    ASSUME NEW ses \in Session, NEW new \in Session, NEW x, Accounted(ses), ses.reply # "error",
           Done(new) \subseteq Done(ses) \cup {x},
           ses.errors \subseteq new.errors, ses.skipped \subseteq new.skipped,
           ses.gone \subseteq new.gone,
           Entered(ses) \subseteq Entered(new),
           \/ x \in new.errors \cup new.skipped
           \/ Label(x) \in Present
           \/ \E y \in Entered(new) : Label(x) = Label(y)
    PROVE  Accounted(new)
  <1> SUFFICES ASSUME NEW z \in Done(new), z \notin new.errors \cup new.skipped
               PROVE  \/ Label(z) \in Present \cup new.gone
                      \/ \E y \in Entered(new) : Label(z) = Label(y)
    BY DEF Accounted
  <1>1. CASE z = x
    BY <1>1
  <1>2. CASE z # x
    <2>1. z \in Done(ses) \ (ses.errors \cup ses.skipped)
      BY <1>2
    <2>2. \/ Label(z) \in Present \cup ses.gone
          \/ \E y \in Entered(ses) : Label(z) = Label(y)
      BY <2>1 DEF Accounted
    <2> QED
      BY <2>2
  <1> QED
    BY <1>1, <1>2

LEMMA BeginStep ==
    ASSUME ConfigInv, NEW i \in Importers, NEW f \in Files \cup {exported}, ImportBegin(i, f),
           begun' \in 0..MaxOperations
    PROVE  ConfigInv'
  <1> DEFINE ses == [NoSession EXCEPT !.section = 1, !.file = f, !.todo = Of("server", f)]
  <1>1. f \in SUBSET Things
    BY DEF ConfigInv, ConfigTypeOK
  <1>2. /\ ses \in Session /\ ses.section = 1 /\ ses.file = f /\ ses.todo = Of("server", f)
        /\ ses.held = {} /\ ses.pending = None /\ ses.counted = {} /\ ses.committed = {}
        /\ ses.reply = "none"
    <2>1. Of("server", f) \in SUBSET Things
      BY <1>1 DEF Of
    <2>2. /\ NoSession \in Session /\ NoSession.held = {} /\ NoSession.pending = None
          /\ NoSession.counted = {} /\ NoSession.committed = {} /\ NoSession.reply = "none"
      BY NoSessionFits DEF NoSession
    <2>3. 1 \in 0..4
      OBVIOUS
    <2>4. ses \in Session
      BY <1>1, <2>1, <2>2, <2>3, SessionWith, Zenon
    <2> QED
      BY <2>2, <2>4 DEF Session
  <1>3. Update(i, ses) /\ UNCHANGED <<dataVars, accounts, exported, export>>
    BY DEF ImportBegin
  <1> HIDE DEF ses
  <1>4. SessionFits(ses)
    BY <1>2, SectionNames DEF SessionFits, Waiting
  <1>5. Done(ses) = {}
    BY <1>2, SectionNames DEF Done, Of
  <1> QED
    BY <1>2, <1>3, <1>4, <1>5, OneSession DEF Accounted, Of

\* An item of the section is dealt with.
LEMMA ItemDone ==
    ASSUME ConfigInv, NEW i \in Importers, NEW x \in imports[i].todo, NEW new \in Session,
           imports[i].section \in 1..3, imports[i].pending = None, Update(i, new),
           UNCHANGED <<dataVars, accounts, exported, export>>, begun' \in 0..MaxOperations,
           new.section = imports[i].section, new.file = imports[i].file,
           new.todo = imports[i].todo \ {x},
           new.committed = imports[i].committed, new.reply = imports[i].reply,
           new.gone = imports[i].gone,
           imports[i].errors \subseteq new.errors, imports[i].skipped \subseteq new.skipped,
           \/ /\ new.pending = None /\ new.counted = imports[i].counted
              /\ new.held = imports[i].held /\ Undone(new) = Undone(imports[i])
           \/ /\ new.pending = x /\ new.counted = imports[i].counted \cup {x}
              /\ new.held = imports[i].held /\ new.errors = imports[i].errors
              /\ ~ Aborted(imports[i], x.kind)
           \/ /\ new.pending = None /\ new.counted = imports[i].counted
              /\ new.held = {} /\ new.errors = imports[i].errors \cup {x}
              /\ x.quality = "refused",
           \/ x \in new.errors \cup new.skipped
           \/ new.pending = x
           \/ Found(imports[i], x) # {}
    PROVE  ConfigInv'
  <1> DEFINE ses == imports[i]
  <1>1. /\ ses \in Session /\ SessionFits(ses) /\ Accounted(ses)
        /\ \A y \in Of("schedule", ses.held) : Live(y.key)
        /\ ses.section \in 1..3 /\ ses.pending = None
    BY SessionIs
  <1>2. x \in Things /\ x # None /\ x.kind = Sections[ses.section]
    BY <1>1 DEF SessionFits, Session, Of
  <1>3. ses.reply = "none"
    BY <1>1 DEF SessionFits, Session
  <1>4. new.section \in 1..3 /\ (new.section = 1 <=> x.kind = "server")
    BY <1>2, <1>1, SectionNames
  <1>5. Waiting(new) = IF new.pending = None THEN {} ELSE {x}
    BY DEF Waiting
  <1>6. Waiting(ses) = {}
    BY <1>1 DEF Waiting
  <1>7. /\ SessionFits(new) /\ Entered(ses) \subseteq Entered(new)
        /\ new.held \subseteq ses.held
    <2>1. CASE /\ new.pending = None /\ new.counted = ses.counted
               /\ new.held = ses.held /\ Undone(new) = Undone(ses)
      BY <1>1, <1>2, <1>3, <1>4, <1>5, <1>6, <2>1 DEF SessionFits, Of, Entered
    <2>2. CASE /\ new.pending = x /\ new.counted = ses.counted \cup {x}
               /\ new.held = ses.held /\ new.errors = ses.errors
               /\ ~ Aborted(ses, x.kind)
      <3>1. Undone(new) = Undone(ses) /\ x \notin Undone(new)
        BY <2>2 DEF Undone, Aborted
      <3>2. new.counted \ Undone(new) = (ses.counted \ Undone(ses)) \cup {x}
        BY <2>2, <3>1
      <3> QED
        BY <1>1, <1>2, <1>3, <1>4, <1>5, <1>6, <2>2, <3>1, <3>2 DEF SessionFits, Of, Entered
    <2>3. CASE /\ new.pending = None /\ new.counted = ses.counted /\ new.held = {}
               /\ new.errors = ses.errors \cup {x} /\ x.quality = "refused"
      <3>1. \A y \in ses.counted : y \in Undone(new) <=>
                \/ y \in Undone(ses)
                \/ (x.kind = "server" <=> y.kind = "server")
        BY <2>3 DEF Undone, Aborted
      <3>2. \A y \in ses.held : y \in ses.counted /\ (x.kind = "server" <=> y.kind = "server")
        BY <1>1, <1>2, <1>3, <1>4, <1>6 DEF SessionFits
      <3>3. Undone(new) \subseteq ses.counted /\ Undone(ses) \subseteq ses.counted
        BY <2>3 DEF Undone
      <3>4. new.committed = new.counted \ Undone(new)
        <4>1. CASE x.kind = "server"
          BY <1>1, <1>2, <1>4, <2>3, <3>1, <3>3, <4>1 DEF SessionFits
        <4>2. CASE x.kind # "server"
          <5>1. ses.committed \cup ses.held = ses.counted \ Undone(ses)
                /\ ses.committed = Of("server", ses.counted \ Undone(ses))
            BY <1>1, <1>3, <1>4, <1>6, <4>2 DEF SessionFits
          <5> QED
            BY <2>3, <3>1, <3>2, <3>3, <4>2, <5>1 DEF Of
        <4> QED
          BY <4>1, <4>2
      <3>5. Entered(ses) \subseteq Entered(new)
        BY <1>6, <3>1, <3>2, <3>3 DEF Entered
      <3>6. \A y \in new.counted \ Undone(new) : new.section # 1 => y.kind = "server"
        BY <1>4, <2>3, <3>1
      <3> QED
        BY <1>1, <1>2, <1>3, <1>4, <1>5, <1>6, <2>3, <3>4, <3>5, <3>6 DEF SessionFits, Of
    <2> QED
      BY <2>1, <2>2, <2>3
  <1>8. Done(new) \subseteq Done(ses) \cup {x}
    BY DEF Done
  <1>9. \/ x \in new.errors \cup new.skipped
        \/ Label(x) \in Present
        \/ \E y \in Entered(new) : Label(x) = Label(y)
    <2>1. CASE new.pending = x
      BY <2>1, <1>2, <1>5 DEF Entered
    <2>2. CASE Found(ses, x) # {}
      <3>1. PICK r \in Table \cup ses.held : Label(r) = Label(x)
        BY <2>2, Zenon DEF Found
      <3>2. CASE r \in Table
        BY <3>1, <3>2, Zenon DEF Present
      <3>3. CASE r \in ses.held
        BY <1>7, <3>1, <3>3 DEF Entered
      <3> QED
        BY <3>1, <3>2, <3>3
    <2> QED
      BY <2>1, <2>2
  <1>10. Accounted(new)
    BY <1>1, <1>3, <1>7, <1>8, <1>9, AccountItem
  <1>11. \A y \in Of("schedule", new.held) : Live(y.key)
    BY <1>1, <1>7 DEF Of
  <1> QED
    BY <1>1, <1>4, <1>7, <1>10, <1>11, OneSession

LEMMA ItemStep ==
    ASSUME ConfigInv, NEW i \in Importers, NEW x \in imports[i].todo, ImportItem(i, x)
    PROVE  ConfigInv'
  <1> DEFINE ses  == imports[i]
             rest == [ses EXCEPT !.todo = @ \ {x}]
             err  == [rest EXCEPT !.errors = @ \cup {x}]
             stop == [err EXCEPT !.held = {}]
             skip == [rest EXCEPT !.skipped = @ \cup {x}]
             pend == [rest EXCEPT !.pending = x, !.counted = @ \cup {x}]
  <1>1. ses \in Session /\ ses.section \in 1..3 /\ ses.pending = None /\ SessionFits(ses)
    BY SessionIs DEF ImportItem
  <1>2. x \in Things
    BY <1>1 DEF Session
  <1>3. UNCHANGED <<dataVars, accounts, exported, export>> /\ begun' \in 0..MaxOperations
    BY DEF ImportItem, registryVars, ConfigInv, RegistryInv, RegistryTypeOK
  <1>4. Update(i, LookedUp(ses, x))
    BY DEF ImportItem
  <1>5. \/ LookedUp(ses, x) = skip
        \/ LookedUp(ses, x) = err /\ (x.quality # "refused" \/ Aborted(ses, x.kind))
        \/ LookedUp(ses, x) = stop /\ x.quality = "refused"
        \/ LookedUp(ses, x) = pend /\ ~ Aborted(ses, x.kind)
        \/ LookedUp(ses, x) = rest /\ Found(ses, x) # {}
    <2>1. "odd" # "refused"
      OBVIOUS
    <2> QED
      BY <2>1, Zenon DEF LookedUp
  <1>6. /\ rest \in Session /\ rest.section = ses.section /\ rest.file = ses.file
        /\ rest.todo = ses.todo \ {x} /\ rest.held = ses.held /\ rest.gone = ses.gone
        /\ rest.committed = ses.committed /\ rest.reply = ses.reply
        /\ rest.errors = ses.errors /\ rest.skipped = ses.skipped
        /\ rest.pending = None /\ rest.counted = ses.counted
    <2>1. ses.todo \ {x} \in SUBSET Things
      BY <1>1 DEF Session
    <2>2. rest \in Session
      BY <1>1, <2>1, SessionWith
    <2> QED
      BY <1>1, <2>2 DEF Session
  <1> HIDE DEF rest
  <1>7. /\ rest.errors \cup {x} \in SUBSET Things /\ rest.skipped \cup {x} \in SUBSET Things
        /\ rest.counted \cup {x} \in SUBSET Things
    BY <1>2, <1>6 DEF Session
  <1>8. err \in Session /\ skip \in Session /\ pend \in Session
    BY <1>2, <1>6, <1>7, SessionWith
  <1>9. CASE LookedUp(ses, x) = err /\ (x.quality # "refused" \/ Aborted(ses, x.kind))
    <2>1. /\ err.section = rest.section /\ err.file = rest.file /\ err.todo = rest.todo
          /\ err.held = rest.held /\ err.gone = rest.gone /\ err.committed = rest.committed
          /\ err.reply = rest.reply /\ err.errors = rest.errors \cup {x}
          /\ err.skipped = rest.skipped /\ err.pending = rest.pending
          /\ err.counted = rest.counted
      BY <1>6 DEF Session
    <2> HIDE DEF err
    <2>2. Undone(err) = Undone(ses)
      BY <1>6, <1>9, <2>1 DEF Undone, Aborted
    <2> QED
      BY <1>1, <1>3, <1>4, <1>6, <1>8, <1>9, <2>1, <2>2, ItemDone
  <1>13. CASE LookedUp(ses, x) = stop /\ x.quality = "refused"
    <2>1. stop \in Session
      <3>1. {} \in SUBSET Things
        OBVIOUS
      <3> QED
        BY <1>8, <3>1, SessionWith
    <2>2. /\ stop.section = rest.section /\ stop.file = rest.file /\ stop.todo = rest.todo
          /\ stop.held = {} /\ stop.gone = rest.gone /\ stop.committed = rest.committed
          /\ stop.reply = rest.reply /\ stop.errors = rest.errors \cup {x}
          /\ stop.skipped = rest.skipped /\ stop.pending = rest.pending
          /\ stop.counted = rest.counted
      BY <1>6, <1>8 DEF Session
    <2> HIDE DEF stop
    <2> QED
      BY <1>1, <1>3, <1>4, <1>6, <1>13, <2>1, <2>2, ItemDone
  <1>10. CASE LookedUp(ses, x) = skip
    <2>1. /\ skip.section = rest.section /\ skip.file = rest.file /\ skip.todo = rest.todo
          /\ skip.held = rest.held /\ skip.gone = rest.gone
          /\ skip.committed = rest.committed /\ skip.reply = rest.reply
          /\ skip.errors = rest.errors /\ skip.skipped = rest.skipped \cup {x}
          /\ skip.pending = rest.pending /\ skip.counted = rest.counted
      BY <1>6 DEF Session
    <2> HIDE DEF skip
    <2>2. Undone(skip) = Undone(ses)
      BY <1>6, <2>1, UndoneSame
    <2> QED
      BY <1>1, <1>3, <1>4, <1>6, <1>8, <1>10, <2>1, <2>2, ItemDone
  <1>11. CASE LookedUp(ses, x) = pend /\ ~ Aborted(ses, x.kind)
    <2>1. /\ pend.section = rest.section /\ pend.file = rest.file /\ pend.todo = rest.todo
          /\ pend.held = rest.held /\ pend.gone = rest.gone
          /\ pend.committed = rest.committed /\ pend.reply = rest.reply
          /\ pend.errors = rest.errors /\ pend.skipped = rest.skipped
          /\ pend.pending = x /\ pend.counted = rest.counted \cup {x}
      BY <1>6 DEF Session
    <2> HIDE DEF pend
    <2> QED
      BY <1>1, <1>3, <1>4, <1>6, <1>8, <1>11, <2>1, ItemDone
  <1>12. CASE LookedUp(ses, x) = rest /\ Found(ses, x) # {}
    <2>1. Undone(rest) = Undone(ses)
      BY <1>6, UndoneSame
    <2> QED
      BY <1>1, <1>3, <1>4, <1>6, <1>12, <2>1, ItemDone
  <1> QED
    BY <1>5, <1>9, <1>10, <1>11, <1>12, <1>13

\* What the session has dealt with stays accounted for.
LEMMA AccountKept ==
    ASSUME NEW ses \in Session, NEW new \in Session, Accounted(ses),
           new.reply # "error" => ses.reply # "error" /\ Done(new) \subseteq Done(ses),
           ses.errors \subseteq new.errors, ses.skipped \subseteq new.skipped,
           \A l \in Present \cup ses.gone : l \in Present' \cup new.gone,
           \A y \in Entered(ses) :
               \/ Label(y) \in Present'
               \/ y \in Entered(new)
    PROVE  new.reply # "error" => \A x \in Done(new) \ (new.errors \cup new.skipped) :
               Label(x) \in Present' \cup new.gone \cup {Label(y) : y \in Entered(new)}
  <1> SUFFICES ASSUME new.reply # "error",
                      NEW x \in Done(new), x \notin new.errors \cup new.skipped
               PROVE  \/ Label(x) \in Present' \cup new.gone
                      \/ \E y \in Entered(new) : Label(x) = Label(y)
    OBVIOUS
  <1>1. \/ Label(x) \in Present \cup ses.gone
        \/ \E y \in Entered(ses) : Label(x) = Label(y)
    BY DEF Accounted
  <1> QED
    BY <1>1

\* The same when the tables stay.
LEMMA AccountStays ==
    ASSUME NEW ses \in Session, NEW new \in Session, Accounted(ses),
           new.reply # "error" => ses.reply # "error" /\ Done(new) \subseteq Done(ses),
           ses.errors \subseteq new.errors, ses.skipped \subseteq new.skipped,
           ses.gone \subseteq new.gone,
           new.reply # "error" =>
               \A y \in Entered(ses) : y \in Entered(new)
    PROVE  Accounted(new)
  <1> SUFFICES ASSUME new.reply # "error",
                      NEW x \in Done(new), x \notin new.errors \cup new.skipped
               PROVE  \/ Label(x) \in Present \cup new.gone
                      \/ \E y \in Entered(new) : Label(x) = Label(y)
    BY DEF Accounted
  <1>1. \/ Label(x) \in Present \cup ses.gone
        \/ \E y \in Entered(ses) : Label(x) = Label(y)
    BY DEF Accounted
  <1> QED
    BY <1>1

\* The row added last is sent, or its failure ends the import.
LEMMA FlushStep ==
    ASSUME ConfigInv, NEW i \in Importers, ImportFlush(i)
    PROVE  ConfigInv'
  <1> DEFINE ses  == imports[i]
             sent == [ses EXCEPT !.pending = None, !.held = @ \cup {ses.pending}]
  <1>1. /\ ses \in Session /\ SessionFits(ses) /\ Accounted(ses)
        /\ \A y \in Of("schedule", ses.held) : Live(y.key)
        /\ ses.section \in 1..3 /\ ses.pending # None
    BY SessionIs DEF ImportFlush
  <1>2. /\ ses.pending \in Things /\ Waiting(ses) = {ses.pending} /\ ses.reply = "none"
    BY <1>1 DEF Session, Waiting, SessionFits
  <1>3. UNCHANGED <<dataVars, accounts, exported, export>> /\ begun' \in 0..MaxOperations
    BY DEF ImportFlush, registryVars, ConfigInv, RegistryInv, RegistryTypeOK
  <1>4. CASE Update(i, Broken(ses))
    <2> DEFINE new == [ses EXCEPT !.section = 4, !.todo = {}, !.pending = None, !.held = {},
                                  !.reply = "error"]
    <2>1. new \in Session
      <3>1. 4 \in 0..4
        OBVIOUS
      <3> QED
        BY <1>1, <3>1, SessionWith, Zenon
    <2>2. /\ new.section = 4 /\ new.todo = {} /\ new.pending = None /\ new.held = {}
          /\ new.reply = "error" /\ new.committed = ses.committed
          /\ new.counted = ses.counted
      BY <1>1 DEF Session
    <2>3. Update(i, new)
      BY <1>4 DEF Broken
    <2> HIDE DEF new
    <2>4. SessionFits(new)
      BY <1>1, <2>2, UndoneServers DEF SessionFits
    <2>5. Accounted(new)
      BY <2>2 DEF Accounted
    <2> QED
      BY <1>3, <2>1, <2>2, <2>3, <2>4, <2>5, OneSession DEF Of
  <1>5. CASE ~ Rejected(ses) /\ Update(i, sent)
    <2>1. ses.held \cup {ses.pending} \in SUBSET Things
      BY <1>1, <1>2 DEF Session
    <2>2. sent \in Session
      BY <1>1, <2>1, SessionWith
    <2>3. /\ sent.section = ses.section /\ sent.file = ses.file /\ sent.todo = ses.todo
          /\ sent.pending = None /\ sent.held = ses.held \cup {ses.pending}
          /\ sent.counted = ses.counted /\ sent.committed = ses.committed
          /\ sent.errors = ses.errors /\ sent.skipped = ses.skipped
          /\ sent.gone = ses.gone /\ sent.reply = ses.reply
      BY <1>1 DEF Session
    <2> HIDE DEF sent
    <2>4. sent.held \cup Waiting(sent) = ses.held \cup Waiting(ses)
      BY <1>2, <2>3 DEF Waiting
    <2>9. Undone(sent) = Undone(ses) /\ Entered(sent) = Entered(ses)
      BY <2>3, <2>4, UndoneSame DEF Entered
    <2>5. SessionFits(sent)
      BY <1>1, <1>2, <2>3, <2>4, <2>9 DEF SessionFits
    <2>6. Done(sent) = Done(ses)
      BY <2>3 DEF Done
    <2>7. Accounted(sent)
      BY <1>1, <1>2, <2>2, <2>3, <2>6, <2>9, AccountStays
    <2>8. \A y \in Of("schedule", sent.held) : Live(y.key)
      BY <1>1, <1>5, <2>3 DEF Rejected, Of
    <2> QED
      BY <1>1, <1>3, <1>5, <2>2, <2>3, <2>5, <2>7, <2>8, OneSession
  <1> QED
    BY <1>4, <1>5 DEF ImportFlush

LEMMA SchedulesStep ==
    ASSUME ConfigInv, NEW i \in Importers, ImportSchedules(i)
    PROVE  ConfigInv'
  <1> DEFINE ses == imports[i]
             new == [ses EXCEPT !.section = 3, !.todo = Of("user", ses.file)]
  <1>1. /\ ses \in Session /\ SessionFits(ses) /\ Accounted(ses)
        /\ \A y \in Of("schedule", ses.held) : Live(y.key)
        /\ ses.section = 2 /\ ses.todo = {} /\ ses.pending = None
    BY SessionIs DEF ImportSchedules, Ended
  <1>2. UNCHANGED <<dataVars, accounts, exported, export>> /\ begun' \in 0..MaxOperations
    BY DEF ImportSchedules, registryVars, ConfigInv, RegistryInv, RegistryTypeOK
  <1>3. Update(i, new)
    <2>1. ses.section + 1 = 3 /\ Sections[ses.section + 1] = "user"
      BY <1>1, SectionNames
    <2>2. Update(i, [ses EXCEPT !.section = ses.section + 1,
                                !.todo = Of(Sections[ses.section + 1], ses.file)])
      BY DEF ImportSchedules, NextSection
    <2> QED
      BY <2>1, <2>2
  <1>4. Of("user", ses.file) \in SUBSET Things
    BY <1>1 DEF Session, Of
  <1>5. new \in Session
    <2>1. 3 \in 0..4
      OBVIOUS
    <2> QED
      BY <1>1, <1>4, <2>1, SessionWith, Zenon
  <1>6. /\ new.section = 3 /\ new.file = ses.file /\ new.todo = Of("user", ses.file)
        /\ new.pending = None /\ new.held = ses.held /\ new.counted = ses.counted
        /\ new.committed = ses.committed /\ new.errors = ses.errors
        /\ new.skipped = ses.skipped /\ new.gone = ses.gone /\ new.reply = ses.reply
    BY <1>1 DEF Session
  <1> HIDE DEF new
  <1>7. /\ Waiting(new) = {} /\ Waiting(ses) = {}
        /\ Undone(new) = Undone(ses) /\ Entered(new) = Entered(ses)
    BY <1>1, <1>6, UndoneSame DEF Waiting, Entered
  <1>8. SessionFits(new)
    BY <1>1, <1>6, <1>7, SectionNames DEF SessionFits
  <1>9. Done(new) \subseteq Done(ses)
    BY <1>1, <1>6, SectionNames DEF Done, Of
  <1>10. Accounted(new)
    BY <1>1, <1>5, <1>6, <1>7, <1>9, AccountStays DEF SessionFits
  <1> QED
    BY <1>1, <1>2, <1>3, <1>5, <1>6, <1>8, <1>10, OneSession

-----------------------------------------------------------------------------
(* Steps that change the tables                                             *)

\* What the invariant says of one session.
SessionOK(j) ==
    /\ imports[j] \in Session /\ SessionFits(imports[j]) /\ Accounted(imports[j])
    /\ \A x \in Of("schedule", imports[j].held) : Live(x.key)
    /\ imports[j].section \notin 1..3 =>
           imports[j].todo \cup imports[j].held = {} /\ imports[j].pending = None

LEMMA Assemble ==
    ASSUME RegistryInv', accounts' \subseteq Of("user", Things), exported' \subseteq Things,
           export' \in Exporting, ExportFits',
           imports' \in [Importers -> Session], \A j \in Importers : SessionOK(j)',
           \A s \in Servers : Live(s)' => rows'[s].name \in Names,
           \A x \in schedules' : Live(x.server)'
    PROVE  ConfigInv'
  <1>1. ConfigTypeOK'
    BY DEF ConfigTypeOK, SessionOK, RegistryInv, Open
  <1>2. References'
    BY DEF References, SessionOK
  <1>3. \A j \in Importers : (SessionFits(imports[j]) /\ Accounted(imports[j]))'
    BY DEF SessionOK
  <1> QED
    BY <1>1, <1>2, <1>3 DEF ConfigInv

\* An export goes on being covered while rows appear and go.
LEMMA ExportKept ==
    ASSUME ConfigInv, UNCHANGED <<exported, export>>,
           \A s \in Servers : /\ rows'[s].state = "free" => rows[s].state = "free"
                              /\ Live(s)' => rows[s].state = "free" \/ Live(s)
    PROVE  ExportFits' /\ export' \in Exporting /\ exported' \subseteq Things
  <1>1. /\ ExportFits /\ export \in Exporting /\ exported \subseteq Things
    BY DEF ConfigInv, ConfigTypeOK
  <1>2. /\ export.step > 0 => \A s \in Servers : rows'[s].state = "free" => s \in export.unborn
        /\ export.step > 1 =>
              \A s \in Servers : Live(s)' => s \in export.listed \cup export.unborn
    BY <1>1 DEF ExportFits, Exporting
  <1> QED
    BY <1>1, <1>2 DEF ExportFits, ExportCovers

\* A session that only notes what others took away, or nothing.
LEMMA SessionKept ==
    ASSUME ConfigInv, NEW j \in Importers, NEW away \in SUBSET {Label(x) : x \in Things},
           Present \subseteq Present' \cup away,
           imports'[j] = [imports[j] EXCEPT !.gone = @ \cup away],
           \A x \in Of("schedule", imports[j].held) : Live(x.key) => Live(x.key)'
    PROVE  SessionOK(j)'
  <1> DEFINE ses == imports[j]
             new == [ses EXCEPT !.gone = ses.gone \cup away]
  <1>1. /\ ses \in Session /\ SessionFits(ses) /\ Accounted(ses)
        /\ \A x \in Of("schedule", ses.held) : Live(x.key)
        /\ ses.section \notin 1..3 => ses.todo \cup ses.held = {} /\ ses.pending = None
    BY SessionIs
  <1>2. ses.gone \cup away \in SUBSET {Label(x) : x \in Things}
    BY <1>1 DEF Session
  <1>3. new \in Session
    BY <1>1, <1>2, SessionWith
  <1>4. /\ new.section = ses.section /\ new.file = ses.file /\ new.todo = ses.todo
        /\ new.pending = ses.pending /\ new.held = ses.held /\ new.counted = ses.counted
        /\ new.committed = ses.committed /\ new.errors = ses.errors
        /\ new.skipped = ses.skipped /\ new.gone = ses.gone \cup away /\ new.reply = ses.reply
    BY <1>1 DEF Session
  <1>5. imports'[j] = new
    OBVIOUS
  <1> HIDE DEF new
  <1>6. /\ Waiting(new) = Waiting(ses) /\ Done(new) = Done(ses)
        /\ Undone(new) = Undone(ses) /\ Entered(new) = Entered(ses)
    BY <1>4, UndoneSame DEF Waiting, Done, Entered
  <1>7. SessionFits(new)
    BY <1>1, <1>4, <1>6 DEF SessionFits
  <1>8. new.reply # "error" => \A x \in Done(new) \ (new.errors \cup new.skipped) :
            Label(x) \in Present' \cup new.gone \cup {Label(y) : y \in Entered(new)}
    BY <1>1, <1>3, <1>4, <1>6, AccountKept
  <1>9. (Accounted(imports[j]))'
    BY <1>5, <1>8, AccountedNext
  <1>10. SessionFits(imports[j])'
    BY <1>5, <1>7 DEF SessionFits, Waiting, Undone, Aborted
  <1> QED
    BY <1>1, <1>3, <1>4, <1>5, <1>9, <1>10 DEF SessionOK

LEMMA OtherKept ==
    ASSUME ConfigInv, NEW j \in Importers, imports'[j] = imports[j], Present \subseteq Present',
           \A x \in Of("schedule", imports[j].held) : Live(x.key) => Live(x.key)'
    PROVE  SessionOK(j)'
  <1>1. imports[j] \in Session
    BY SessionIs
  <1>2. imports[j] = [imports[j] EXCEPT !.gone = @ \cup {}]
    BY <1>1 DEF Session
  <1>3. {} \in SUBSET {Label(x) : x \in Things} /\ Present \subseteq Present' \cup {}
    OBVIOUS
  <1> QED
    BY <1>2, <1>3, SessionKept

\* The second commit.
LEMMA UsersStep ==
    ASSUME ConfigInv, NEW i \in Importers, ImportUsers(i)
    PROVE  ConfigInv'
  <1> DEFINE ses == imports[i]
             com == [ses EXCEPT !.committed = @ \cup ses.held, !.held = {}]
             new == [com EXCEPT !.section = 4, !.reply = "ok"]
  <1>1. /\ ses \in Session /\ SessionFits(ses) /\ Accounted(ses)
        /\ \A y \in Of("schedule", ses.held) : Live(y.key)
        /\ ses.section = 3 /\ ses.todo = {} /\ ses.pending = None
    BY SessionIs DEF ImportUsers, Ended
  <1>2. /\ UNCHANGED <<rows, column, lost, keys, calls, jobs, begun, exported, export>>
        /\ schedules' = schedules \cup
             {[name |-> x.name, server |-> x.key] : x \in Of("schedule", ses.held)}
        /\ accounts' = accounts \cup Of("user", ses.held)
        /\ Update(i, new)
    BY DEF ImportUsers, Committed
  <1>3. ses.held \subseteq Things /\ \A x \in ses.held : x.kind \in {"schedule", "user"}
    BY <1>1, Kinds DEF Session, SessionFits
  <1>4. com \in Session
    <2>1. ses.committed \cup ses.held \in SUBSET Things /\ {} \in SUBSET Things
      BY <1>1 DEF Session
    <2> QED
      BY <1>1, <2>1, SessionWith
  <1>5. new \in Session
    <2>1. 4 \in 0..4 /\ "ok" \in {"none", "ok", "error"}
      OBVIOUS
    <2> HIDE DEF com
    <2> QED
      BY <1>4, <2>1, SessionWith, Zenon
  <1>6. /\ new.section = 4 /\ new.file = ses.file /\ new.todo = ses.todo
        /\ new.pending = None /\ new.held = {} /\ new.counted = ses.counted
        /\ new.committed = ses.committed \cup ses.held /\ new.errors = ses.errors
        /\ new.skipped = ses.skipped /\ new.gone = ses.gone /\ new.reply = "ok"
    BY <1>1 DEF Session
  <1> HIDE DEF new, com
  <1>7. schedules' \subseteq [name : Schedules, server : Servers]
    BY <1>2, <1>3, Kinds DEF ConfigInv, RegistryInv, RegistryTypeOK, Of
  <1>8. RegistryInv'
    BY <1>2, <1>7, RowsGrow DEF ConfigInv, RegistryInv, RegistryTypeOK
  <1>9. /\ Present \subseteq Present'
        /\ \A x \in ses.held : Label(x) \in Present'
    <2>1. (\A l : l \in Present <=>
              \/ \E s \in Servers : Live(s) /\ l = <<"server", rows[s].name>>
              \/ \E x \in schedules : l = <<"schedule", x.name>>
              \/ \E x \in accounts : l = Label(x))'
      BY PresentIs, PTL
    <2>2. Present \subseteq Present'
      BY <1>2, <2>1, PresentIs DEF Live
    <2>3. ASSUME NEW x \in ses.held, x.kind = "user" PROVE Label(x) \in Present'
      BY <1>2, <2>1, <2>3 DEF Of
    <2>4. ASSUME NEW x \in ses.held, x.kind = "schedule" PROVE Label(x) \in Present'
      <3>1. [name |-> x.name, server |-> x.key] \in schedules'
        BY <1>2, <2>4 DEF Of
      <3>2. Label(x) = <<"schedule", x.name>>
        BY <2>4 DEF Label
      <3> QED
        BY <2>1, <3>1, <3>2
    <2> QED
      BY <1>3, <2>2, <2>3, <2>4
  <1>10. /\ Waiting(new) = {} /\ Waiting(ses) = {}
         /\ Undone(new) = Undone(ses) /\ Entered(ses) = ses.held \cup Undone(new)
         /\ Entered(new) = Undone(new)
    BY <1>1, <1>6, UndoneSame DEF Waiting, Entered
  <1>11. SessionFits(new)
    BY <1>1, <1>6, <1>10 DEF SessionFits
  <1>12. new.reply # "error" => \A x \in Done(new) \ (new.errors \cup new.skipped) :
            Label(x) \in Present' \cup new.gone \cup {Label(y) : y \in Entered(new)}
    <2>1. Done(new) \subseteq Done(ses)
      BY <1>1, <1>6 DEF Done
    <2>2. ses.reply # "error"
      BY <1>1 DEF SessionFits
    <2> QED
      BY <1>1, <1>5, <1>6, <1>9, <1>10, <2>1, <2>2, AccountKept
  <1>13. imports' \in [Importers -> Session] /\ imports'[i] = new
         /\ \A j \in Importers \ {i} : imports'[j] = imports[j]
    BY <1>2, <1>5 DEF Update, ConfigInv, ConfigTypeOK
  <1>14. SessionOK(i)'
    <2>1. imports'[i] = new
      BY <1>13
    <2>2. Of("schedule", new.held) = {}
      BY <1>6 DEF Of
    <2> QED
      BY <1>1, <1>5, <1>6, <1>11, <1>12, <2>1, <2>2 DEF SessionOK, Accounted, Entered, Waiting, Undone, Aborted
  <1>15. ASSUME NEW j \in Importers, j # i PROVE SessionOK(j)'
    <2>1. \A x \in Of("schedule", imports[j].held) : Live(x.key) => Live(x.key)'
      BY <1>2 DEF Live
    <2> QED
      BY <1>9, <1>13, <1>15, <2>1, OtherKept
  <1>16. ExportFits' /\ export' \in Exporting /\ exported' \subseteq Things
    BY <1>2, ExportKept DEF Live
  <1>17. /\ \A s \in Servers : Live(s)' => rows'[s].name \in Names
         /\ \A x \in schedules' : Live(x.server)'
    BY <1>1, <1>2 DEF ConfigInv, References, Live
  <1>18. accounts' \subseteq Of("user", Things)
    BY <1>2, <1>3 DEF ConfigInv, ConfigTypeOK, Of
  <1> QED
    BY <1>8, <1>13, <1>14, <1>15, <1>16, <1>17, <1>18, Assemble

\* The servers' commit.
LEMMA ServersStep ==
    ASSUME ConfigInv, NEW i \in Importers, ImportServers(i)
    PROVE  ConfigInv'
  <1> DEFINE ses == imports[i]
             com == [ses EXCEPT !.committed = @ \cup ses.held, !.held = {}]
             new == [com EXCEPT !.section = 2, !.todo = Of("schedule", ses.file)]
  <1>1. /\ ses \in Session /\ SessionFits(ses) /\ Accounted(ses)
        /\ ses.section = 1 /\ ses.todo = {} /\ ses.pending = None
    BY SessionIs DEF ImportServers, Ended
  <1>2. Waiting(ses) = {} /\ ses.reply = "none" /\ ses.committed = {}
        /\ ses.counted \ Undone(ses) = ses.held
    <2>1. Waiting(ses) = {}
      BY <1>1 DEF Waiting
    <2>2. ses.reply = "none"
      BY <1>1 DEF SessionFits, Session
    <2>3. ses.committed = {}
      BY <1>1 DEF SessionFits
    <2> QED
      BY <1>1, <2>1, <2>2, <2>3 DEF SessionFits
  <1>3. \A x \in ses.held : x \in Things /\ x.kind = "server" /\ x.name \in Names
    BY <1>1, <1>2, Kinds DEF SessionFits, Session
  <1>4. PICK ids \in [ses.held -> {s \in Servers : rows[s].state = "free"}] :
          /\ \A x, y \in ses.held : ids[x] = ids[y] => x = y
          /\ rows' = [s \in Servers |->
                 IF \E x \in ses.held : ids[x] = s
                 THEN [NoRow EXCEPT !.state = "live",
                         !.name = (CHOOSE x \in ses.held : ids[x] = s).name]
                 ELSE rows[s]]
    BY DEF ImportServers
  <1>5. /\ UNCHANGED <<column, lost, schedules, keys, calls, jobs, begun>>
        /\ UNCHANGED <<accounts, exported, export>>
        /\ Update(i, NextSection(Committed(ses)))
    BY DEF ImportServers
  <1>6. com \in Session
    <2>1. ses.committed \cup ses.held \in SUBSET Things /\ {} \in SUBSET Things
      BY <1>1 DEF Session
    <2> QED
      BY <1>1, <2>1, SessionWith
  <1>7. com.section = 1 /\ com.file = ses.file
    BY <1>1 DEF Session
  <1>8. new \in Session
    <2>1. 2 \in 0..4 /\ Of("schedule", ses.file) \in SUBSET Things
      BY <1>1 DEF Session, Of
    <2> HIDE DEF com
    <2> QED
      BY <1>6, <2>1, SessionWith, Zenon
  <1>9. /\ new.section = 2 /\ new.file = ses.file /\ new.todo = Of("schedule", ses.file)
        /\ new.pending = None /\ new.held = {} /\ new.counted = ses.counted
        /\ new.committed = ses.committed \cup ses.held /\ new.errors = ses.errors
        /\ new.skipped = ses.skipped /\ new.gone = ses.gone /\ new.reply = ses.reply
    BY <1>1 DEF Session
  <1>10. Update(i, new)
    <2> HIDE DEF com
    <2>1. com.section + 1 = 2 /\ Sections[com.section + 1] = "schedule"
      BY <1>7, SectionNames
    <2>2. Update(i, [com EXCEPT !.section = com.section + 1,
                                !.todo = Of(Sections[com.section + 1], com.file)])
      BY <1>5 DEF NextSection, Committed, com
    <2> QED
      BY <1>7, <2>1, <2>2
  <1> HIDE DEF new, com
  <1>11. \A x \in ses.held : /\ rows'[ids[x]] = [NoRow EXCEPT !.state = "live", !.name = x.name]
                             /\ ids[x] \in Servers /\ rows[ids[x]].state = "free"
    <2> TAKE x \in ses.held
    <2>1. ids[x] \in Servers /\ rows[ids[x]].state = "free"
      BY <1>4
    <2>2. (CHOOSE y \in ses.held : ids[y] = ids[x]) = x
      BY <1>4
    <2> QED
      BY <1>4, <2>1, <2>2
  <1>12. \A n \in Names : LET row == [NoRow EXCEPT !.state = "live", !.name = n] IN
            /\ row \in Row /\ row.state = "live" /\ row.name = n
            /\ row.secret = NoPassword /\ row.flag = FALSE
    BY Texts DEF NoRow, Row
  <1>13. \A s \in Servers : \/ rows'[s] = rows[s]
                            \/ \E x \in ses.held : ids[x] = s
    BY <1>4
  <1>14. \A s \in Servers : \/ rows'[s] = rows[s]
                            \/ /\ rows[s].state = "free" /\ rows'[s].state = "live"
                               /\ rows'[s].name \in Names /\ rows'[s] \in Row
                               /\ rows'[s].secret = NoPassword /\ rows'[s].flag = FALSE
    <2> TAKE s \in Servers
    <2>1. ASSUME NEW x \in ses.held, ids[x] = s
          PROVE  /\ rows[s].state = "free" /\ rows'[s].state = "live"
                 /\ rows'[s].name \in Names /\ rows'[s] \in Row
                 /\ rows'[s].secret = NoPassword /\ rows'[s].flag = FALSE
      <3>1. x.name \in Names /\ rows[s].state = "free"
            /\ rows'[s] = [NoRow EXCEPT !.state = "live", !.name = x.name]
        BY <1>3, <1>11, <2>1
      <3>2. rows'[s].state = "live" /\ rows'[s].name = x.name
        BY <1>12, <3>1
      <3>3. rows'[s] \in Row
        <4>1. [NoRow EXCEPT !.state = "live", !.name = x.name] \in Row
          BY <1>12, <3>1
        <4> QED
          BY <3>1, <4>1
      <3>4. rows'[s].secret = NoPassword /\ rows'[s].flag = FALSE
        BY <1>12, <3>1
      <3> QED
        BY <3>1, <3>2, <3>3, <3>4
    <2> QED
      BY <1>13, <2>1
  <1>15. rows' \in [Servers -> Row]
    <2>1. rows \in [Servers -> Row]
      BY DEF ConfigInv, RegistryInv, RegistryTypeOK
    <2>2. \A s \in Servers : rows'[s] \in Row
      BY <1>14, <2>1
    <2>3. DOMAIN rows' = Servers /\ rows' = [s \in Servers |-> rows'[s]]
      BY <1>4
    <2> QED
      BY <2>2, <2>3
  <1>16. RegistryInv'
    <2>1. schedules' \subseteq [name : Schedules, server : Servers]
      BY <1>5 DEF ConfigInv, RegistryInv, RegistryTypeOK
    <2> QED
      BY <1>5, <1>14, <1>15, <2>1, RowsGrow DEF ConfigInv
  <1>17. \A s \in Servers : Live(s) => Live(s)' /\ rows'[s].name = rows[s].name
    BY <1>14 DEF Live
  <1>18. /\ Present \subseteq Present'
         /\ \A x \in ses.held : Label(x) \in Present'
    <2>1. (\A l : l \in Present <=>
              \/ \E s \in Servers : Live(s) /\ l = <<"server", rows[s].name>>
              \/ \E x \in schedules : l = <<"schedule", x.name>>
              \/ \E x \in accounts : l = Label(x))'
      BY PresentIs, PTL
    <2>2. Present \subseteq Present'
      BY <1>5, <1>17, <2>1, PresentIs
    <2>3. ASSUME NEW x \in ses.held PROVE Label(x) \in Present'
      <3>1. Label(x) = <<"server", x.name>>
        BY <1>3 DEF Label
      <3>2. ids[x] \in Servers /\ Live(ids[x])' /\ rows'[ids[x]].name = x.name
        <4>1. x.name \in Names /\ ids[x] \in Servers
              /\ rows'[ids[x]] = [NoRow EXCEPT !.state = "live", !.name = x.name]
          BY <1>3, <1>11
        <4> QED
          BY <1>12, <4>1 DEF Live
      <3> QED
        BY <2>1, <3>1, <3>2
    <2> QED
      BY <2>2, <2>3
  <1>19. /\ Waiting(new) = {} /\ Undone(new) = Undone(ses)
         /\ Entered(ses) = ses.held \cup Undone(new) /\ Entered(new) = Undone(new)
    BY <1>2, <1>9, UndoneSame DEF Waiting, Entered
  <1>20. SessionFits(new)
    BY <1>2, <1>3, <1>9, <1>19, SectionNames DEF SessionFits, Of
  <1>21. new.reply # "error" => \A x \in Done(new) \ (new.errors \cup new.skipped) :
            Label(x) \in Present' \cup new.gone \cup {Label(y) : y \in Entered(new)}
    <2>1. Done(new) \subseteq Done(ses)
      BY <1>1, <1>9, SectionNames DEF Done, Of
    <2> QED
      BY <1>1, <1>2, <1>8, <1>9, <1>18, <1>19, <2>1, AccountKept
  <1>22. imports' \in [Importers -> Session] /\ imports'[i] = new
         /\ \A j \in Importers \ {i} : imports'[j] = imports[j]
    BY <1>8, <1>10 DEF Update, ConfigInv, ConfigTypeOK
  <1>23. SessionOK(i)'
    <2>1. Of("schedule", new.held) = {}
      BY <1>9 DEF Of
    <2>2. imports'[i] = new /\ new.section \in 1..3
      BY <1>9, <1>22
    <2> QED
      BY <1>8, <1>20, <1>21, <2>1, <2>2 DEF SessionOK, Accounted, Entered, Waiting, Undone, Aborted
  <1>24. ASSUME NEW j \in Importers, j # i PROVE SessionOK(j)'
    <2>1. \A x \in Of("schedule", imports[j].held) : Live(x.key) => Live(x.key)'
      <3>1. \A x \in Of("schedule", imports[j].held) : x.key \in Servers
        BY Kinds, SessionIs DEF Of, Session
      <3> QED
        BY <1>17, <3>1
    <2> QED
      BY <1>18, <1>22, <1>24, <2>1, OtherKept
  <1>25. ExportFits' /\ export' \in Exporting /\ exported' \subseteq Things
    BY <1>5, <1>14, ExportKept DEF Live
  <1>26. /\ \A s \in Servers : Live(s)' => rows'[s].name \in Names
         /\ \A x \in schedules' : Live(x.server)'
    BY <1>5, <1>14, <1>17 DEF ConfigInv, References, Live, RegistryInv, RegistryTypeOK
  <1>27. accounts' \subseteq Of("user", Things)
    BY <1>5 DEF ConfigInv, ConfigTypeOK
  <1> QED
    BY <1>16, <1>22, <1>23, <1>24, <1>25, <1>26, <1>27, Assemble

-----------------------------------------------------------------------------
(* Exports, other requests, and restarts                                    *)

\* Nothing but the export changes.
LEMMA ExportOnly ==
    ASSUME ConfigInv, UNCHANGED <<dataVars, accounts, imports>>, begun' \in 0..MaxOperations,
           ExportFits', export' \in Exporting, exported' \subseteq Things
    PROVE  ConfigInv'
  <1>1. RegistryInv'
    BY Frame DEF ConfigInv
  <1>2. Present' = Present /\ \A s \in Servers : Live(s) <=> Live(s)'
    BY DEF Present, Table, dataVars, Live
  <1>3. ASSUME NEW j \in Importers PROVE SessionOK(j)'
    <2>1. \A x \in Of("schedule", imports[j].held) : Live(x.key) => Live(x.key)'
      BY DEF Live, dataVars
    <2> QED
      BY <1>2, <2>1, OtherKept
  <1>4. /\ \A s \in Servers : Live(s)' => rows'[s].name \in Names
        /\ \A x \in schedules' : Live(x.server)'
    BY DEF ConfigInv, References, Live, dataVars
  <1>5. accounts' \subseteq Of("user", Things) /\ imports' \in [Importers -> Session]
    BY DEF ConfigInv, ConfigTypeOK
  <1> QED
    BY <1>1, <1>3, <1>4, <1>5, Assemble

LEMMA ExportBeginStep ==
    ASSUME ConfigInv, ExportBegin, begun' \in 0..MaxOperations
    PROVE  ConfigInv'
  <1>1. /\ export'.step = 1 /\ export'.read = {} /\ export'.listed = {}
        /\ export'.unborn = {s \in Servers : rows[s].state = "free"}
        /\ export' \in Exporting
    <2> DEFINE free == {s \in Servers : rows[s].state = "free"}
    <2>1. NoExport \in Exporting /\ NoExport.read = {} /\ NoExport.listed = {}
      BY DEF NoExport, Exporting
    <2>2. free \in SUBSET Servers /\ 1 \in 0..3
      OBVIOUS
    <2>3. export' = [NoExport EXCEPT !.step = 1, !.unborn = free]
      BY DEF ExportBegin
    <2> HIDE DEF free
    <2> QED
      BY <2>1, <2>2, <2>3 DEF Exporting, free
  <1>2. UNCHANGED <<dataVars, accounts, exported, imports>>
    BY DEF ExportBegin
  <1>3. ExportFits'
    BY <1>1, <1>2 DEF ExportFits, ExportCovers, Of, dataVars
  <1> QED
    BY <1>1, <1>2, <1>3, ExportOnly DEF ConfigInv, ConfigTypeOK

LEMMA ExportQueryStep ==
    ASSUME ConfigInv, ExportQuery
    PROVE  ConfigInv'
  <1> DEFINE kind   == ExportOrder[export.step]
             read   == export.read \cup Of(kind, Table)
             listed == IF kind = "server" THEN {s \in Servers : Live(s)} ELSE export.listed
  <1>1. /\ export \in Exporting /\ export.step \in 1..3 /\ ExportFits
        /\ kind = Sections[export.step]
    BY DEF ConfigInv, ConfigTypeOK, ExportQuery, ExportOrder
  <1>2. read \in SUBSET Things /\ listed \in SUBSET Servers
    BY <1>1, TableThings DEF Exporting, Of
  <1>3. /\ export' = [export EXCEPT !.step = (@ + 1) % 4, !.read = read, !.listed = listed]
        /\ exported' = IF export.step = 3 THEN read ELSE exported
        /\ UNCHANGED <<registryVars, accounts, imports>>
    BY DEF ExportQuery
  <1> DEFINE n == (export.step + 1) % 4
  <1>4. n \in 0..3 /\ n = IF export.step = 3 THEN 0 ELSE export.step + 1
    BY <1>1
  <1> HIDE DEF read, listed, n
  <1>5. /\ export' \in Exporting /\ export'.step = n /\ export'.read = read
        /\ export'.listed = listed /\ export'.unborn = export.unborn
    BY <1>1, <1>2, <1>3, <1>4 DEF Exporting, n
  <1>6. UNCHANGED dataVars /\ begun' \in 0..MaxOperations
    BY <1>3 DEF registryVars, ConfigInv, RegistryInv, RegistryTypeOK
  <1>7. \A s \in Servers : rows'[s] = rows[s] /\ (Live(s)' <=> Live(s))
    BY <1>6 DEF dataVars, Live
  <1>8. \A x \in Of("schedule", Table) : Live(x.key) /\ x.key \in Servers
    <2>1. \A x \in Table : x.kind = "schedule" =>
              \E y \in schedules : x = Good("schedule", y.name, y.server)
      BY DEF Table, Good, Thing, ConfigInv, ConfigTypeOK, Of
    <2> QED
      BY <2>1 DEF Good, Thing, ConfigInv, References, RegistryInv, RegistryTypeOK, Of
  <1>9. ExportFits'
    <2>1. CASE export.step = 1
      <3>1. kind = "server" /\ n = 2 /\ listed = {s \in Servers : Live(s)}
        BY <1>1, <1>4, <2>1, SectionNames DEF listed
      <3>2. Of("schedule", read) = {}
        BY <1>1, <2>1, <3>1 DEF ExportFits, Of, read
      <3> QED
        BY <1>1, <1>5, <1>7, <2>1, <3>1, <3>2 DEF ExportFits, ExportCovers
    <2>2. CASE export.step = 2
      <3>1. kind = "schedule" /\ n = 3 /\ listed = export.listed
        BY <1>1, <1>4, <2>2, SectionNames DEF listed
      <3>2. Of("schedule", read) \subseteq Of("schedule", Table)
        BY <1>1, <2>2 DEF ExportFits, Of, read
      <3>3. \A x \in Of("schedule", read) : x.key \in listed \cup export.unborn
        BY <1>1, <1>8, <2>2, <3>1, <3>2 DEF ExportFits
      <3> QED
        BY <1>1, <1>5, <1>7, <2>2, <3>1, <3>3 DEF ExportFits, ExportCovers
    <2>3. CASE export.step = 3
      <3>1. kind = "user" /\ n = 0 /\ listed = export.listed
        BY <1>1, <1>4, <2>3, SectionNames DEF listed
      <3>2. Of("schedule", read) \subseteq Of("schedule", export.read)
        BY <3>1 DEF Of, read
      <3>3. \A x \in Of("schedule", read) : x.key \in listed \cup export.unborn
        BY <1>1, <2>3, <3>1, <3>2 DEF ExportFits, ExportCovers
      <3> QED
        BY <1>5, <3>1, <3>3 DEF ExportFits, ExportCovers
    <2> QED
      BY <1>1, <2>1, <2>2, <2>3
  <1>10. exported' \subseteq Things
    BY <1>2, <1>3 DEF ConfigInv, ConfigTypeOK
  <1> QED
    BY <1>3, <1>5, <1>6, <1>9, <1>10, ExportOnly

\* What the requests of the registry do to the references.
LEMMA RowsMove ==
    ASSUME ConfigInv, Request \/ Deploy \/ Continue
    PROVE  /\ \A s \in Servers :
                 /\ rows'[s].state = "free" => rows[s].state = "free"
                 /\ Live(s)' => (rows[s].state = "free" \/ Live(s)) /\ rows'[s].name \in Names
                 /\ Live(s) /\ ~ Live(s)' => rows'[s].name = None
           /\ \A x \in schedules' : Live(x.server)'
  <1>1. /\ rows \in [Servers -> Row] /\ \A s \in Servers : rows[s] \in Row
        /\ \A s \in Servers : Live(s) => rows[s].name \in Names
        /\ \A x \in schedules : Live(x.server) /\ x.server \in Servers
    BY DEF ConfigInv, RegistryInv, RegistryTypeOK, References
  <1>2. CASE UNCHANGED <<rows, schedules>>
    BY <1>1, <1>2 DEF Live
  <1>3. ASSUME NEW n \in Schedules, NEW s \in Servers, AddSchedule(n, s)
        PROVE  UNCHANGED rows /\ \A x \in schedules' : Live(x.server)
    BY <1>1, <1>3 DEF AddSchedule
  <1>4. ASSUME NEW x \in schedules, RemoveSchedule(x)
        PROVE  UNCHANGED rows /\ \A y \in schedules' : Live(y.server)
    BY <1>1, <1>4 DEF RemoveSchedule
  <1>5. CASE UNCHANGED rows /\ \A x \in schedules' : Live(x.server)
    BY <1>1, <1>5 DEF Live
  <1>6. CASE Downgrade
    <2>1. \A s \in Servers : rows'[s].state = rows[s].state /\ rows'[s].name = rows[s].name
      BY <1>1, <1>6 DEF Downgrade, Row
    <2> QED
      BY <1>1, <1>6, <2>1 DEF Live, Downgrade
  <1>7. ASSUME NEW c \in Clients, CreateInsert(c), ~ UNCHANGED rows
        PROVE  \E s \in Servers : /\ rows[s].state = "free" /\ rows'[s].state = "live"
                                  /\ rows'[s].name \in Names
                                  /\ \A t \in Servers \ {s} : rows'[t] = rows[t]
    <2>1. calls[c].name \in Names
      BY <1>7 DEF CreateInsert, Doing, ConfigInv, RegistryInv, CallsFit
    <2>2. PICK s \in Servers :
              /\ rows[s].state = "free"
              /\ rows' = [rows EXCEPT ![s] =
                    [state |-> "live", name |-> calls[c].name,
                     secret |-> Encrypted(calls[c].secret), flag |-> calls[c].secret # None]]
      BY <1>7 DEF CreateInsert
    <2> QED
      BY <1>1, <2>1, <2>2
  <1>8. ASSUME NEW c \in Clients, UpdateCommit(c), ~ UNCHANGED rows
        PROVE  \E s \in Servers : /\ Live(s) /\ rows'[s].state = "live"
                                  /\ rows'[s].name \in Names
                                  /\ \A t \in Servers \ {s} : rows'[t] = rows[t]
    <2> DEFINE s == calls[c].id
    <2>1. /\ Live(s) /\ s \in Servers /\ rows' = [rows EXCEPT ![s] = Written(@, calls[c])]
          /\ calls[c].name \in Names \cup {Unset}
      BY <1>8 DEF UpdateCommit, UpdateFails, Doing, ConfigInv, RegistryInv, CallsFit,
                  RegistryTypeOK, Call
    <2>2. rows'[s] = Written(rows[s], calls[c])
      BY <1>1, <2>1
    <2>3. /\ Written(rows[s], calls[c]).state = rows[s].state
          /\ Written(rows[s], calls[c]).name =
                IF calls[c].name \in {Unset, calls[c].loaded.name} THEN rows[s].name
                ELSE calls[c].name
      BY <1>1, <2>1 DEF Written, Row
    <2> QED
      BY <1>1, <2>1, <2>2, <2>3 DEF Live
  <1>9. ASSUME NEW c \in Clients, DeleteCommit(c), ~ UNCHANGED rows
        PROVE  \E s \in Servers : /\ rows[s].state # "free" /\ rows'[s].state = "gone"
                                  /\ rows'[s].name = None
                                  /\ \A t \in Servers \ {s} : rows'[t] = rows[t]
                                  /\ \A x \in schedules : x.server # s
    <2> DEFINE s == calls[c].id
    <2>1. s \in Servers /\ rows[s].state # "free"
      BY <1>9 DEF DeleteCommit, Doing, ConfigInv, RegistryInv, CallsFit
    <2>2. /\ rows' = [rows EXCEPT ![s] = [NoRow EXCEPT !.state = "gone"]]
          /\ \A x \in schedules : x.server # s
      BY <1>9 DEF DeleteCommit
    <2>3. [NoRow EXCEPT !.state = "gone"].state = "gone"
          /\ [NoRow EXCEPT !.state = "gone"].name = None
      BY DEF NoRow
    <2> QED
      BY <1>1, <2>1, <2>2, <2>3
  <1>10. ASSUME NEW c \in Clients, CreateInsert(c) \/ UpdateCommit(c) \/ DeleteCommit(c)
         PROVE  UNCHANGED schedules
    BY <1>10 DEF CreateInsert, UpdateCommit, DeleteCommit
  <1>11. CASE \E c \in Clients : CreateInsert(c) \/ UpdateCommit(c) \/ DeleteCommit(c)
    <2>1. PICK c \in Clients : CreateInsert(c) \/ UpdateCommit(c) \/ DeleteCommit(c)
      BY <1>11
    <2>2. CASE UNCHANGED rows
      BY <1>2, <1>10, <2>1, <2>2
    <2>3. CASE CreateInsert(c) /\ ~ UNCHANGED rows
      BY <1>1, <1>7, <1>10, <2>3 DEF Live
    <2>4. CASE UpdateCommit(c) /\ ~ UNCHANGED rows
      BY <1>1, <1>8, <1>10, <2>4 DEF Live
    <2>5. CASE DeleteCommit(c) /\ ~ UNCHANGED rows
      BY <1>1, <1>9, <1>10, <2>5 DEF Live
    <2> QED
      BY <2>1, <2>2, <2>3, <2>4, <2>5
  <1>12. ASSUME \/ \E c \in Clients, n \in Names, p \in Secrets \cup {None} : CreateSelect(c, n, p)
                \/ \E c \in Clients, s \in Servers, n \in Names \cup {Unset},
                      p \in Secrets \cup {None, Unset} : UpdateSelect(c, s, n, p)
                \/ \E c \in Clients, s \in Servers : DeleteSelect(c, s)
                \/ \E j \in Jobs, s \in Servers : JobRead(j, s)
                \/ \E j \in Jobs : JobBind(j)
                \/ Upgrade \/ \E k \in Keys : RestartWorker(k)
         PROVE  UNCHANGED <<rows, schedules>>
    BY <1>12 DEF CreateSelect, UpdateSelect, DeleteSelect, JobRead, JobBind, Upgrade, RestartWorker
  <1> QED
    BY <1>2, <1>3, <1>4, <1>5, <1>6, <1>11, <1>12 DEF Request, Deploy, Continue

\* Sessions while others work: what is taken away is noted.
LEMMA NotedKept ==
    ASSUME ConfigInv, Noted,
           \A x \in Of("schedule", Held) : Live(x.key) => Live(x.key)'
    PROVE  imports' \in [Importers -> Session] /\ \A j \in Importers : SessionOK(j)'
  <1> DEFINE away == Present \ Present'
  <1>1. \A j \in Importers : \A x \in Of("schedule", imports[j].held) : Live(x.key) => Live(x.key)'
    BY DEF Held, Of
  <1>2. CASE UNCHANGED <<rows, schedules, accounts>>
    <2>1. Present' = Present /\ imports' = imports
      BY <1>2 DEF Present, Table, Live, Noted
    <2> QED
      BY <1>1, <2>1, OtherKept DEF ConfigInv, ConfigTypeOK
  <1>3. CASE ~ UNCHANGED <<rows, schedules, accounts>>
    <2>1. imports' = [i \in Importers |-> [imports[i] EXCEPT !.gone = @ \cup away]]
      BY <1>3 DEF Noted
    <2>2. away \in SUBSET {Label(x) : x \in Things} /\ Present \subseteq Present' \cup away
      BY TableThings
    <2> HIDE DEF away
    <2>3. ASSUME NEW j \in Importers PROVE SessionOK(j)'
      BY <1>1, <2>1, <2>2, SessionKept
    <2>4. \A j \in Importers : imports'[j] \in Session
      BY <2>3 DEF SessionOK
    <2> QED
      BY <2>1, <2>3, <2>4
  <1> QED
    BY <1>2, <1>3

\* A request of the registry, a deployment, or what follows of one.
LEMMA ElsewhereStep ==
    ASSUME ConfigInv, RegistryInv', Request \/ Deploy \/ Continue,
           Unblocked, UNCHANGED <<accounts, exported, export>>, Noted
    PROVE  ConfigInv'
  <1>1. \A x \in Of("schedule", Held) : Live(x.key) => Live(x.key)'
    <2> SUFFICES ASSUME NEW x \in Of("schedule", Held), Live(x.key), ~ Live(x.key)'
                 PROVE  FALSE
      OBVIOUS
    <2>1. x \in Things /\ x.kind = "schedule"
      BY SessionIs DEF Of, Held, Session
    <2>2. x.key \in Servers
      BY <2>1, Kinds
    <2>3. rows'[x.key].name = None /\ rows[x.key].name \in Names
      BY <2>2, RowsMove DEF ConfigInv, References
    <2> QED
      BY <2>2, <2>3, RegistryAssumption DEF Unblocked
  <1>2. imports' \in [Importers -> Session] /\ \A j \in Importers : SessionOK(j)'
    BY <1>1, NotedKept
  <1>3. ExportFits' /\ export' \in Exporting /\ exported' \subseteq Things
    BY RowsMove, ExportKept
  <1>4. accounts' \subseteq Of("user", Things)
    BY DEF ConfigInv, ConfigTypeOK
  <1> QED
    BY <1>2, <1>3, <1>4, RowsMove, Assemble

\* A user is added or removed.
LEMMA UserStep ==
    ASSUME ConfigInv, begun' \in 0..MaxOperations, UNCHANGED <<dataVars, exported, export>>,
           accounts' \subseteq Of("user", Things),
           \/ Noted
           \/ UNCHANGED imports /\ accounts \subseteq accounts'
    PROVE  ConfigInv'
  <1>1. RegistryInv'
    BY Frame DEF ConfigInv
  <1>2. \A s \in Servers : rows'[s] = rows[s] /\ (Live(s)' <=> Live(s))
    BY DEF dataVars, Live
  <1>3. imports' \in [Importers -> Session] /\ \A j \in Importers : SessionOK(j)'
    <2>1. \A j \in Importers : \A x \in Of("schedule", imports[j].held) :
              Live(x.key) => Live(x.key)'
      BY DEF dataVars, Live
    <2>2. CASE Noted
      <3>1. \A x \in Of("schedule", Held) : Live(x.key) => Live(x.key)'
        BY DEF dataVars, Live
      <3> QED
        BY <2>2, <3>1, NotedKept
    <2>3. CASE UNCHANGED imports /\ accounts \subseteq accounts'
      <3>1. (\A l : l \in Present <=>
              \/ \E s \in Servers : Live(s) /\ l = <<"server", rows[s].name>>
              \/ \E x \in schedules : l = <<"schedule", x.name>>
              \/ \E x \in accounts : l = Label(x))'
        BY PresentIs, PTL
      <3>2. Present \subseteq Present'
        BY <1>2, <2>3, <3>1, PresentIs DEF dataVars
      <3> QED
        BY <2>1, <2>3, <3>2, OtherKept DEF ConfigInv, ConfigTypeOK
    <2> QED
      BY <2>2, <2>3
  <1>4. ExportFits' /\ export' \in Exporting /\ exported' \subseteq Things
    BY <1>2, ExportKept
  <1>5. /\ \A s \in Servers : Live(s)' => rows'[s].name \in Names
        /\ \A x \in schedules' : Live(x.server)'
    BY DEF ConfigInv, References, Live, dataVars
  <1> QED
    BY <1>1, <1>3, <1>4, <1>5, Assemble

LEMMA ReloadStep ==
    ASSUME ConfigInv, RegistryInv', ReloadAll
    PROVE  ConfigInv'
  <1>1. /\ UNCHANGED <<rows, schedules, accounts, exported>>
        /\ export' = NoExport
        /\ imports' = [i \in Importers |-> IF Open(i) THEN NoSession ELSE imports[i]]
    BY DEF ReloadAll, Reload, RestartApi
  <1>2. Present' = Present /\ \A s \in Servers : Live(s)' <=> Live(s)
    BY <1>1 DEF Present, Table, Live
  <1>3. ASSUME NEW j \in Importers PROVE SessionOK(j)'
    <2>1. CASE imports'[j] = NoSession
      BY <2>1, NoSessionFits DEF SessionOK, Accounted, Of
    <2>2. CASE imports'[j] = imports[j]
      <3>1. \A x \in Of("schedule", imports[j].held) : Live(x.key) => Live(x.key)'
        BY <1>1 DEF Live
      <3> QED
        BY <1>2, <2>2, <3>1, OtherKept
    <2> QED
      BY <1>1, <2>1, <2>2
  <1>4. imports' \in [Importers -> Session]
    BY <1>1, NoSessionFits DEF ConfigInv, ConfigTypeOK
  <1>5. ExportFits' /\ export' \in Exporting
    BY <1>1 DEF ExportFits, ExportCovers, NoExport, Exporting, Of
  <1>6. /\ \A s \in Servers : Live(s)' => rows'[s].name \in Names
        /\ \A x \in schedules' : Live(x.server)'
        /\ accounts' \subseteq Of("user", Things) /\ exported' \subseteq Things
    BY <1>1 DEF ConfigInv, ConfigTypeOK, References, Live
  <1> QED
    BY <1>3, <1>4, <1>5, <1>6, Assemble

-----------------------------------------------------------------------------
(* The theorems                                                             *)

LEMMA ConfigInitial == ConfigInit => ConfigInv
  <1> SUFFICES ASSUME ConfigInit PROVE ConfigInv
    OBVIOUS
  <1>1. RegistryInv
    BY RegistryInitial DEF ConfigInit
  <1>2. imports = [i \in Importers |-> NoSession] /\ accounts = {} /\ exported = {}
        /\ export = NoExport /\ schedules = {}
    BY DEF ConfigInit, RegistryInit
  <1>3. export \in Exporting /\ ExportFits
    BY <1>2 DEF NoExport, Exporting, ExportFits, ExportCovers, Of
  <1>4. ConfigTypeOK
    BY <1>1, <1>2, <1>3, NoSessionFits DEF ConfigTypeOK, RegistryInv
  <1>5. References
    <2>1. \A s \in Servers : Live(s) => rows[s].name \in Names
      <3> SUFFICES ASSUME NEW s \in Servers, Live(s) PROVE rows[s].name \in Names
        OBVIOUS
      <3>1. rows[s] \in {NoRow} \cup [state : {"live"}, name : Names,
                         secret : {Clear(p) : p \in Secrets \cup {None}}, flag : {FALSE}]
        BY Zenon DEF ConfigInit, RegistryInit
      <3>2. NoRow.state = "free"
        BY DEF NoRow
      <3> QED
        BY <3>1, <3>2 DEF Live
    <2> QED
      BY <1>2, <2>1, NoSessionFits DEF References, Of
  <1>6. \A i \in Importers : SessionFits(imports[i]) /\ Accounted(imports[i])
    BY <1>2, NoSessionFits DEF Accounted
  <1> QED
    BY <1>1, <1>3, <1>4, <1>5, <1>6 DEF ConfigInv

LEMMA ConfigStep ==
    ASSUME ConfigInv, [TransferNext]_transferVars
    PROVE  ConfigInv'
  <1>1. /\ RegistryInv /\ begun \in 0..MaxOperations /\ MaxOperations \in Nat
        /\ accounts \subseteq Of("user", Things) /\ imports \in [Importers -> Session]
    BY RegistryAssumption DEF ConfigInv, RegistryInv, RegistryTypeOK, ConfigTypeOK
  <1>2. Begin => begun' \in 0..MaxOperations
    BY <1>1, Counting
  <1>3. CASE Elsewhere(Request \/ Deploy) /\ Begin
    <2>1. RegistryInv'
      BY <1>1, <1>3, RegistryStep DEF Elsewhere, RegistryNext
    <2> QED
      BY <1>3, <2>1, ElsewhereStep DEF Elsewhere
  <1>4. CASE Elsewhere(Continue) /\ UNCHANGED begun
    <2>1. RegistryInv'
      BY <1>1, <1>4, RegistryStep DEF Elsewhere, RegistryNext
    <2> QED
      BY <1>4, <2>1, ElsewhereStep DEF Elsewhere
  <1>5. CASE ReloadAll /\ Begin
    <2>1. RegistryInv'
      BY <1>1, <1>5, RegistryStep DEF ReloadAll, RegistryNext
    <2> QED
      BY <1>5, <2>1, ReloadStep
  <1>6. CASE ExportQuery
    BY <1>6, ExportQueryStep
  <1>7. CASE \E i \in Importers : \/ ImportFlush(i) \/ ImportServers(i) \/ ImportSchedules(i)
                                 \/ ImportUsers(i) \/ \E x \in imports[i].todo : ImportItem(i, x)
    BY <1>7, FlushStep, ServersStep, SchedulesStep, UsersStep, ItemStep
  <1>8. CASE /\ \E i \in Importers, f \in Files \cup {exported} : ImportBegin(i, f)
             /\ begun + 1 < MaxOperations /\ begun' = begun + 2
    <2>1. begun' \in 0..MaxOperations
      BY <1>1, <1>8
    <2> QED
      BY <1>8, <2>1, BeginStep
  <1>9. CASE ExportBegin /\ Begin
    BY <1>2, <1>9, ExportBeginStep
  <1>10. CASE (\E n \in Users, e \in Emails : AddUser(n, e)) /\ Begin
    <2>1. /\ UNCHANGED <<dataVars, exported, export, imports>> /\ accounts \subseteq accounts'
          /\ accounts' \subseteq Of("user", Things)
      BY <1>1, <1>10, GoodThings DEF AddUser
    <2> QED
      BY <1>2, <1>10, <2>1, UserStep
  <1>11. CASE (\E x \in accounts : RemoveUser(x)) /\ Begin
    <2>1. /\ UNCHANGED <<dataVars, exported, export>> /\ Noted
          /\ accounts' \subseteq Of("user", Things)
      BY <1>1, <1>11 DEF RemoveUser
    <2> QED
      BY <1>2, <1>11, <2>1, UserStep
  <1>12. CASE UNCHANGED transferVars
    <2>1. UNCHANGED <<dataVars, exported, export, imports, accounts>> /\ begun' \in 0..MaxOperations
      BY <1>1, <1>12 DEF transferVars, registryVars, configVars
    <2> QED
      BY <1>1, <2>1, UserStep
  <1> QED
    BY <1>3, <1>4, <1>5, <1>6, <1>7, <1>8, <1>9, <1>10, <1>11, <1>12 DEF TransferNext

\* The invariant the rest follows from: the registry's, what each session has
\* counted, sent and committed, and where each item it dealt with is.
THEOREM ConfigInvHolds == TransferSpec => []ConfigInv
  BY ConfigInitial, ConfigStep, PTL DEF TransferSpec

\* An import that was answered is over.
LEMMA Answered ==
    ASSUME ConfigInv, NEW i \in Importers, imports[i].reply # "none"
    PROVE  imports[i].section = 4 /\ ~ Open(i)
  <1>1. imports[i].section = 4 <=> imports[i].reply # "none"
    BY SessionIs DEF SessionFits
  <1> QED
    BY <1>1 DEF Open

\* A reply of success counts exactly the rows that the import committed and those
\* that a refused lookup in their half undid, however many imports and other
\* requests overlap.
THEOREM CountsHold == TransferSpec => []CountsAreCommitted
  <1>1. ConfigInv => CountsAreCommitted
    <2> SUFFICES ASSUME ConfigInv, NEW i \in Importers, imports[i].reply = "ok"
                 PROVE  imports[i].committed = imports[i].counted \ Undone(imports[i])
      BY DEF CountsAreCommitted
    <2>1. /\ SessionFits(imports[i]) /\ imports[i].section = 4
          /\ imports[i].held = {} /\ imports[i].pending = None
      BY SessionIs, Answered
    <2> QED
      BY <2>1 DEF SessionFits, Waiting
  <1> QED
    BY <1>1, ConfigInvHolds, PTL

\* An import that failed, or was not answered, left nothing or the servers it
\* counted, and nothing else.
THEOREM HalvesHold == TransferSpec => []ImportInHalves
  <1>1. ConfigInv => ImportInHalves
    <2> SUFFICES ASSUME ConfigInv, NEW i \in Importers, imports[i].reply # "ok"
                 PROVE  imports[i].committed \in {{}, Of("server", imports[i].counted)}
      BY DEF ImportInHalves
    <2>1. /\ imports[i] \in Session /\ SessionFits(imports[i])
          /\ imports[i].section \in 0..4
      BY SessionIs
    <2>2. CASE imports[i].reply = "error"
      BY <2>1, <2>2 DEF SessionFits
    <2>3. CASE imports[i].reply = "none"
      <3>1. imports[i].section \in {0, 1, 2, 3}
        BY <2>1, <2>3 DEF SessionFits
      <3> QED
        BY <2>1, <3>1, UndoneServers DEF SessionFits
    <2> QED
      BY <2>1, <2>2, <2>3 DEF Session
  <1> QED
    BY <1>1, ConfigInvHolds, PTL

\* After a reply of success every item of the file that has no error of its own
\* is in the table, unless somebody removed it since, a refused lookup undid it,
\* or it is a schedule of a server id that does not exist here.
THEOREM CompleteHolds == TransferSpec => []ImportComplete
  <1>1. ConfigInv => ImportComplete
    <2> SUFFICES ASSUME ConfigInv, NEW i \in Importers, imports[i].reply = "ok",
                        NEW x \in imports[i].file \ (imports[i].errors \cup imports[i].skipped)
                 PROVE  Label(x) \in Present \cup imports[i].gone
                                     \cup {Label(y) : y \in Undone(imports[i])}
      BY DEF ImportComplete
    <2>1. /\ imports[i] \in Session /\ Accounted(imports[i]) /\ imports[i].section = 4
          /\ imports[i].held = {} /\ imports[i].pending = None
      BY SessionIs, Answered
    <2>2. x.kind \in {"server", "schedule", "user"}
      BY <2>1, Kinds DEF Session
    <2>3. x \in Done(imports[i])
      BY <2>1, <2>2, SectionNames DEF Done
    <2> QED
      BY <2>1, <2>3 DEF Accounted, Entered, Waiting
  <1> QED
    BY <1>1, ConfigInvHolds, PTL

\* Accounts, schedules, importers and the export keep their types, whatever a
\* file names.
THEOREM TransferTypes == TransferSpec => []ConfigTypeOK
  <1>1. ConfigInv => ConfigTypeOK
    BY DEF ConfigInv
  <1> QED
    BY <1>1, ConfigInvHolds, PTL

\* What an export says of schedules is covered by what it says of servers,
\* although its queries see three moments.
THEOREM ExportsCover == TransferSpec => []ExportCovers
  <1>1. ConfigInv => ExportCovers
    BY DEF ConfigInv, ExportFits
  <1> QED
    BY <1>1, ConfigInvHolds, PTL

\* With imports in between, the flag of a row still tells whether its password
\* is enciphered.
THEOREM FlagsHoldHere == TransferSpec => []FlagTellsCipher
  <1>1. ConfigInv => FlagTellsCipher
    BY FlagsTell DEF ConfigInv
  <1> QED
    BY <1>1, ConfigInvHolds, PTL

\* With imports in between, a job still binds with the password that was saved.
THEOREM BindsHoldHere == TransferSpec => []BindFaithful
  <1>1. ConfigInv => BindFaithful
    BY DEF ConfigInv, RegistryInv
  <1> QED
    BY <1>1, ConfigInvHolds, PTL

\* No import touches the password of a server that is there.
THEOREM PasswordsStayHere == TransferSpec => PasswordChangesOnPurpose
  <1>1. ASSUME ConfigInv, [TransferNext]_transferVars PROVE [PasswordStays]_registryVars
    <2>1. RegistryInv
      BY <1>1 DEF ConfigInv
    <2>2. CASE UNCHANGED rows
      BY <2>2 DEF PasswordStays
    <2>3. CASE \E i \in Importers : ImportServers(i)
      <3>1. PICK i \in Importers : ImportServers(i)
        BY <2>3
      <3>2. \A s \in Servers : Live(s) => rows'[s] = rows[s]
        BY <3>1 DEF ImportServers, Live
      <3> QED
        BY <3>2 DEF PasswordStays
    <2>4. CASE ((Request \/ Deploy) /\ Begin) \/ (Continue /\ UNCHANGED begun)
      BY <2>1, <2>4, PasswordStep DEF RegistryNext
    <2>5. CASE ReloadAll \/ ExportQuery \/ ExportBegin
      BY <2>2, <2>5 DEF ReloadAll, Reload, RestartApi, ExportQuery, ExportBegin, registryVars, dataVars
    <2>6. ASSUME NEW i \in Importers,
                 \/ ImportFlush(i) \/ ImportSchedules(i) \/ ImportUsers(i)
                 \/ \E x \in imports[i].todo : ImportItem(i, x)
                 \/ \E f \in Files \cup {exported} : ImportBegin(i, f)
          PROVE  UNCHANGED rows
      BY <2>6 DEF ImportFlush, ImportSchedules, ImportUsers, ImportItem, ImportBegin,
                  registryVars, dataVars
    <2>7. CASE (\E n \in Users, e \in Emails : AddUser(n, e)) \/ (\E x \in accounts : RemoveUser(x))
      BY <2>2, <2>7 DEF AddUser, RemoveUser, dataVars
    <2>8. CASE UNCHANGED transferVars
      BY <2>2, <2>8 DEF transferVars, registryVars, dataVars
    <2> QED
      BY <1>1, <2>2, <2>3, <2>4, <2>5, <2>6, <2>7, <2>8 DEF TransferNext, Elsewhere
  <1> QED
    BY <1>1, ConfigInvHolds, PTL DEF TransferSpec, PasswordChangesOnPurpose
=============================================================================
