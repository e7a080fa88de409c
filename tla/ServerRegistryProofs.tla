------------------------ MODULE ServerRegistryProofs ------------------------
(* Proofs about ServerRegistry: for any number of servers, requests, jobs   *)
(* and keys, the flag tells which passwords are enciphered and a job binds  *)
(* with the password that was saved.                                        *)
EXTENDS ServerRegistry, TLAPS

USE RegistryAssumption

-----------------------------------------------------------------------------
(* Texts, rows and requests                                                 *)

LEMMA Texts ==
    /\ NoPassword \in Text /\ NoPassword.key = None
    /\ \A p \in Secrets \cup {None, Garbage} : Clear(p) \in Text
    /\ \A t \in Text : t.key = None => t = Clear(t.text)
  BY DEF Text, NoPassword, Clear

LEMMA EncryptedText ==
    ASSUME RegistryTypeOK, NEW p \in Secrets \cup {None}
    PROVE  /\ Encrypted(p) \in Text
           /\ Encrypted(p) # NoPassword => Encrypted(p).key # None
           /\ p # None => Encrypted(p).key # None
  BY Texts DEF Encrypted, Cipher, Text, RegistryTypeOK, Processes

LEMMA Rows ==
    ASSUME NEW row \in Row
    PROVE  /\ row.state \in {"free", "live", "gone"} /\ row.name \in Names \cup {None}
           /\ row.secret \in Text /\ row.flag \in BOOLEAN
  BY DEF Row

LEMMA NoRowFits ==
    ASSUME NEW unflagged \in BOOLEAN, NEW st \in {"free", "live", "gone"}
    PROVE  /\ NoRow \in Row /\ [NoRow EXCEPT !.state = st] \in Row
           /\ [NoRow EXCEPT !.state = st].state = st
           /\ Coherent(NoRow, unflagged) /\ Coherent([NoRow EXCEPT !.state = st], unflagged)
  BY Texts DEF NoRow, Row, Coherent

LEMMA NoCallFits == NoCall \in Call /\ NoCall.op = "idle"
  BY NoRowFits DEF NoCall, Call

LEMMA NoJobFits == NoJob \in Job /\ NoJob.state = "idle" /\ Coherent(NoJob.row, NoJob.unflagged)
  BY NoRowFits, Texts DEF NoJob, Job, Coherent, NoRow

\* What an UPDATE writes is a row, and coherent when the flag it relied on is
\* still there.
LEMMA WrittenFits ==
    ASSUME RegistryTypeOK, NEW row \in Row, NEW call \in Call, NEW unflagged \in BOOLEAN,
           Coherent(row, unflagged), call.loaded.flag => row.flag
    PROVE  /\ Written(row, call) \in Row
           /\ Written(row, call).state = row.state
           /\ row.flag => Written(row, call).flag
           /\ Coherent(Written(row, call), unflagged /\ ~ Written(row, call).flag)
  <1> DEFINE w == Written(row, call)
  <1>1. /\ call.secret \in Secrets \cup {None, Unset} /\ call.name \in Names \cup {Unset}
        /\ call.loaded \in Row /\ call.loaded.flag \in BOOLEAN
    BY Rows DEF Call
  <1>2. /\ w.state = row.state
        /\ w.name = IF call.name \in {Unset, call.loaded.name} THEN row.name ELSE call.name
        /\ w.secret = IF call.secret = Unset THEN row.secret
                      ELSE IF call.secret = None /\ call.loaded.secret = NoPassword THEN row.secret
                      ELSE Encrypted(call.secret)
        /\ w.flag = (row.flag \/ (call.secret \notin {Unset, None} /\ ~ call.loaded.flag))
    <2>1. row = [state |-> row.state, name |-> row.name, secret |-> row.secret, flag |-> row.flag]
      BY DEF Row
    <2> QED
      BY <2>1, Zenon DEF Written
  <1>3. w.secret \in Text /\ w.flag \in BOOLEAN /\ w.name \in Names \cup {None}
    BY <1>1, <1>2, Rows, EncryptedText
  <1>4. w \in Row
    BY <1>2, <1>3, Rows DEF Row, Written
  <1>5. call.secret \in Secrets => w.flag /\ w.secret.key # None
    BY <1>1, <1>2, EncryptedText
  <1>6. call.secret \notin Secrets =>
            /\ w.flag = row.flag
            /\ w.secret = row.secret \/ w.secret = NoPassword
    BY <1>1, <1>2, Rows DEF Encrypted, NoPassword
  <1>7. Coherent(w, unflagged /\ ~ w.flag)
    BY <1>3, <1>5, <1>6, Rows DEF Coherent
  <1> QED
    BY <1>2, <1>4, <1>7

-----------------------------------------------------------------------------
(* The steps.                                                               *)

LEMMA RegistryInitial == RegistryInit => RegistryInv
  <1> SUFFICES ASSUME RegistryInit PROVE RegistryInv
    OBVIOUS
  <1>1. \A s \in Servers : rows[s] \in Row /\ Coherent(rows[s], FALSE) /\ rows[s].flag = FALSE
    <2> TAKE s \in Servers
    <2>1. CASE rows[s] = NoRow
      <3>1. NoRow \in Row /\ Coherent(NoRow, FALSE)
        BY NoRowFits
      <3>2. NoRow.flag = FALSE
        BY DEF NoRow
      <3> QED
        BY <2>1, <3>1, <3>2
    <2>2. CASE rows[s] # NoRow
      <3>1. /\ rows[s] \in [state : {"live"}, name : Names,
                            secret : {Clear(p) : p \in Secrets \cup {None}}, flag : {FALSE}]
        BY <2>2 DEF RegistryInit
      <3>2. PICK p \in Secrets \cup {None} : rows[s].secret = Clear(p)
        BY <3>1
      <3>3. rows[s].secret \in Text /\ rows[s].secret.key = None
        BY <3>2, Texts DEF Clear
      <3> QED
        BY <3>1, <3>3 DEF Row, Coherent
    <2> QED
      BY <2>1, <2>2
  <1>2. rows \in [Servers -> Row]
    BY <1>1 DEF RegistryInit
  <1>3. RegistryTypeOK
    BY <1>2, NoCallFits, NoJobFits DEF RegistryInit, RegistryTypeOK
  <1>4. CallsFit
    BY NoCallFits DEF RegistryInit, CallsFit
  <1>5. BindFaithful
    BY NoJobFits DEF RegistryInit, BindFaithful
  <1>6. \A s \in Servers :
            /\ Coherent(rows[s], s \in lost)
            /\ rows[s].state = "free" => s \notin lost /\ ~ rows[s].flag
    <2> TAKE s \in Servers
    <2>1. (s \in lost) = FALSE
      BY DEF RegistryInit
    <2> QED
      BY <1>1, <2>1
  <1>7. \A j \in Jobs : Coherent(jobs[j].row, jobs[j].unflagged)
    BY NoJobFits DEF RegistryInit
  <1> QED
    BY <1>3, <1>4, <1>5, <1>6, <1>7 DEF RegistryInv

\* One request changes, and the tables stay.
LEMMA OneCall ==
    ASSUME RegistryInv, NEW c \in Clients, NEW k \in Call, column,
           calls' = [calls EXCEPT ![c] = k],
           UNCHANGED <<rows, column, lost, schedules, keys, jobs>>,
           begun' \in 0..MaxOperations,
           k.op = "create" => k.name \in Names /\ k.secret # Unset,
           k.op \in {"update", "delete"} => k.id \in Servers /\ Live(k.id),
           k.op = "update" => k.loaded = rows[k.id]
    PROVE  RegistryInv'
  <1>1. RegistryTypeOK'
    BY DEF RegistryInv, RegistryTypeOK
  <1>2. CallsFit'
    <2> SUFFICES ASSUME NEW d \in Clients
                 PROVE  /\ calls'[d].op # "idle" => column
                        /\ calls'[d].op = "create" =>
                               calls'[d].name \in Names /\ calls'[d].secret # Unset
                        /\ calls'[d].op \in {"update", "delete"} =>
                               calls'[d].id \in Servers /\ rows[calls'[d].id].state # "free"
                        /\ calls'[d].op = "update" /\ calls'[d].loaded.flag /\
                              Live(calls'[d].id) => rows[calls'[d].id].flag
      BY DEF CallsFit, Live
    <2>1. calls'[d] = IF d = c THEN k ELSE calls[d]
      BY DEF RegistryInv, RegistryTypeOK
    <2> QED
      BY <2>1 DEF RegistryInv, CallsFit, Live
  <1>3. BindFaithful'
    BY DEF RegistryInv, BindFaithful
  <1> QED
    BY <1>1, <1>2, <1>3 DEF RegistryInv

LEMMA SelectStep ==
    ASSUME RegistryInv, NEW c \in Clients, begun' \in 0..MaxOperations,
           \/ \E n \in Names, p \in Secrets \cup {None} : CreateSelect(c, n, p)
           \/ \E s \in Servers, n \in Names \cup {Unset},
                 p \in Secrets \cup {None, Unset} : UpdateSelect(c, s, n, p)
           \/ \E s \in Servers : DeleteSelect(c, s)
    PROVE  RegistryInv'
  <1>0. rows \in [Servers -> Row]
    BY DEF RegistryInv, RegistryTypeOK
  <1>1. ASSUME NEW n \in Names, NEW p \in Secrets \cup {None}, CreateSelect(c, n, p)
        PROVE  RegistryInv'
    <2> DEFINE k == [NoCall EXCEPT !.op = "create", !.name = n, !.secret = p]
    <2>1. k \in Call /\ k.op = "create" /\ k.name \in Names /\ k.secret # Unset
      BY NoCallFits DEF NoCall, Call
    <2> HIDE DEF k
    <2>2. calls' = [calls EXCEPT ![c] = k] /\ column
          /\ UNCHANGED <<rows, column, lost, schedules, keys, jobs>>
      BY <1>1 DEF CreateSelect, k
    <2> QED
      BY <2>1, <2>2, OneCall
  <1>2. ASSUME NEW s \in Servers, NEW n \in Names \cup {Unset},
               NEW p \in Secrets \cup {None, Unset}, UpdateSelect(c, s, n, p)
        PROVE  RegistryInv'
    <2> DEFINE k == [op |-> "update", id |-> s, name |-> n, secret |-> p, loaded |-> rows[s]]
    <2>1. k \in Call /\ k.op = "update" /\ k.id = s /\ k.loaded = rows[s] /\ Live(s)
      BY <1>0, <1>2 DEF Call, UpdateSelect
    <2> HIDE DEF k
    <2>2. calls' = [calls EXCEPT ![c] = k] /\ column
          /\ UNCHANGED <<rows, column, lost, schedules, keys, jobs>>
      BY <1>2 DEF UpdateSelect, k
    <2> QED
      BY <2>1, <2>2, OneCall
  <1>3. ASSUME NEW s \in Servers, DeleteSelect(c, s)
        PROVE  RegistryInv'
    <2> DEFINE k == [NoCall EXCEPT !.op = "delete", !.id = s, !.loaded = rows[s]]
    <2>1. k \in Call /\ k.op = "delete" /\ k.id = s /\ Live(s)
      BY <1>0, <1>3, NoCallFits DEF NoCall, Call, DeleteSelect
    <2> HIDE DEF k
    <2>2. calls' = [calls EXCEPT ![c] = k] /\ column
          /\ UNCHANGED <<rows, column, lost, schedules, keys, jobs>>
      BY <1>3 DEF DeleteSelect, k
    <2> QED
      BY <2>1, <2>2, OneCall
  <1> QED
    BY <1>1, <1>2, <1>3
\* One request ends and one row changes: to fit what any loaded row relied on.
LEMMA OneRow ==
    ASSUME RegistryInv, NEW c \in Clients, NEW s \in Servers, NEW row \in Row,
           NEW off \in SUBSET Servers,
           Finish(c), rows' = [rows EXCEPT ![s] = row], lost' = off,
           UNCHANGED <<column, schedules, keys, jobs, begun>>,
           \A t \in Servers \ {s} : t \in off <=> t \in lost,
           Coherent(row, s \in off),
           rows[s].state # "free" /\ row.state = "live" =>
               rows[s].state = "live" /\ (rows[s].flag => row.flag),
           row.state # "free"
    PROVE  RegistryInv'
  <1>1. RegistryTypeOK'
    BY NoCallFits DEF RegistryInv, RegistryTypeOK, Finish
  <1>2. \A t \in Servers : rows'[t] = IF t = s THEN row ELSE rows[t]
    BY DEF RegistryInv, RegistryTypeOK
  <1>3. \A d \in Clients : calls'[d] = IF d = c THEN NoCall ELSE calls[d]
    BY DEF RegistryInv, RegistryTypeOK, Finish
  <1>4. \A t \in Servers :
            /\ Coherent(rows'[t], t \in lost')
            /\ rows'[t].state = "free" => t \notin lost' /\ ~ rows'[t].flag
    <2> TAKE t \in Servers
    <2>1. CASE t = s
      BY <1>2, <2>1
    <2>2. CASE t # s
      <3>1. rows'[t] = rows[t] /\ (t \in lost') = (t \in lost)
        BY <1>2, <2>2
      <3>2. /\ Coherent(rows[t], t \in lost)
            /\ rows[t].state = "free" => t \notin lost /\ ~ rows[t].flag
        BY Zenon DEF RegistryInv
      <3> QED
        BY <3>1, <3>2
    <2> QED
      BY <2>1, <2>2
  <1>5. BindFaithful'
    BY DEF RegistryInv, BindFaithful
  <1>6. CallsFit'
    <2> SUFFICES ASSUME NEW d \in Clients, d # c
                 PROVE  /\ calls[d].op # "idle" => column
                        /\ calls[d].op = "create" =>
                               calls[d].name \in Names /\ calls[d].secret # Unset
                        /\ calls[d].op \in {"update", "delete"} =>
                               calls[d].id \in Servers /\ rows'[calls[d].id].state # "free"
                        /\ calls[d].op = "update" /\ calls[d].loaded.flag /\
                              rows'[calls[d].id].state = "live" => rows'[calls[d].id].flag
      BY <1>3, NoCallFits DEF CallsFit, Live
    <2>1. /\ calls[d].op # "idle" => column
          /\ calls[d].op = "create" => calls[d].name \in Names /\ calls[d].secret # Unset
          /\ calls[d].op \in {"update", "delete"} =>
                 calls[d].id \in Servers /\ rows[calls[d].id].state # "free"
          /\ calls[d].op = "update" /\ calls[d].loaded.flag /\
                rows[calls[d].id].state = "live" => rows[calls[d].id].flag
      BY DEF RegistryInv, CallsFit, Live
    <2> QED
      BY <1>2, <2>1
  <1> QED
    BY <1>1, <1>4, <1>5, <1>6 DEF RegistryInv
LEMMA CreateStep ==
    ASSUME RegistryInv, NEW c \in Clients, CreateInsert(c), UNCHANGED begun
    PROVE  RegistryInv'
  <1>1. CASE UNCHANGED rows
    <2>1. RegistryTypeOK'
      BY <1>1, NoCallFits DEF RegistryInv, RegistryTypeOK, Finish, CreateInsert
    <2>2. CallsFit'
      BY <1>1, NoCallFits DEF RegistryInv, RegistryTypeOK, CallsFit, Finish, CreateInsert, Live
    <2> QED
      BY <1>1, <2>1, <2>2 DEF RegistryInv, CreateInsert, BindFaithful
  <1>2. CASE ~ UNCHANGED rows
    <2> DEFINE call == calls[c]
               row  == [state |-> "live", name |-> call.name,
                        secret |-> Encrypted(call.secret), flag |-> call.secret # None]
    <2>1. PICK s \in Servers : rows[s].state = "free" /\ rows' = [rows EXCEPT ![s] = row]
      BY <1>2 DEF CreateInsert
    <2>2. call.name \in Names /\ call.secret \in Secrets \cup {None}
      BY DEF CreateInsert, Doing, RegistryInv, RegistryTypeOK, CallsFit, Call
    <2>3. Encrypted(call.secret) \in Text /\ RegistryTypeOK
      BY <2>2, EncryptedText DEF RegistryInv
    <2>4. row \in Row /\ row.state = "live" /\ row.secret = Encrypted(call.secret)
          /\ row.flag = (call.secret # None)
      BY <2>2, <2>3 DEF Row
    <2> HIDE DEF row
    <2>5. s \notin lost /\ lost \in SUBSET Servers
      <3>1. rows[s].state = "free" => s \notin lost
        BY Zenon DEF RegistryInv
      <3> QED
        BY <2>1, <3>1 DEF RegistryInv, RegistryTypeOK
    <2>6. Coherent(row, s \in lost)
      BY <2>2, <2>3, <2>4, <2>5, EncryptedText DEF Coherent, Encrypted
    <2> QED
      BY <2>1, <2>4, <2>5, <2>6, OneRow DEF CreateInsert, row
  <1> QED
    BY <1>1, <1>2

LEMMA UpdateStep ==
    ASSUME RegistryInv, NEW c \in Clients, UpdateCommit(c), UNCHANGED begun
    PROVE  RegistryInv'
  <1>1. CASE UNCHANGED rows /\ UNCHANGED lost
    <2>1. RegistryTypeOK'
      BY <1>1, NoCallFits DEF RegistryInv, RegistryTypeOK, Finish, UpdateCommit
    <2>2. CallsFit'
      BY <1>1, NoCallFits DEF RegistryInv, RegistryTypeOK, CallsFit, Finish, UpdateCommit, Live
    <2> QED
      BY <1>1, <2>1, <2>2 DEF RegistryInv, UpdateCommit, BindFaithful
  <1>2. CASE ~ UpdateFails(calls[c])
    <2> DEFINE call == calls[c]
               s    == call.id
               row  == Written(rows[s], call)
               off  == IF row.flag THEN lost \ {s} ELSE lost
    <2>1. /\ call \in Call /\ s \in Servers /\ rows[s].state = "live"
          /\ call.loaded.flag => rows[s].flag
          /\ rows[s] \in Row /\ RegistryTypeOK /\ lost \in SUBSET Servers
          /\ Coherent(rows[s], s \in lost)
      <3>1. /\ RegistryTypeOK /\ call \in Call /\ call.op = "update"
            /\ lost \in SUBSET Servers
        BY DEF UpdateCommit, Doing, RegistryInv, RegistryTypeOK
      <3>2. /\ call.op \in {"update", "delete"} => s \in Servers
            /\ call.op = "update" /\ call.loaded.flag /\ Live(s) => rows[s].flag
        BY DEF RegistryInv, CallsFit
      <3>3. s \in Servers /\ rows[s].state = "live" /\ (call.loaded.flag => rows[s].flag)
        BY <1>2, <3>1, <3>2 DEF UpdateFails, Live
      <3>4. rows[s] \in Row
        BY <3>3 DEF RegistryInv, RegistryTypeOK
      <3>5. Coherent(rows[s], s \in lost)
        BY <3>3, Zenon DEF RegistryInv
      <3> QED
        BY <3>1, <3>3, <3>4, <3>5
    <2>2. /\ row \in Row /\ row.state = "live"
          /\ rows[s].flag => row.flag
          /\ Coherent(row, s \in lost /\ ~ row.flag)
      <3>1. (s \in lost) \in BOOLEAN
        OBVIOUS
      <3> QED
        BY <2>1, <3>1, WrittenFits, Zenon
    <2>3. /\ rows' = [rows EXCEPT ![s] = row] /\ Finish(c)
          /\ UNCHANGED <<column, schedules, keys, jobs>>
      BY <1>2 DEF UpdateCommit
    <2>4. rows'[s] = row
      BY <2>1, <2>3 DEF RegistryTypeOK
    <2>5. lost' = off
      BY <1>2, <2>4 DEF UpdateCommit
    <2> HIDE DEF row, s
    <2>6. /\ off \in SUBSET Servers
          /\ \A t \in Servers \ {s} : t \in off <=> t \in lost
          /\ (s \in off) <=> (s \in lost /\ ~ row.flag)
      BY <2>1
    <2>7. Coherent(row, s \in off)
      BY <2>2, <2>6 DEF Coherent
    <2> HIDE DEF off
    <2> QED
      BY <2>1, <2>2, <2>3, <2>5, <2>6, <2>7, OneRow
  <1> QED
    BY <1>1, <1>2 DEF UpdateCommit

LEMMA DeleteStep ==
    ASSUME RegistryInv, NEW c \in Clients, DeleteCommit(c), UNCHANGED begun
    PROVE  RegistryInv'
  <1>1. CASE UNCHANGED rows /\ UNCHANGED lost
    <2>1. RegistryTypeOK'
      BY <1>1, NoCallFits DEF RegistryInv, RegistryTypeOK, Finish, DeleteCommit
    <2>2. CallsFit'
      BY <1>1, NoCallFits DEF RegistryInv, RegistryTypeOK, CallsFit, Finish, DeleteCommit, Live
    <2> QED
      BY <1>1, <2>1, <2>2 DEF RegistryInv, DeleteCommit, BindFaithful
  <1>2. CASE ~ (UNCHANGED rows /\ UNCHANGED lost)
    <2> DEFINE s   == calls[c].id
               row == [NoRow EXCEPT !.state = "gone"]
               off == lost \ {s}
    <2>1. s \in Servers /\ lost \in SUBSET Servers
      BY DEF DeleteCommit, Doing, RegistryInv, RegistryTypeOK, CallsFit
    <2>2. row \in Row /\ row.state = "gone" /\ Coherent(row, FALSE)
      BY NoRowFits
    <2>3. /\ rows' = [rows EXCEPT ![s] = row] /\ lost' = off /\ Finish(c)
          /\ UNCHANGED <<column, schedules, keys, jobs>>
      BY <1>2 DEF DeleteCommit
    <2> HIDE DEF row, s
    <2>4. off \in SUBSET Servers /\ \A t \in Servers \ {s} : t \in off <=> t \in lost
      BY <2>1
    <2>5. Coherent(row, s \in off)
      BY <2>2 DEF Coherent
    <2> HIDE DEF off
    <2> QED
      BY <2>1, <2>2, <2>3, <2>4, <2>5, OneRow
  <1> QED
    BY <1>1, <1>2
LEMMA ScheduleStep ==
    ASSUME RegistryInv, begun' \in 0..MaxOperations,
           \/ \E n \in Schedules, s \in Servers : AddSchedule(n, s)
           \/ \E x \in schedules : RemoveSchedule(x)
    PROVE  RegistryInv'
  <1>1. /\ UNCHANGED <<rows, column, lost, keys, calls, jobs>>
        /\ schedules' \subseteq [name : Schedules, server : Servers]
    BY DEF AddSchedule, RemoveSchedule, RegistryInv, RegistryTypeOK
  <1> QED
    BY <1>1 DEF RegistryInv, RegistryTypeOK, CallsFit, Live, BindFaithful

\* No request holds a row whose flag goes.
LEMMA DowngradeStep ==
    ASSUME RegistryInv, Downgrade, begun' \in 0..MaxOperations
    PROVE  RegistryInv'
  <1>0. rows \in [Servers -> Row]
    BY DEF RegistryInv, RegistryTypeOK
  <1>1. \A s \in Servers :
            /\ rows'[s] = [rows[s] EXCEPT !.flag = FALSE]
            /\ rows'[s] \in Row /\ rows'[s].flag = FALSE
            /\ rows'[s].state = rows[s].state /\ rows'[s].secret = rows[s].secret
            /\ (s \in lost') <=> (s \in lost \/ rows[s].flag)
    BY <1>0 DEF Downgrade, Row
  <1>2. RegistryTypeOK'
    BY <1>1 DEF Downgrade, RegistryInv, RegistryTypeOK
  <1>3. ASSUME NEW s \in Servers
        PROVE  /\ Coherent(rows'[s], s \in lost')
               /\ rows'[s].state = "free" => s \notin lost' /\ ~ rows'[s].flag
    <2>1. /\ Coherent(rows[s], s \in lost)
          /\ rows[s].state = "free" => s \notin lost /\ ~ rows[s].flag
      BY DEF RegistryInv
    <2> QED
      BY <1>1, <2>1 DEF Coherent
  <1>4. CallsFit'
    BY DEF Downgrade, Quiet, Idle, CallsFit
  <1> QED
    BY <1>2, <1>3, <1>4 DEF Downgrade, RegistryInv, BindFaithful

LEMMA UpgradeStep ==
    ASSUME RegistryInv, Upgrade, begun' \in 0..MaxOperations
    PROVE  RegistryInv'
  BY DEF Upgrade, RegistryInv, RegistryTypeOK, CallsFit, Live, BindFaithful

LEMMA RestartStep ==
    ASSUME RegistryInv, NEW k \in Keys, RestartApi(k) \/ RestartWorker(k),
           begun' \in 0..MaxOperations
    PROVE  RegistryInv'
  <1>1. RegistryTypeOK'
    BY NoCallFits, NoJobFits DEF RestartApi, RestartWorker, RegistryInv, RegistryTypeOK
  <1>2. CASE RestartApi(k)
    <2>1. keys'["worker"] = keys["worker"]
      BY <1>2 DEF RestartApi, RegistryInv, RegistryTypeOK, Processes
    <2>2. CallsFit'
      BY <1>2, NoCallFits DEF RestartApi, CallsFit
    <2> QED
      BY <1>1, <1>2, <2>1, <2>2 DEF RestartApi, RegistryInv, BindFaithful
  <1>3. CASE RestartWorker(k)
    <2>1. \A j \in Jobs : jobs'[j] = NoJob
      BY <1>3 DEF RestartWorker
    <2>2. CallsFit' /\ BindFaithful'
      BY <1>3, <2>1, NoJobFits DEF RestartWorker, RegistryInv, CallsFit, Live, BindFaithful
    <2> QED
      BY <1>1, <1>3, <2>1, <2>2, NoJobFits DEF RestartWorker, RegistryInv
  <1> QED
    BY <1>2, <1>3

\* One job goes on; the row it holds is coherent.
LEMMA OneJob ==
    ASSUME RegistryInv, NEW j \in Jobs, NEW new \in Job,
           jobs' = [jobs EXCEPT ![j] = new],
           UNCHANGED <<rows, column, lost, schedules, keys, calls>>,
           begun' \in 0..MaxOperations,
           Coherent(new.row, new.unflagged),
           new.state = "bound" =>
               \/ new.bound = Clear(new.row.secret.text)
               \/ /\ new.row.secret.key \notin {None, keys["worker"]}
                  /\ new.bound \in {NoPassword, Clear(Garbage)}
               \/ new.unflagged /\ new.bound = new.row.secret
    PROVE  RegistryInv'
  <1>1. RegistryTypeOK'
    BY DEF RegistryInv, RegistryTypeOK
  <1>2. \A i \in Jobs : jobs'[i] = IF i = j THEN new ELSE jobs[i]
    BY DEF RegistryInv, RegistryTypeOK
  <1>3. CallsFit'
    BY DEF RegistryInv, CallsFit, Live
  <1>4. BindFaithful'
    BY <1>2 DEF RegistryInv, BindFaithful
  <1> QED
    BY <1>1, <1>2, <1>3, <1>4 DEF RegistryInv

LEMMA JobReadStep ==
    ASSUME RegistryInv, NEW j \in Jobs, NEW s \in Servers, JobRead(j, s),
           begun' \in 0..MaxOperations
    PROVE  RegistryInv'
  <1> DEFINE new == [NoJob EXCEPT !.state = "loaded", !.row = rows[s], !.unflagged = s \in lost]
  <1>1. new \in Job /\ new.state = "loaded" /\ new.row = rows[s]
        /\ new.unflagged = (s \in lost)
    <2>1. rows[s] \in Row /\ (s \in lost) \in BOOLEAN
      BY DEF RegistryInv, RegistryTypeOK
    <2> QED
      BY <2>1, NoJobFits DEF NoJob, Job
  <1>2. Coherent(new.row, new.unflagged)
    <2>1. Coherent(rows[s], s \in lost)
      BY DEF RegistryInv
    <2> QED
      BY <1>1, <2>1
  <1>3. /\ jobs' = [jobs EXCEPT ![j] = new]
        /\ UNCHANGED <<rows, column, lost, schedules, keys, calls>>
    BY DEF JobRead
  <1> HIDE DEF new
  <1> QED
    BY <1>1, <1>2, <1>3, OneJob

LEMMA JobBindStep ==
    ASSUME RegistryInv, NEW j \in Jobs, JobBind(j), UNCHANGED begun
    PROVE  RegistryInv'
  <1> DEFINE k == keys["worker"]  row == jobs[j].row
  <1>1. PICK v \in Decrypt(row, k) :
            jobs' = [jobs EXCEPT ![j].state = "bound", ![j].bound = v]
    BY DEF JobBind
  <1> DEFINE new == [jobs[j] EXCEPT !.state = "bound", !.bound = v]
  <1>2. /\ jobs[j] \in Job /\ row \in Row /\ row.secret \in Text
        /\ jobs[j].unflagged \in BOOLEAN /\ k \in Keys
    BY Rows DEF RegistryInv, RegistryTypeOK, Job, Processes
  <1>3. v \in Text
    <2>1. Clear(row.secret.text) \in Text
      BY <1>2, Texts DEF Text
    <2> QED
      BY <1>1, <1>2, <2>1, Texts DEF Decrypt
  <1>4. /\ new \in Job /\ new.row = row /\ new.unflagged = jobs[j].unflagged
        /\ new.bound = v /\ new.state = "bound"
    BY <1>2, <1>3 DEF Job
  <1>5. jobs' = [jobs EXCEPT ![j] = new]
    BY <1>1 DEF RegistryInv, RegistryTypeOK
  <1>6. Coherent(row, jobs[j].unflagged)
    BY DEF RegistryInv
  <1>7. \/ v = Clear(row.secret.text)
        \/ /\ row.secret.key \notin {None, k}
           /\ v \in {NoPassword, Clear(Garbage)}
        \/ jobs[j].unflagged /\ v = row.secret
    <2>1. CASE row.secret = NoPassword
      BY <1>1, <2>1 DEF Decrypt, NoPassword, Clear
    <2>2. CASE row.secret # NoPassword /\ ~ row.flag
      <3>1. v = row.secret
        BY <1>1, <2>2 DEF Decrypt
      <3>2. ~ jobs[j].unflagged => row.secret.key = None
        BY <1>6, <2>2 DEF Coherent
      <3> QED
        BY <1>2, <3>1, <3>2, Texts
    <2>3. CASE row.secret # NoPassword /\ row.flag /\ row.secret.key = k
      BY <1>1, <2>3 DEF Decrypt
    <2>4. CASE row.secret # NoPassword /\ row.flag /\ row.secret.key # k
      <3>1. row.secret.key # None
        BY <1>6, <2>4 DEF Coherent
      <3> QED
        BY <1>1, <2>4, <3>1 DEF Decrypt
    <2> QED
      BY <2>1, <2>2, <2>3, <2>4
  <1>8. /\ UNCHANGED <<rows, column, lost, schedules, keys, calls>>
        /\ begun' \in 0..MaxOperations
    BY DEF JobBind, RegistryInv, RegistryTypeOK
  <1> HIDE DEF new, row, k
  <1>9. \/ new.bound = Clear(new.row.secret.text)
        \/ /\ new.row.secret.key \notin {None, keys["worker"]}
           /\ new.bound \in {NoPassword, Clear(Garbage)}
        \/ new.unflagged /\ new.bound = new.row.secret
    BY <1>4, <1>7 DEF k
  <1> QED
    BY <1>4, <1>5, <1>6, <1>8, <1>9, OneJob

-----------------------------------------------------------------------------
LEMMA Counting ==
    ASSUME RegistryInv
    PROVE  /\ Begin => begun' \in 0..MaxOperations
           /\ UNCHANGED begun => begun' \in 0..MaxOperations
  BY DEF Begin, RegistryInv, RegistryTypeOK

LEMMA RegistryStep ==
    ASSUME RegistryInv, [RegistryNext]_registryVars
    PROVE  RegistryInv'
  <1>1. CASE Request /\ Begin
    BY <1>1, Counting, SelectStep, ScheduleStep, JobReadStep DEF Request
  <1>2. CASE (Deploy \/ Reload) /\ Begin
    BY <1>2, Counting, DowngradeStep, UpgradeStep, RestartStep DEF Deploy, Reload
  <1>3. CASE Continue /\ UNCHANGED begun
    BY <1>3, CreateStep, UpdateStep, DeleteStep, JobBindStep DEF Continue
  <1>4. CASE UNCHANGED registryVars
    BY <1>4 DEF registryVars, dataVars, RegistryInv, RegistryTypeOK, CallsFit, Live, BindFaithful
  <1> QED
    BY <1>1, <1>2, <1>3, <1>4 DEF RegistryNext

LEMMA FlagsTell == RegistryInv => FlagTellsCipher
  BY DEF RegistryInv, Coherent, FlagTellsCipher

\* The invariant that the two theorems below rest on: every row, in the table or
\* loaded by a job, is coherent, and a request that loaded a flag finds it there.
THEOREM RegistryInvHolds == RegistrySpec => []RegistryInv
  BY RegistryInitial, RegistryStep, PTL DEF RegistrySpec

\* The flag of a row says whether its password is enciphered, however requests,
\* migrations and restarts overlap, but for servers whose flag a downgrade
\* dropped.
THEOREM FlagsHold == RegistrySpec => []FlagTellsCipher
  BY RegistryInvHolds, FlagsTell, PTL

\* A job binds with the password that was saved when it read its server's row,
\* or the keys differ, or a downgrade lost the flag.
THEOREM BindsHold == RegistrySpec => []BindFaithful
  <1>1. RegistryInv => BindFaithful
    BY DEF RegistryInv
  <1> QED
    BY <1>1, RegistryInvHolds, PTL

LEMMA PasswordStep ==
    ASSUME RegistryInv, [RegistryNext]_registryVars
    PROVE  PasswordStays
  <1> SUFFICES ASSUME NEW s \in Servers, Live(s), Live(s)', rows'[s].secret # rows[s].secret
               PROVE  \E c \in Clients :
                          /\ Doing(c, "update") /\ calls[c].id = s
                          /\ calls[c].secret # Unset
                          /\ rows'[s].secret = Encrypted(calls[c].secret)
    BY DEF PasswordStays
  <1>0. rows \in [Servers -> Row] /\ rows[s] \in Row
    BY DEF RegistryInv, RegistryTypeOK
  <1>1. ~ UNCHANGED rows
    OBVIOUS
  <1>2. ASSUME Downgrade PROVE FALSE
    BY <1>0, <1>2 DEF Downgrade, Row
  <1>3. ASSUME NEW c \in Clients, CreateInsert(c) PROVE FALSE
    BY <1>0, <1>3 DEF CreateInsert, Live
  <1>4. ASSUME NEW c \in Clients, DeleteCommit(c) PROVE FALSE
    BY <1>0, <1>4 DEF DeleteCommit, Live, NoRow
  <1>5. PICK c \in Clients : UpdateCommit(c)
    BY <1>1, <1>2, <1>3, <1>4
       DEF RegistryNext, Request, Deploy, Reload, Continue, registryVars, dataVars,
           CreateSelect, UpdateSelect, DeleteSelect, AddSchedule, RemoveSchedule,
           JobRead, JobBind, Upgrade, RestartApi, RestartWorker
  <1>6. /\ Doing(c, "update") /\ calls[c].id = s
        /\ rows'[s] = Written(rows[s], calls[c])
    BY <1>0, <1>1, <1>5 DEF UpdateCommit
  <1>7. /\ calls[c].secret # Unset
        /\ rows'[s].secret = Encrypted(calls[c].secret)
    BY <1>0, <1>6 DEF Written, Row
  <1> QED
    BY <1>6, <1>7

\* The password of a server is never changed but by the request that gives one,
\* nor put back by one that loaded the row before.
THEOREM PasswordsStay == RegistrySpec => PasswordChangesOnPurpose
  BY PasswordStep, RegistryInvHolds, PTL DEF RegistrySpec, PasswordChangesOnPurpose
=============================================================================
