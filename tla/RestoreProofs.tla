---------------------------- MODULE RestoreProofs ----------------------------
(* Theorems about restore jobs: who holds a job, how often it reaches its   *)
(* LDAP server, and that the restore_jobs table implements JobLifecycle.    *)
EXTENDS LdapGuardProofs, LdapGuardInvariants, FiniteSetTheorems

-----------------------------------------------------------------------------
(* Holders of restore jobs. *)

\* What TypeOK and RestoreShape say of the ids that are held.
LEMMA HeldTypes ==
    ASSUME TypeOK, RestoreShape, HeldWhile
    PROVE  /\ \A h \in Handlers : /\ creations[h].job \in RestoreIds \cup {None}
                                  /\ creations[h].pc = "push" <=> creations[h].job # None
                                  /\ creations[h].pc = "push" =>
                                        restores[creations[h].job].status \in Live
           /\ \A i \in DOMAIN queue : /\ queue[i] \in RestoreIds
                                      /\ restores[queue[i]].status \in Live
           /\ \A w \in Workers : /\ loops[w].job \in RestoreIds \cup {None}
                                 /\ loops[w].pc \in RestoreSteps
                                 /\ loops[w].pc # "idle" <=> loops[w].job # None
                                 /\ loops[w].pc # "idle" =>
                                       restores[loops[w].job].status \in Live
           /\ None \notin RestoreIds
<1>1. /\ \A h \in Handlers : creations[h] \in Creation
      /\ \A w \in Workers : loops[w] \in Loop
      /\ queue \in Seq(RestoreIds)
  BY DEF TypeOK, RestoreTypeOK
<1>2. /\ \A h \in Handlers : creations[h].job \in RestoreIds \cup {None}
      /\ \A w \in Workers : /\ loops[w].job \in RestoreIds \cup {None}
                            /\ loops[w].pc \in RestoreSteps
  BY <1>1 DEF Creation, Loop
<1>3. QED
  BY <1>1, <1>2, StoreAssumption DEF RestoreShape, HeldWhile, Inserted

\* Nothing about restore jobs changes.
LEMMA QuietRestores ==
    ASSUME RestoreInv, IInv',
           UNCHANGED <<restores, creations, queue, loops, applied>>
    PROVE  RestoreInv'
BY DEF RestoreInv, HeldWhile, HeldOnce, JobFollowsHolder, AppliedFollowsLoop,
   AppliedOnce

\* Holders let go of their ids; a job that a loop let go of may have FAILED.
LEMMA DropHolders ==
    ASSUME RestoreInv, IInv', UNCHANGED <<queue, applied>>,
           \A h \in Handlers : \/ creations'[h] = creations[h]
                               \/ creations'[h] = NoCreation,
           \A w \in Workers : loops'[w] \in {loops[w], NoLoop},
           \A r \in RestoreIds :
               \/ restores'[r] = restores[r]
               \/ /\ restores'[r].status = "failed"
                  /\ \E w \in Workers : loops[w].job = r /\ loops'[w] = NoLoop
    PROVE  RestoreInv'
<1>1. /\ IInv /\ TypeOK /\ RestoreShape /\ HeldWhile /\ HeldOnce
      /\ JobFollowsHolder /\ AppliedFollowsLoop /\ AppliedOnce
  BY DEF RestoreInv, IInv
<1>2. HeldWhile' /\ HeldOnce' /\ AppliedFollowsLoop'
  BY <1>1, HeldTypes DEF HeldWhile, HeldOnce, AppliedFollowsLoop, NoLoop, NoCreation
\* A job that is still held was not changed: its only holder let go of it.
<1>3. ASSUME NEW r \in RestoreIds,
             \/ \E h \in Handlers : creations'[h].pc = "push" /\ creations'[h].job = r
             \/ \E i \in DOMAIN queue : queue[i] = r
             \/ \E w \in Workers : loops'[w].pc # "idle" /\ loops'[w].job = r
      PROVE  restores'[r] = restores[r]
  BY <1>1, <1>3, HeldTypes DEF HeldOnce, NoLoop, NoCreation
<1>4. JobFollowsHolder'
  <2>1. ASSUME NEW h \in Handlers, creations'[h].pc = "push"
        PROVE  restores'[creations'[h].job].status = "pending"
    <3>1. creations'[h] = creations[h] /\ creations[h].job \in RestoreIds
      BY <1>1, <2>1, HeldTypes DEF NoCreation
    <3>2. QED
      BY <1>1, <1>3, <2>1, <3>1 DEF JobFollowsHolder
  <2>2. ASSUME NEW i \in DOMAIN queue
        PROVE  restores'[queue[i]].status = "pending"
    BY <1>1, <1>3, HeldTypes DEF JobFollowsHolder
  <2>3. ASSUME NEW w \in Workers, loops'[w].pc # "idle"
        PROVE  restores'[loops'[w].job].status = JobAt(loops'[w].pc)
    <3>1. loops'[w] = loops[w] /\ loops[w].job \in RestoreIds
      BY <1>1, <2>3, HeldTypes DEF NoLoop
    <3>2. QED
      BY <1>1, <1>3, <2>3, <3>1 DEF JobFollowsHolder
  <2>4. QED
    BY <2>1, <2>2, <2>3 DEF JobFollowsHolder
<1>5. AppliedOnce'
  BY <1>1 DEF AppliedOnce
<1>6. QED
  BY <1>2, <1>4, <1>5 DEF RestoreInv

\* One loop goes on with its job; the row and what was applied follow it.
LEMMA LoopGoesOn ==
    ASSUME RestoreInv, IInv', UNCHANGED <<creations, queue>>,
           NEW w \in Workers, loops[w].pc # "idle", loops'[w].pc # "idle",
           loops'[w].job = loops[w].job,
           \A u \in Workers : u # w => loops'[u] = loops[u],
           \A r \in RestoreIds : r # loops[w].job => /\ restores'[r] = restores[r]
                                                   /\ applied'[r] = applied[r],
           restores'[loops[w].job].status = JobAt(loops'[w].pc),
           LET n == applied'[loops[w].job].times IN
               /\ n \in {0, 1}
               /\ loops'[w].pc \in {"backup", "server", "begin",
                                     "decrypt", "decompress", "apply"} => n = 0
               /\ loops'[w].pc \in {"commit", "notify"} => n = 1
    PROVE  RestoreInv'
<1> DEFINE job == loops[w].job
           pc  == loops'[w].pc
<1>1. /\ IInv /\ TypeOK /\ RestoreShape /\ HeldWhile /\ HeldOnce
      /\ JobFollowsHolder /\ AppliedFollowsLoop /\ AppliedOnce
  BY DEF RestoreInv, IInv
<1>2. job \in RestoreIds /\ job # None /\ loops'[w].pc \in RestoreSteps
  <2>1. loops'[w] \in Loop
    BY DEF IInv, TypeOK, RestoreTypeOK
  <2>2. QED
    BY <1>1, <2>1, HeldTypes DEF Loop
<1>3. HeldWhile' /\ HeldOnce'
  BY <1>1, <1>2 DEF HeldWhile, HeldOnce
\* No one else holds the job.
<1>4. /\ \A h \in Handlers : creations[h].job # job
      /\ \A i \in DOMAIN queue : queue[i] # job
      /\ \A u \in Workers : u # w => loops[u].job # job
  BY <1>1, <1>2 DEF HeldOnce
<1>5. JobFollowsHolder' /\ AppliedFollowsLoop'
  BY <1>1, <1>4, HeldTypes DEF JobFollowsHolder, AppliedFollowsLoop
<1>6. AppliedOnce'
  BY <1>1, <1>2 DEF AppliedOnce, JobAt, RestoreSteps
<1>7. QED
  BY <1>3, <1>5, <1>6 DEF RestoreInv

-----------------------------------------------------------------------------
(* The steps. *)

\* One more id is held, by a holder that held nothing.
LEMMA RestoreApiRestores ==
    ASSUME RestoreInv, IInv', RestoreApi
    PROVE  RestoreInv'
<1>1. /\ IInv /\ TypeOK /\ RestoreShape /\ HeldWhile /\ HeldOnce
      /\ JobFollowsHolder /\ AppliedFollowsLoop /\ AppliedOnce
      /\ creations \in [Handlers -> Creation]
      /\ restores \in [RestoreIds -> Restore]
      /\ queue \in Seq(RestoreIds)
      /\ spent \in [Kinds -> Nat]
  BY DEF RestoreInv, IInv, TypeOK, RestoreTypeOK, StoreTypeOK
<1>2. UNCHANGED <<loops, applied>>
  BY DEF RestoreApi, CreateSelect, CreationStep, CreateInsert, CreatePush,
     CreationFault
\* A request ends, and lets go of its id if it holds one.
<1>4. ASSUME NEW h \in Handlers, UNCHANGED <<restores, queue>>,
             creations' = [creations EXCEPT ![h] = NoCreation]
      PROVE  RestoreInv'
  <2>1. \A k \in Handlers : creations'[k] = IF k = h THEN NoCreation ELSE creations[k]
    BY <1>1, <1>4
  <2>2. QED
    BY <1>2, <1>4, <2>1, DropHolders
<1>5. ASSUME NEW h \in Handlers, NEW b \in BackupIds, CreateSelect(h, b)
      PROVE  RestoreInv'
  <2>1. /\ UNCHANGED <<restores, queue>>
        /\ creations[h].pc = "idle"
        /\ creations'[h].pc = "insert" /\ creations'[h].job = None
        /\ \A k \in Handlers : k # h => creations'[k] = creations[k]
    BY <1>1, <1>5 DEF CreateSelect, storeVars, registry, holds
  <2>2. \A k \in Handlers : creations'[k].job = creations[k].job
    BY <1>1, <2>1 DEF HeldWhile
  <2>3. /\ HeldWhile' /\ HeldOnce' /\ JobFollowsHolder' /\ AppliedFollowsLoop'
        /\ AppliedOnce'
    BY <1>1, <1>2, <2>1, <2>2 DEF HeldWhile, HeldOnce, JobFollowsHolder,
       AppliedFollowsLoop, AppliedOnce
  <2>4. QED
    BY <2>3 DEF RestoreInv
<1>6. ASSUME NEW h \in Handlers, NEW r \in RestoreIds, NEW v \in Servers,
             CreateInsert(h, r, v)
      PROVE  RestoreInv'
  <2>1. /\ UNCHANGED queue /\ creations[h].pc = "insert"
        /\ creations[h].job = None /\ restores[r].status = "absent"
    BY <1>1, <1>6 DEF CreateInsert, HeldWhile
  <2>2. CASE UNCHANGED restores /\ creations' = [creations EXCEPT ![h] = NoCreation]
    BY <1>4, <2>1, <2>2
  <2>3. CASE /\ restores' = [restores EXCEPT ![r] =
                   [status |-> "pending", backup |-> creations[h].backup, server |-> v]]
             /\ creations' = [creations EXCEPT ![h].pc = "push", ![h].job = r]
    <3>1. /\ creations'[h] = [creations[h] EXCEPT !.pc = "push", !.job = r]
          /\ \A k \in Handlers : k # h => creations'[k] = creations[k]
          /\ creations[h] \in Creation
      BY <1>1, <2>3
    <3>2. /\ \A k \in Handlers : k # h => creations'[k].job = creations[k].job
          /\ \A k \in Handlers : k # h => creations'[k].pc = creations[k].pc
          /\ creations'[h].pc = "push" /\ creations'[h].job = r
      BY <3>1 DEF Creation
    <3>3. /\ restores'[r].status = "pending"
          /\ \A q \in RestoreIds : q # r => restores'[q] = restores[q]
      BY <1>1, <2>3
    \* The id is fresh: what is held was inserted.
    <3>4. /\ \A k \in Handlers : creations[k].job # r
          /\ \A i \in DOMAIN queue : queue[i] # r
          /\ \A w \in Workers : loops[w].job # r
          /\ r # None
      BY <1>1, <2>1, HeldTypes DEF Live
    <3>5. HeldWhile' /\ HeldOnce'
      <4>1. \A g, k \in Handlers : creations'[g].job = creations'[k].job
                                       => g = k \/ creations'[k].job = None
        BY <1>1, <3>2, <3>4 DEF HeldOnce
      <4>2. \A k \in Handlers, i \in DOMAIN queue : creations'[k].job # queue[i]
        BY <1>1, <3>2, <3>4 DEF HeldOnce
      <4>3. \A k \in Handlers, w \in Workers : creations'[k].job = loops[w].job
                                                    => loops[w].job = None
        BY <1>1, <3>2, <3>4 DEF HeldOnce
      <4>4. QED
        BY <1>1, <1>2, <2>1, <3>2, <4>1, <4>2, <4>3 DEF HeldWhile, HeldOnce
    <3>6. JobFollowsHolder'
      <4>1. ASSUME NEW k \in Handlers, creations'[k].pc = "push"
            PROVE  restores'[creations'[k].job].status = "pending"
        <5>1. CASE k = h
          BY <3>2, <3>3, <5>1
        <5>2. CASE k # h
          <6>1. creations[k].pc = "push" /\ creations[k].job \in RestoreIds
            BY <1>1, <3>2, <4>1, <5>2, HeldTypes
          <6>2. restores'[creations[k].job] = restores[creations[k].job]
            BY <3>3, <3>4, <6>1
          <6>3. QED
            BY <1>1, <3>2, <5>2, <6>1, <6>2 DEF JobFollowsHolder
        <5>3. QED
          BY <5>1, <5>2
      <4>2. ASSUME NEW i \in DOMAIN queue
            PROVE  restores'[queue[i]].status = "pending"
        BY <1>1, <3>3, <3>4, HeldTypes DEF JobFollowsHolder
      <4>3. ASSUME NEW w \in Workers, loops[w].pc # "idle"
            PROVE  restores'[loops[w].job].status = JobAt(loops[w].pc)
        <5>1. loops[w].job \in RestoreIds /\ loops[w].job # r
          BY <1>1, <3>4, <4>3, HeldTypes
        <5>2. QED
          BY <1>1, <3>3, <4>3, <5>1 DEF JobFollowsHolder
      <4>4. QED
        BY <1>2, <2>1, <4>1, <4>2, <4>3 DEF JobFollowsHolder
    <3>7. AppliedFollowsLoop' /\ AppliedOnce'
      BY <1>1, <1>2, <2>1, <3>3 DEF AppliedFollowsLoop, AppliedOnce
    <3>8. QED
      BY <3>5, <3>6, <3>7 DEF RestoreInv
  <2>4. QED
    BY <1>6, <2>2, <2>3 DEF CreateInsert
<1>7. ASSUME NEW h \in Handlers, CreatePush(h)
      PROVE  RestoreInv'
  <2> DEFINE job == creations[h].job
  <2>1. /\ UNCHANGED restores /\ creations[h].pc = "push"
        /\ creations' = [creations EXCEPT ![h] = NoCreation]
        /\ job \in RestoreIds /\ job # None
    BY <1>1, <1>7, HeldTypes DEF CreatePush
  <2>2. CASE Spend("redis") /\ UNCHANGED queue
    BY <1>4, <2>1, <2>2
  <2>3. CASE queue' = Append(queue, job)
    <3>1. /\ \A k \in Handlers : creations'[k] = IF k = h THEN NoCreation ELSE creations[k]
          /\ DOMAIN queue = 1..Len(queue) /\ Len(queue) \in Nat
          /\ DOMAIN queue' = 1..(Len(queue) + 1)
          /\ \A i \in DOMAIN queue : queue'[i] = queue[i]
          /\ queue'[Len(queue) + 1] = job
      BY <1>1, <2>1, <2>3
    <3>2. \A i \in DOMAIN queue' : /\ i \in DOMAIN queue \/ i = Len(queue) + 1
                                   /\ i \in DOMAIN queue => queue'[i] = queue[i]
      BY <3>1
    <3>3. HeldWhile'
      BY <1>1, <1>2, <3>1 DEF HeldWhile, NoCreation
    <3>4. /\ \A i \in DOMAIN queue : queue[i] # job
          /\ \A k \in Handlers : k # h => creations[k].job # job
          /\ \A w \in Workers : loops[w].job # job
      BY <1>1, <2>1 DEF HeldOnce
    <3>5. HeldOnce'
      <4>1. \A i, j \in DOMAIN queue' : queue'[i] = queue'[j] => i = j
        BY <1>1, <3>1, <3>2, <3>4 DEF HeldOnce
      <4>2. \A k \in Handlers, i \in DOMAIN queue' : creations'[k].job # queue'[i]
        BY <1>1, <2>1, <3>1, <3>2, <3>4, HeldTypes DEF HeldOnce, NoCreation
      <4>3. \A w \in Workers, i \in DOMAIN queue' : loops[w].job # queue'[i]
        BY <1>1, <3>1, <3>2, <3>4 DEF HeldOnce
      <4>4. \A k \in Handlers : creations'[k].job = IF k = h THEN None ELSE creations[k].job
        BY <3>1 DEF NoCreation
      <4>5. QED
        BY <1>1, <1>2, <4>1, <4>2, <4>3, <4>4 DEF HeldOnce
    <3>6. JobFollowsHolder' /\ AppliedFollowsLoop' /\ AppliedOnce'
      BY <1>1, <1>2, <2>1, <3>1, <3>2 DEF JobFollowsHolder, NoCreation,
         AppliedFollowsLoop, AppliedOnce
    <3>7. QED
      BY <3>3, <3>5, <3>6 DEF RestoreInv
  <2>4. QED
    BY <1>7, <2>2, <2>3 DEF CreatePush
<1>8. ASSUME NEW h \in Handlers, CreationFault(h)
      PROVE  RestoreInv'
  BY <1>4, <1>8 DEF CreationFault
<1>9. QED
  BY <1>5, <1>6, <1>7, <1>8 DEF RestoreApi, CreationStep

\* One queue loop pops an id, goes on with its job, or ends.
LEMMA RestoreStepRestores ==
    ASSUME RestoreInv, IInv', NEW w \in Workers, RestoreStep(w)
    PROVE  RestoreInv'
<1> DEFINE job == loops[w].job
<1>1. /\ IInv /\ TypeOK /\ RestoreShape /\ HeldWhile /\ HeldOnce
      /\ JobFollowsHolder /\ AppliedFollowsLoop /\ AppliedOnce
      /\ RestoreRefsComplete
      /\ loops \in [Workers -> Loop] /\ loops[w] \in Loop
      /\ restores \in [RestoreIds -> Restore]
      /\ applied \in [RestoreIds -> [times : Nat, content : BackupIds \cup {None}]]
      /\ queue \in Seq(RestoreIds)
      /\ spent \in [Kinds -> Nat]
  BY DEF RestoreInv, IInv, TypeOK, RestoreTypeOK, StoreTypeOK
<1>2. /\ UNCHANGED creations
      /\ loops[w].pc # "idle" => job \in RestoreIds /\ job # None
      /\ job # None => loops[w].pc # "idle"
      /\ loops[w].pc # "idle" => restores[job].status = JobAt(loops[w].pc)
  BY <1>1, HeldTypes DEF JobFollowsHolder, RestoreStep, PopRestore, SelectBackup,
     SelectServer, BeginRestore, Decrypt, Decompress, DecompressFails, LRaise,
     Apply, ApplyHangs, CompleteRestore, NotifyRestore, FailRestore, RestoreDbFault
\* The loop goes on at pc, its row gets the status of that position.
<1>4. ASSUME NEW pc \in RestoreSteps \ {"idle"}, loops[w].pc # "idle",
             loops'[w].pc = pc, loops'[w].job = job,
             \A u \in Workers : u # w => loops'[u] = loops[u],
             UNCHANGED queue,
             \/ UNCHANGED restores /\ JobAt(pc) = JobAt(loops[w].pc)
             \/ SetRestore(job, JobAt(pc)),
             UNCHANGED applied,
             pc \in {"backup", "server", "begin", "decrypt", "decompress", "apply"}
                => applied[job].times = 0,
             pc \in {"commit", "notify"} => applied[job].times = 1
      PROVE  RestoreInv'
  <2>1. /\ restores'[job].status = JobAt(pc)
        /\ \A r \in RestoreIds : r # job => restores'[r] = restores[r]
    BY <1>1, <1>2, <1>4 DEF SetRestore, Restore
  <2>2. applied[job].times \in {0, 1}
    <3>1. job \in RestoreIds /\ applied[job].times \in Nat /\ applied[job].times <= 1
      BY <1>1, <1>2, <1>4 DEF AppliedOnce
    <3>2. QED
      BY <3>1
  <2>3. QED
    BY <1>1, <1>2, <1>4, <2>1, <2>2, LoopGoesOn
\* The loop ends.
<1>5. ASSUME LEnd(w), UNCHANGED <<queue, applied>>, loops[w].pc # "idle",
             \/ UNCHANGED restores
             \/ SetRestore(job, "failed")
      PROVE  RestoreInv'
  <2>1. /\ loops'[w] = NoLoop
        /\ \A u \in Workers : u # w => loops'[u] = loops[u]
    BY <1>1, <1>5 DEF LEnd
  <2>2. \A r \in RestoreIds :
          \/ restores'[r] = restores[r]
          \/ restores'[r].status = "failed" /\ loops[w].job = r
    BY <1>1, <1>5 DEF SetRestore, Restore
  <2>3. QED
    BY <1>2, <1>5, <2>1, <2>2, DropHolders
<1>6. CASE PopRestore(w)
  <2>1. /\ queue # <<>> /\ queue' = Tail(queue) /\ loops[w].pc = "idle"
        /\ UNCHANGED <<restores, applied>>
    BY <1>6 DEF PopRestore, LAt, storeVars, registry, holds
  <2>2. /\ loops'[w].job = Head(queue) /\ loops'[w].pc = "backup"
        /\ \A u \in Workers : u # w => loops'[u] = loops[u]
    BY <1>1, <1>6 DEF PopRestore
  <2>3. /\ Len(queue) \in Nat /\ Len(queue) >= 1 /\ DOMAIN queue = 1..Len(queue)
        /\ Head(queue) = queue[1]
        /\ DOMAIN queue' = 1..(Len(queue) - 1)
        /\ \A i \in DOMAIN queue' : queue'[i] = queue[i + 1]
    BY <1>1, <2>1
  <2>4. /\ 1 \in DOMAIN queue
        /\ \A i \in DOMAIN queue' : i + 1 \in DOMAIN queue /\ i + 1 # 1
        /\ \A i \in DOMAIN queue : i # 1 => i - 1 \in DOMAIN queue'
                                         /\ queue'[i - 1] = queue[i]
        /\ \A i, j \in DOMAIN queue' : i + 1 = j + 1 => i = j
    BY <2>3
  <2>5. /\ Head(queue) \in RestoreIds /\ Head(queue) # None
        /\ \A h \in Handlers : creations[h].job # Head(queue)
        /\ \A u \in Workers : loops[u].job # Head(queue)
        /\ \A i \in DOMAIN queue' : queue'[i] # Head(queue)
        /\ restores[Head(queue)].status = "pending"
    BY <1>1, <2>3, <2>4, HeldTypes DEF HeldOnce, JobFollowsHolder
  <2>6. HeldWhile'
    BY <1>1, <1>2, <2>2 DEF HeldWhile
  <2>7. HeldOnce'
    <3>1. \A i, j \in DOMAIN queue' : queue'[i] = queue'[j] => i = j
      BY <1>1, <2>3, <2>4 DEF HeldOnce
    <3>2. \A h \in Handlers, i \in DOMAIN queue' : creations[h].job # queue'[i]
      BY <1>1, <2>3, <2>4 DEF HeldOnce
    <3>3. \A u \in Workers, i \in DOMAIN queue' : loops'[u].job # queue'[i]
      <4>1. ASSUME NEW u \in Workers, u # w, NEW i \in DOMAIN queue'
            PROVE  loops[u].job # queue'[i]
        BY <1>1, <2>3, <2>4 DEF HeldOnce
      <4>2. QED
        BY <2>2, <2>5, <4>1
    <3>4. \A u, v \in Workers : loops'[u].job = loops'[v].job
                                   => u = v \/ loops'[v].job = None
      BY <1>1, <2>2, <2>5 DEF HeldOnce
    <3>5. \A h \in Handlers, u \in Workers : creations[h].job = loops'[u].job
                                                => loops'[u].job = None
      BY <1>1, <2>2, <2>5 DEF HeldOnce
    <3>6. QED
      BY <1>1, <1>2, <3>1, <3>2, <3>3, <3>4, <3>5 DEF HeldOnce
  <2>8. JobFollowsHolder'
    <3>1. JobAt("backup") = "pending"
      BY DEF JobAt
    <3>2. ASSUME NEW i \in DOMAIN queue'
          PROVE  restores[queue'[i]].status = "pending"
      BY <1>1, <2>3, <2>4 DEF JobFollowsHolder
    <3>3. ASSUME NEW u \in Workers, loops'[u].pc # "idle"
          PROVE  restores[loops'[u].job].status = JobAt(loops'[u].pc)
      BY <1>1, <2>2, <2>5, <3>1, <3>3 DEF JobFollowsHolder
    <3>4. QED
      BY <1>1, <1>2, <2>1, <3>2, <3>3 DEF JobFollowsHolder
  <2>9. AppliedFollowsLoop' /\ AppliedOnce'
    BY <1>1, <2>1, <2>2 DEF AppliedFollowsLoop, AppliedOnce
  <2>10. QED
    BY <2>6, <2>7, <2>8, <2>9 DEF RestoreInv
\* The backup and the server are there: RestoreRefsComplete.
<1>7. loops[w].pc # "idle" => /\ Present(restores[job].backup)
                             /\ restores[job].server \in servers
  BY <1>1, <1>2, HeldTypes DEF RestoreRefsComplete, Present, Live
<1>8. loops[w].pc \in {"backup", "server", "begin"} => applied[job].times = 0
  BY <1>1, <1>2 DEF AppliedOnce, JobAt
<1>9. CASE SelectBackup(w) \/ SelectServer(w)
  <2>1. PICK pc \in {"server", "begin"} :
          /\ loops'[w].pc = pc /\ loops'[w].job = job
          /\ \A u \in Workers : u # w => loops'[u] = loops[u]
          /\ loops[w].pc \in {"backup", "server"}
    <3>1. CASE SelectBackup(w)
      <4>1. loops[w].pc = "backup" /\ loops' = [loops EXCEPT ![w].pc = "server",
                     ![w].path = backups[restores[loops[w].job].backup].path]
        BY <1>7, <3>1 DEF SelectBackup, LAt
      <4>2. QED
        BY <1>1, <4>1 DEF Loop
    <3>2. CASE SelectServer(w)
      <4>1. loops[w].pc = "server" /\ loops' = [loops EXCEPT ![w].pc = "begin"]
        BY <1>7, <3>2 DEF SelectServer, LAt, LGoto
      <4>2. QED
        BY <1>1, <4>1 DEF Loop
    <3>3. QED
      BY <1>9, <3>1, <3>2
  <2>2. UNCHANGED <<restores, queue, applied>>
    BY <1>7, <1>9, <2>1 DEF SelectBackup, SelectServer
  <2>3. JobAt(pc) = JobAt(loops[w].pc)
    BY <2>1 DEF JobAt
  <2>4. QED
    BY <1>4, <1>8, <2>1, <2>2, <2>3 DEF RestoreSteps
\* The steps that change the position and nothing else of the loop.
<1>10. ASSUME NEW pc \in RestoreSteps, LGoto(w, pc)
       PROVE  /\ loops'[w].pc = pc /\ loops'[w].job = job
              /\ \A u \in Workers : u # w => loops'[u] = loops[u]
  BY <1>1, <1>10 DEF LGoto, Loop
<1>11. CASE BeginRestore(w)
  <2>1. loops[w].pc = "begin" /\ LGoto(w, "decrypt") /\ SetRestore(job, "in_progress")
           /\ UNCHANGED <<queue, applied>>
    BY <1>11 DEF BeginRestore, LAt
  <2>2. JobAt("decrypt") = "in_progress"
    BY DEF JobAt
  <2>3. QED
    BY <1>4, <1>8, <1>10, <2>1, <2>2 DEF RestoreSteps
<1>12. CASE Decrypt(w) \/ Decompress(w) \/ DecompressFails(w)
  <2>1. /\ UNCHANGED <<restores, queue, applied>>
        /\ loops[w].pc \in {"decrypt", "decompress"}
        /\ \E pc \in {"decompress", "apply", "fail"} : LGoto(w, pc)
    BY <1>12 DEF Decrypt, Decompress, DecompressFails, LRaise, LAt
  <2>2. PICK pc \in {"decompress", "apply", "fail"} : LGoto(w, pc)
    BY <2>1
  <2>3. JobAt(pc) = JobAt(loops[w].pc) /\ applied[job].times = 0
    BY <1>1, <2>1, <2>2 DEF JobAt, AppliedFollowsLoop
  <2>4. QED
    BY <1>4, <1>10, <2>1, <2>2, <2>3 DEF RestoreSteps
<1>13. CASE Apply(w) \/ ApplyHangs(w)
  <2>1. /\ UNCHANGED <<restores, queue>>
        /\ loops[w].pc = "apply"
    BY <1>13 DEF Apply, ApplyHangs, LAt
  <2>2. applied[job].times = 0 /\ restores[job].status = "in_progress"
    BY <1>1, <1>2, <2>1 DEF AppliedFollowsLoop, JobAt
  <2>3. \A pc \in {"fail", "commit", "hung"} : JobAt(pc) = "in_progress"
    BY DEF JobAt
  <2>4. ASSUME NEW pc \in {"fail", "hung"}, UNCHANGED applied, LGoto(w, pc)
        PROVE  RestoreInv'
    BY <1>4, <1>10, <2>1, <2>2, <2>3, <2>4 DEF RestoreSteps, JobAt
  <2>5. ASSUME NEW pc \in {"commit", "fail", "hung"}, LGoto(w, pc), Added(w)
        PROVE  RestoreInv'
    <3>1. /\ applied'[job].times = 1
          /\ \A r \in RestoreIds : r # job => applied'[r] = applied[r]
      BY <1>1, <1>2, <2>1, <2>2, <2>5 DEF Added
    <3>2. /\ loops'[w].pc = pc /\ loops'[w].job = job
          /\ \A u \in Workers : u # w => loops'[u] = loops[u]
      BY <1>10, <2>5 DEF RestoreSteps
    <3>3. restores'[job].status = JobAt(pc)
      BY <2>1, <2>2, <2>3, <2>5
    <3>4. QED
      BY <1>2, <2>1, <2>5, <3>1, <3>2, <3>3, LoopGoesOn
  <2>6. QED
    BY <1>13, <2>4, <2>5 DEF Apply, ApplyHangs
<1>14. CASE CompleteRestore(w)
  <2>1. loops[w].pc = "commit" /\ LGoto(w, "notify") /\ SetRestore(job, "completed")
           /\ UNCHANGED <<queue, applied>>
    BY <1>14 DEF CompleteRestore, LAt
  <2>2. JobAt("notify") = "completed" /\ applied[job].times = 1
    BY <1>1, <2>1 DEF JobAt, AppliedFollowsLoop
  <2>3. QED
    BY <1>4, <1>10, <2>1, <2>2 DEF RestoreSteps
<1>15. CASE NotifyRestore(w) \/ FailRestore(w)
  <2>1. LEnd(w) /\ UNCHANGED <<queue, applied>> /\ loops[w].pc \in {"notify", "fail"}
           /\ (UNCHANGED restores \/ SetRestore(job, "failed"))
    BY <1>15 DEF NotifyRestore, FailRestore, LAt, storeVars, registry, holds
  <2>2. QED
    BY <1>5, <2>1
<1>16. CASE RestoreDbFault(w)
  BY <1>5, <1>16 DEF RestoreDbFault
<1>17. QED
  BY <1>6, <1>9, <1>11, <1>12, <1>13, <1>14, <1>15, <1>16 DEF RestoreStep

LEMMA CrashRestores ==
    ASSUME RestoreInv, IInv', NEW w \in Workers, Crash(w)
    PROVE  RestoreInv'
<1>1. spent \in [Kinds -> Nat] /\ loops \in [Workers -> Loop]
  BY DEF RestoreInv, IInv, TypeOK, StoreTypeOK, RestoreTypeOK
<1>2. /\ UNCHANGED <<restores, creations, queue, applied>>
      /\ \A u \in Workers : loops'[u] \in {loops[u], NoLoop}
  BY <1>1 DEF Crash
<1>3. QED
  BY <1>2, DropHolders

LEMMA InitRestores ==
    ASSUME Init
    PROVE  RestoreInv
<1>1. IInv
  BY InitInv
<1>2. /\ \A r \in RestoreIds : restores[r].status = "absent" /\ applied[r].times = 0
      /\ \A w \in Workers : loops[w] = NoLoop
      /\ \A h \in Handlers : creations[h] = NoCreation
      /\ queue = <<>>
  BY DEF Init, StoreInit, RestoreInit, NoRestore
<1>3. HeldWhile /\ HeldOnce /\ JobFollowsHolder
  BY <1>2 DEF HeldWhile, HeldOnce, JobFollowsHolder, NoLoop, NoCreation
<1>4. AppliedFollowsLoop /\ AppliedOnce
  BY <1>2 DEF AppliedFollowsLoop, AppliedOnce, NoLoop
<1>5. QED
  BY <1>1, <1>3, <1>4 DEF RestoreInv

LEMMA NextRestores ==
    ASSUME RestoreInv, [Next]_vars
    PROVE  RestoreInv'
<1>1. IInv'
  BY NextInv DEF RestoreInv
<1>2. CASE UNCHANGED vars
  BY <1>1, <1>2, QuietRestores DEF vars, storeVars, registry, holds, restoreVars
<1>3. CASE Operator \/ Clock \/ BackupApi
  <2>1. UNCHANGED <<restores, creations, queue, loops, applied>>
    BY <1>3 DEF Operator, CreateSchedule, UpdateSchedule, DeleteSchedule, Edit,
       DeleteServer, RenameServer, Clock, Tick, BackupApi, CreateBackup,
       RunScheduledBackup, DeleteSelect, BatchSelect, DeleteStep, DeleteUnlink,
       DeleteCommit, RequestFault, storeVars, registry, holds, restoreVars
  <2>2. QED
    BY <1>1, <2>1, QuietRestores
<1>4. ASSUME NEW w \in Workers, BackupWork(w)
      PROVE  RestoreInv'
  <2>1. UNCHANGED <<restores, creations, queue, loops, applied>>
    BY <1>4 DEF BackupWork, TaskStep, Fire, InsertRow, LoadRow, LoadServer, Begin,
       Dump, DumpFails, DumpHangs, Compress, Encrypt, Size, Torn, Onward, Raise,
       FileFault, Incomplete, Complete, Fail, Notify, Stale, DbFault, storeVars,
       registry, holds, restoreVars
  <2>2. QED
    BY <1>1, <2>1, QuietRestores
<1>5. QED
  BY <1>1, <1>2, <1>3, <1>4, RestoreApiRestores, RestoreStepRestores, CrashRestores
     DEF Next

-----------------------------------------------------------------------------
(* The theorems. *)

\* Who holds a restore job, in every reachable state: one request, one place
\* in the Redis list or one queue loop, and its row says which.
THEOREM RestoreInvariance == Spec => []RestoreInv
<1>1. Init => RestoreInv
  BY InitRestores
<1>2. RestoreInv /\ [Next]_vars => RestoreInv'
  BY NextRestores
<1>3. QED
  BY <1>1, <1>2, PTL DEF Spec

\* Whatever crashes, and however many workers poll the Redis list, a restore
\* job changes its LDAP server at most once, never before it says IN_PROGRESS,
\* and exactly once if it says COMPLETED.
THEOREM JobAppliedOnce == Spec => []AppliedOnce
<1>1. RestoreInv => AppliedOnce
  BY DEF RestoreInv
<1>2. QED
  BY <1>1, RestoreInvariance, PTL

-----------------------------------------------------------------------------
(* Lost jobs. *)

LossKinds == {"redis", "api", "crash", "db"}

\* A step loses no job, or a fault takes one id from its holder.
LossCounted ==
    \/ Lost' \subseteq Lost
    \/ \E k \in LossKinds : Spend(k) /\ \E x : Lost' \subseteq Lost \cup {x}

LEMMA LossByRequest ==
    ASSUME RestoreInv, RestoreApi
    PROVE  LossCounted
<1>1. /\ HeldWhile /\ UNCHANGED loops
      /\ creations \in [Handlers -> Creation]
      /\ restores \in [RestoreIds -> Restore]
      /\ queue \in Seq(RestoreIds)
  BY DEF RestoreInv, IInv, TypeOK, RestoreTypeOK, StoreTypeOK, RestoreApi,
     CreateSelect, CreationStep, CreateInsert, CreatePush, CreationFault
\* A request that ends takes its id along.
<1>2. ASSUME NEW h \in Handlers, creations' = [creations EXCEPT ![h] = NoCreation],
             UNCHANGED <<restores, queue>>
      PROVE  Lost' \subseteq Lost \cup {creations[h].job}
  <2>1. \A g \in Handlers : g # h => creations'[g] = creations[g]
    BY <1>1, <1>2
  <2>2. QED
    BY <1>1, <1>2, <2>1 DEF Lost, HasHolder, LoopAt
<1>3. ASSUME NEW h \in Handlers, creations[h].job = None,
             UNCHANGED <<restores, queue>>,
             \A g \in Handlers : g # h => creations'[g] = creations[g]
      PROVE  LossCounted
  BY <1>1, <1>3, StoreAssumption DEF LossCounted, Lost, HasHolder, LoopAt
<1>4. ASSUME NEW h \in Handlers, NEW b \in BackupIds, CreateSelect(h, b)
      PROVE  LossCounted
  <2>1. creations[h].job = None
    BY <1>1, <1>4 DEF HeldWhile, CreateSelect
  <2>2. QED
    BY <1>1, <1>3, <1>4, <2>1 DEF CreateSelect, storeVars, registry, holds
<1>5. ASSUME NEW h \in Handlers, NEW r \in RestoreIds, NEW v \in Servers,
             CreateInsert(h, r, v)
      PROVE  LossCounted
  <2>1. creations[h].job = None /\ UNCHANGED queue
    BY <1>1, <1>5 DEF HeldWhile, CreateInsert
  <2>2. /\ \A g \in Handlers : g # h => creations'[g] = creations[g]
        /\ UNCHANGED restores \/ /\ creations'[h].job = r
                                 /\ \A q \in RestoreIds : q # r
                                       => restores'[q] = restores[q]
    BY <1>1, <1>5 DEF CreateInsert, Creation
  <2>3. CASE UNCHANGED restores
    BY <1>3, <2>1, <2>2, <2>3
  <2>4. CASE /\ creations'[h].job = r
             /\ \A q \in RestoreIds : q # r => restores'[q] = restores[q]
    BY <1>1, <2>1, <2>2, <2>4, StoreAssumption
       DEF LossCounted, Lost, HasHolder, LoopAt
  <2>5. QED
    BY <2>2, <2>3, <2>4
<1>6. ASSUME NEW h \in Handlers, CreatePush(h)
      PROVE  LossCounted
  <2> DEFINE job == creations[h].job
  <2>1. UNCHANGED restores /\ creations' = [creations EXCEPT ![h] = NoCreation]
    BY <1>6 DEF CreatePush
  <2>2. CASE Spend("redis") /\ UNCHANGED queue
    BY <1>2, <2>1, <2>2 DEF LossCounted, LossKinds
  <2>3. CASE queue' = Append(queue, job)
    <3>1. job \in RestoreIds
      BY <1>6, HeldTypes DEF CreatePush, RestoreInv, IInv
    <3>2. /\ \A i \in DOMAIN queue : i \in DOMAIN queue' /\ queue'[i] = queue[i]
          /\ \E i \in DOMAIN queue' : queue'[i] = job
      <4>1. /\ DOMAIN queue = 1..Len(queue) /\ Len(queue) \in Nat
            /\ DOMAIN queue' = 1..(Len(queue) + 1)
            /\ \A i \in DOMAIN queue : queue'[i] = queue[i]
            /\ queue'[Len(queue) + 1] = job
        BY <1>1, <2>3, <3>1
      <4>2. QED
        BY <4>1
    <3>3. \A g \in Handlers : g # h => creations'[g] = creations[g]
      BY <1>1, <2>1
    <3>4. QED
      BY <1>1, <2>1, <3>2, <3>3 DEF LossCounted, Lost, HasHolder, LoopAt
  <2>4. QED
    BY <1>6, <2>2, <2>3 DEF CreatePush
<1>7. ASSUME NEW h \in Handlers, CreationFault(h)
      PROVE  LossCounted
  BY <1>2, <1>7 DEF CreationFault, LossCounted, LossKinds
<1>8. QED
  BY <1>4, <1>5, <1>6, <1>7 DEF RestoreApi, CreationStep

LEMMA LossByLoop ==
    ASSUME RestoreInv, RestoreInv', NEW w \in Workers, RestoreStep(w)
    PROVE  LossCounted
<1> DEFINE job == loops[w].job
<1>1. /\ HeldWhile /\ JobFollowsHolder /\ JobFollowsHolder'
      /\ loops \in [Workers -> Loop] /\ loops[w] \in Loop
      /\ restores \in [RestoreIds -> Restore]
      /\ queue \in Seq(RestoreIds)
  BY DEF RestoreInv, IInv, TypeOK, RestoreTypeOK, StoreTypeOK
<1>2. UNCHANGED creations
  BY DEF RestoreStep, PopRestore, SelectBackup, SelectServer, BeginRestore, Decrypt,
     Decompress, DecompressFails, LRaise, Apply, ApplyHangs, CompleteRestore,
     NotifyRestore, FailRestore, RestoreDbFault
<1>3. CASE PopRestore(w)
  <2>1. /\ UNCHANGED restores /\ queue # <<>> /\ queue' = Tail(queue)
        /\ loops[w].pc = "idle"
        /\ loops'[w].job = Head(queue) /\ loops'[w].pc = "backup"
        /\ \A u \in Workers : u # w => loops'[u] = loops[u]
    BY <1>1, <1>3 DEF PopRestore, LAt, storeVars, registry, holds
  <2>2. \A i \in DOMAIN queue :
            \/ queue[i] = Head(queue)
            \/ \E j \in DOMAIN queue' : queue'[j] = queue[i]
    <3>1. /\ Len(queue) \in Nat /\ DOMAIN queue = 1..Len(queue)
          /\ Head(queue) = queue[1]
          /\ DOMAIN queue' = 1..(Len(queue) - 1)
          /\ \A i \in DOMAIN queue' : queue'[i] = queue[i + 1]
      BY <1>1, <2>1
    <3>2. \A i \in DOMAIN queue : i # 1 => i - 1 \in DOMAIN queue'
                                         /\ queue'[i - 1] = queue[i]
      BY <3>1
    <3>3. QED
      BY <3>1, <3>2
  <2>3. QED
    BY <1>2, <2>1, <2>2 DEF LossCounted, Lost, HasHolder, LoopAt
\* Only the loop's own job is touched; it is lost if it is PENDING afterwards
\* and the loop is not at work on it.
<1>4. ASSUME loops[w].pc # "idle"
      PROVE  /\ UNCHANGED queue
             /\ \A u \in Workers : u # w => loops'[u] = loops[u]
             /\ \A r \in RestoreIds : r # job => restores'[r] = restores[r]
             /\ Lost' \subseteq Lost \cup {job}
  <2>1. /\ UNCHANGED queue
        /\ \A u \in Workers : u # w => loops'[u] = loops[u]
        /\ \A r \in RestoreIds : r # job => restores'[r] = restores[r]
    BY <1>1, <1>4 DEF RestoreStep, PopRestore, SelectBackup, SelectServer,
       BeginRestore, Decrypt, Decompress, DecompressFails, LRaise, Apply,
       ApplyHangs, CompleteRestore, NotifyRestore, FailRestore, RestoreDbFault, LAt,
       LGoto, LEnd, SetRestore, storeVars, registry, holds
  <2>2. QED
    BY <1>2, <2>1 DEF Lost, HasHolder, LoopAt
<1>5. ASSUME loops[w].pc # "idle", loops'[w].job = job, loops'[w].pc # "idle"
      PROVE  LossCounted
  <2>1. job \in RestoreIds /\ restores'[job].status = "pending"
           => loops'[w].pc \in {"backup", "server", "begin"}
    <3>1. loops'[w].pc \in RestoreSteps
      BY DEF RestoreInv, IInv, TypeOK, RestoreTypeOK, Loop
    <3>2. QED
      BY <1>1, <1>5, <3>1 DEF JobFollowsHolder, JobAt, RestoreSteps
  <2>2. job \notin Lost'
    BY <1>5, <2>1 DEF Lost, HasHolder, LoopAt
  <2>3. QED
    BY <1>4, <1>5, <2>2 DEF LossCounted
<1>6. ASSUME loops[w].pc # "idle", restores'[job].status # "pending"
      PROVE  LossCounted
  BY <1>4, <1>6 DEF LossCounted, Lost
<1>7. ASSUME NEW pc \in RestoreSteps \ {"idle"}, LGoto(w, pc)
      PROVE  loops'[w].job = job /\ loops'[w].pc # "idle"
  BY <1>1, <1>7 DEF LGoto, Loop
<1>8. ASSUME loops[w].pc # "idle", SetRestore(job, "failed")
      PROVE  restores'[job].status # "pending"
  BY <1>1, <1>8, HeldTypes DEF SetRestore, Restore, RestoreInv, IInv
<1>9. CASE SelectBackup(w)
  <2>1. \/ loops'[w].job = job /\ loops'[w].pc # "idle"
        \/ SetRestore(job, "failed")
    BY <1>1, <1>9 DEF SelectBackup, Loop
  <2>2. loops[w].pc # "idle"
    BY <1>9 DEF SelectBackup, LAt
  <2>3. QED
    BY <1>5, <1>6, <1>8, <2>1, <2>2
<1>10. CASE SelectServer(w)
  <2>1. \/ LGoto(w, "begin")
        \/ SetRestore(job, "failed")
    BY <1>10 DEF SelectServer
  <2>2. loops[w].pc # "idle"
    BY <1>10 DEF SelectServer, LAt
  <2>3. QED
    BY <1>5, <1>6, <1>7, <1>8, <2>1, <2>2 DEF RestoreSteps
<1>11. CASE BeginRestore(w) \/ CompleteRestore(w)
  <2>1. loops[w].pc # "idle" /\ \E pc \in {"decrypt", "notify"} : LGoto(w, pc)
    BY <1>11 DEF BeginRestore, CompleteRestore, LAt
  <2>2. QED
    BY <1>5, <1>7, <2>1 DEF RestoreSteps
<1>12. CASE \/ Decrypt(w) \/ Decompress(w) \/ DecompressFails(w) \/ Apply(w)
            \/ ApplyHangs(w)
  <2>1. /\ loops[w].pc # "idle"
        /\ \E pc \in {"decompress", "apply", "commit", "fail", "hung"} : LGoto(w, pc)
    BY <1>12 DEF Decrypt, Decompress, DecompressFails, LRaise, Apply, ApplyHangs,
       LAt
  <2>2. QED
    BY <1>5, <1>7, <2>1 DEF RestoreSteps
<1>13. CASE NotifyRestore(w) \/ FailRestore(w)
  <2>1. /\ loops[w].pc \in {"notify", "fail"}
        /\ UNCHANGED restores \/ SetRestore(job, "failed")
    BY <1>13 DEF NotifyRestore, FailRestore, LAt, storeVars, registry, holds
  <2>2. restores[job].status # "pending"
    BY <1>1, <2>1 DEF JobFollowsHolder, JobAt
  <2>3. QED
    BY <1>6, <1>8, <2>1, <2>2
<1>14. CASE RestoreDbFault(w)
  BY <1>4, <1>14 DEF RestoreDbFault, LossCounted, LossKinds
<1>15. QED
  BY <1>3, <1>9, <1>10, <1>11, <1>12, <1>13, <1>14 DEF RestoreStep

LEMMA LossByCrash ==
    ASSUME RestoreInv, NEW w \in Workers, Crash(w)
    PROVE  LossCounted
<1>1. /\ UNCHANGED <<restores, creations, queue>> /\ Spend("crash")
      /\ \A u \in Workers : u # w => loops'[u] = loops[u]
  BY DEF Crash, RestoreInv, IInv, TypeOK, RestoreTypeOK
<1>2. Lost' \subseteq Lost \cup {loops[w].job}
  BY <1>1 DEF Lost, HasHolder, LoopAt
<1>3. QED
  BY <1>1, <1>2 DEF LossCounted, LossKinds

LEMMA LossSteps ==
    ASSUME RestoreInv, RestoreInv', [Next]_vars
    PROVE  LossCounted
<1>1. ASSUME UNCHANGED <<restores, creations, queue, loops>>
      PROVE  LossCounted
  BY <1>1 DEF LossCounted, Lost, HasHolder, LoopAt
<1>2. CASE UNCHANGED vars
  BY <1>1, <1>2 DEF vars, storeVars, registry, holds, restoreVars
<1>3. CASE Operator \/ Clock \/ BackupApi
  <2>1. UNCHANGED <<restores, creations, queue, loops>>
    BY <1>3 DEF Operator, CreateSchedule, UpdateSchedule, DeleteSchedule, Edit,
       DeleteServer, RenameServer, Clock, Tick, BackupApi, CreateBackup,
       RunScheduledBackup, DeleteSelect, BatchSelect, DeleteStep, DeleteUnlink,
       DeleteCommit, RequestFault, storeVars, registry, holds, restoreVars
  <2>2. QED
    BY <1>1, <2>1
<1>4. ASSUME NEW w \in Workers, BackupWork(w)
      PROVE  LossCounted
  <2>1. UNCHANGED <<restores, creations, queue, loops>>
    BY <1>4 DEF BackupWork, TaskStep, Fire, InsertRow, LoadRow, LoadServer, Begin,
       Dump, DumpFails, DumpHangs, Compress, Encrypt, Size, Torn, Onward, Raise,
       FileFault, Incomplete, Complete, Fail, Notify, Stale, DbFault, storeVars,
       registry, holds, restoreVars
  <2>2. QED
    BY <1>1, <2>1
<1>5. QED
  BY <1>2, <1>3, <1>4, LossByRequest, LossByLoop, LossByCrash DEF Next

\* The two clauses of PendingJobHeld about the list say less than RestoreInv.
LEMMA ListHeld ==
    ASSUME RestoreInv
    PROVE  /\ \A i, j \in DOMAIN queue : queue[i] = queue[j] => i = j
           /\ \A i \in DOMAIN queue : /\ restores[queue[i]].status = "pending"
                                      /\ ~ LoopAt(queue[i], RestoreSteps)
BY DEF RestoreInv, HeldOnce, JobFollowsHolder, LoopAt

LEMMA LossStays ==
    ASSUME LossInv, RestoreInv', [Next]_vars
    PROVE  LossInv'
<1> DEFINE n == Cardinality(Lost)
           Sum == spent["redis"] + spent["api"] + spent["crash"] + spent["db"]
<1>1. /\ RestoreInv /\ IsFiniteSet(Lost) /\ n <= Sum /\ n \in Nat
      /\ spent \in [Kinds -> Nat] /\ spent' \in [Kinds -> Nat]
      /\ TypeOK /\ Sum \in Nat /\ Sum' \in Nat
  <2>1. /\ RestoreInv /\ IsFiniteSet(Lost) /\ n <= Sum /\ TypeOK
        /\ spent \in [Kinds -> Nat] /\ spent' \in [Kinds -> Nat]
    BY DEF LossInv, PendingJobHeld, RestoreInv, IInv, TypeOK, StoreTypeOK
  <2>2. n \in Nat
    BY <2>1, FS_CardinalityType
  <2>3. Sum \in Nat /\ Sum' \in Nat
    BY <2>1 DEF Kinds
  <2>4. QED
    BY <2>1, <2>2, <2>3
<1>2. IsFiniteSet(Lost') /\ Cardinality(Lost') <= Sum'
  <2>1. CASE Lost' \subseteq Lost
    <3>1. IsFiniteSet(Lost') /\ Cardinality(Lost') <= n
      BY <1>1, <2>1, FS_Subset
    <3>2. Sum <= Sum'
      <4>1. \A k \in Kinds : spent'[k] >= spent[k]
        BY <1>1, SpentGrows
      <4>2. QED
        BY <1>1, <4>1 DEF Kinds
    <3>3. Cardinality(Lost') \in Nat
      BY <3>1, FS_CardinalityType
    <3>4. QED
      BY <1>1, <3>1, <3>2, <3>3
  <2>2. ASSUME NEW k \in LossKinds, Spend(k), NEW x, Lost' \subseteq Lost \cup {x}
        PROVE  IsFiniteSet(Lost') /\ Cardinality(Lost') <= Sum'
    <3>1. /\ IsFiniteSet(Lost \cup {x})
          /\ Cardinality(Lost \cup {x}) \in Nat
          /\ Cardinality(Lost \cup {x}) <= n + 1
      <4>1. /\ IsFiniteSet(Lost \cup {x})
            /\ Cardinality(Lost \cup {x}) = IF x \in Lost THEN n ELSE n + 1
        BY <1>1, FS_AddElement
      <4>2. QED
        BY <1>1, <4>1
    <3>2. IsFiniteSet(Lost') /\ Cardinality(Lost') <= Cardinality(Lost \cup {x})
      BY <2>2, <3>1, FS_Subset
    <3>3. Sum' = Sum + 1 /\ Sum \in Nat
      BY <1>1, <2>2 DEF Spend, LossKinds, Kinds
    <3>4. Cardinality(Lost') \in Nat
      BY <3>2, FS_CardinalityType
    <3>5. QED
      BY <1>1, <3>1, <3>2, <3>3, <3>4
  <2>3. QED
    BY <1>1, <2>1, <2>2, LossSteps DEF LossCounted
<1>3. (RestoreInv
         => /\ \A i, j \in DOMAIN queue : queue[i] = queue[j] => i = j
            /\ \A i \in DOMAIN queue : /\ restores[queue[i]].status = "pending"
                                       /\ ~ LoopAt(queue[i], RestoreSteps))'
  BY ListHeld, PTL
<1>4. QED
  BY <1>2, <1>3 DEF LossInv, PendingJobHeld

\* The list holds PENDING jobs only, each once and in no loop's hands; and each
\* failure of Redis, of a request, of a worker or of the database leaves at most
\* one PENDING job behind that nothing holds.
THEOREM PendingJobsHeld == Spec => []PendingJobHeld
<1>1. Init => LossInv
  <2> SUFFICES ASSUME Init PROVE LossInv
    OBVIOUS
  <2>1. RestoreInv
    BY InitRestores
  <2>2. /\ Lost = {} /\ spent \in [Kinds -> Nat]
    BY <2>1 DEF Init, StoreInit, NoRestore, Lost, RestoreInv, IInv, TypeOK,
       StoreTypeOK
  <2>3. IsFiniteSet(Lost) /\ Cardinality(Lost) = 0
    BY <2>2, FS_EmptySet
  <2>4. Cardinality(Lost)
           <= spent["redis"] + spent["api"] + spent["crash"] + spent["db"]
    BY <2>2, <2>3 DEF Kinds
  <2>5. QED
    BY <2>1, <2>3, <2>4, ListHeld DEF LossInv, PendingJobHeld
<1>2. LossInv /\ [Next]_vars => LossInv'
  BY NextRestores, LossStays DEF LossInv
<1>3. LossInv => PendingJobHeld
  BY DEF LossInv
<1>4. QED
  BY <1>1, <1>2, <1>3, PTL DEF Spec

\* No step gives a lost job a holder, or changes its row.
LEMMA LostStays ==
    ASSUME RestoreInv, [Next]_vars, NEW r \in Lost
    PROVE  r \in Lost'
<1>1. /\ HeldWhile /\ JobFollowsHolder
      /\ creations \in [Handlers -> Creation]
      /\ loops \in [Workers -> Loop]
      /\ restores \in [RestoreIds -> Restore]
      /\ queue \in Seq(RestoreIds)
  BY DEF RestoreInv, IInv, TypeOK, RestoreTypeOK, StoreTypeOK
<1>2. /\ r \in RestoreIds /\ restores[r].status = "pending" /\ r # None
      /\ \A i \in DOMAIN queue : queue[i] # r
      /\ \A h \in Handlers : creations[h].job # r
      /\ \A w \in Workers : loops[w].job # r
  <2>1. /\ r \in RestoreIds /\ restores[r].status = "pending" /\ ~ HasHolder(r)
        /\ r # None
    BY HeldTypes DEF Lost, RestoreInv, IInv
  \* A loop that is further on with a job has changed its status.
  <2>2. ASSUME NEW w \in Workers, loops[w].job = r
        PROVE  FALSE
    <3>1. loops[w].pc \in RestoreSteps /\ loops[w].pc # "idle"
      BY <1>1, <2>1, <2>2 DEF HeldWhile, Loop
    <3>2. JobAt(loops[w].pc) = "pending"
      BY <1>1, <2>1, <2>2, <3>1 DEF JobFollowsHolder
    <3>3. QED
      BY <2>1, <2>2, <3>1, <3>2 DEF JobAt, HasHolder, LoopAt, RestoreSteps
  <2>3. QED
    BY <2>1, <2>2 DEF HasHolder
<1>3. ASSUME restores'[r] = restores[r],
             \A i \in DOMAIN queue' : queue'[i] # r,
             \A h \in Handlers : creations'[h].job # r,
             \A w \in Workers : loops'[w].job # r
      PROVE  r \in Lost'
  BY <1>2, <1>3 DEF Lost, HasHolder, LoopAt
<1>4. CASE RestoreApi
  <2>1. /\ UNCHANGED loops
        /\ restores'[r] = restores[r]
        /\ \A h \in Handlers : creations'[h].job # r
        /\ \/ UNCHANGED queue
           \/ \E h \in Handlers : /\ queue' = Append(queue, creations[h].job)
                                  /\ creations[h].pc = "push"
    <3>1. ASSUME NEW h \in Handlers, NEW b \in BackupIds, CreateSelect(h, b)
          PROVE  /\ UNCHANGED <<loops, restores, queue>>
                 /\ \A g \in Handlers : creations'[g].job \in {creations[g].job, None}
      BY <1>1, <3>1 DEF CreateSelect, storeVars, registry, holds
    \* The row that is inserted has an id that no row had.
    <3>2. ASSUME NEW h \in Handlers, NEW q \in RestoreIds, NEW v \in Servers,
                 CreateInsert(h, q, v)
          PROVE  /\ UNCHANGED <<loops, queue>> /\ q # r
                 /\ restores'[r] = restores[r]
                 /\ \A g \in Handlers : creations'[g].job
                                             \in {creations[g].job, None, q}
      <4>1. UNCHANGED <<loops, queue>> /\ q # r
        BY <1>2, <3>2 DEF CreateInsert
      <4>2. restores'[r] = restores[r]
        BY <1>1, <1>2, <3>2, <4>1 DEF CreateInsert
      <4>3. \A g \in Handlers : creations'[g].job \in {creations[g].job, None, q}
        BY <1>1, <3>2 DEF CreateInsert, NoCreation, Creation
      <4>4. QED
        BY <4>1, <4>2, <4>3
    <3>3. ASSUME NEW h \in Handlers, CreatePush(h) \/ CreationFault(h)
          PROVE  /\ UNCHANGED <<loops, restores>>
                 /\ \A g \in Handlers : creations'[g].job \in {creations[g].job, None}
                 /\ \/ UNCHANGED queue
                    \/ /\ queue' = Append(queue, creations[h].job)
                       /\ creations[h].pc = "push"
      BY <1>1, <3>3 DEF CreatePush, CreationFault, NoCreation
    <3>4. QED
      BY <1>2, <1>4, <3>1, <3>2, <3>3 DEF RestoreApi, CreationStep
  <2>2. ASSUME NEW h \in Handlers, queue' = Append(queue, creations[h].job),
               creations[h].pc = "push"
        PROVE  \A i \in DOMAIN queue' : queue'[i] # r
    <3>1. creations[h].job \in RestoreIds
      BY <2>2, HeldTypes DEF RestoreInv, IInv
    <3>2. \A i \in DOMAIN queue' : \/ i \in DOMAIN queue /\ queue'[i] = queue[i]
                                   \/ queue'[i] = creations[h].job
      BY <1>1, <2>2, <3>1
    <3>3. QED
      BY <1>2, <3>2
  <2>3. QED
    BY <1>2, <1>3, <2>1, <2>2
<1>5. ASSUME NEW w \in Workers, RestoreStep(w)
      PROVE  r \in Lost'
  <2>1. CASE PopRestore(w)
    <3>1. /\ UNCHANGED <<restores, creations>>
          /\ queue # <<>> /\ queue' = Tail(queue)
          /\ \A u \in Workers : loops'[u].job \in {loops[u].job, Head(queue)}
      BY <1>1, <2>1 DEF PopRestore, storeVars, registry, holds
    <3>2. /\ Head(queue) # r
          /\ \A i \in DOMAIN queue' : queue'[i] # r
      <4>1. /\ 1 \in DOMAIN queue /\ Head(queue) = queue[1]
            /\ \A i \in DOMAIN queue' : i + 1 \in DOMAIN queue
                                        /\ queue'[i] = queue[i + 1]
        BY <1>1, <3>1
      <4>2. QED
        BY <1>2, <4>1
    <3>3. QED
      BY <1>2, <1>3, <3>1, <3>2
  <2>2. CASE ~ PopRestore(w)
    <3>1. /\ UNCHANGED <<creations, queue>>
          /\ \A q \in RestoreIds : q # loops[w].job => restores'[q] = restores[q]
      BY <1>1, <1>5, <2>2 DEF RestoreStep, SelectBackup, SelectServer, BeginRestore,
         Decrypt, Decompress, DecompressFails, LRaise, Apply, ApplyHangs,
         CompleteRestore, NotifyRestore, FailRestore, RestoreDbFault, SetRestore,
         storeVars, registry, holds
    <3>2. \A u \in Workers : loops'[u].job \in {loops[u].job, None}
      BY <1>1, <1>5, <2>2 DEF RestoreStep, SelectBackup, SelectServer, BeginRestore,
         Decrypt, Decompress, DecompressFails, LRaise, Apply, ApplyHangs,
         CompleteRestore, NotifyRestore, FailRestore, RestoreDbFault, LGoto, LEnd,
         NoLoop, Loop
    <3>3. QED
      BY <1>2, <1>3, <3>1, <3>2
  <2>3. QED
    BY <2>1, <2>2
<1>6. ASSUME NEW w \in Workers, Crash(w)
      PROVE  r \in Lost'
  <2>1. /\ UNCHANGED <<restores, creations, queue>>
        /\ \A u \in Workers : loops'[u].job \in {loops[u].job, None}
    BY <1>1, <1>6 DEF Crash, NoLoop
  <2>2. QED
    BY <1>2, <1>3, <2>1
<1>7. ASSUME UNCHANGED <<restores, creations, queue, loops>>
      PROVE  r \in Lost'
  BY <1>2, <1>3, <1>7
<1>8. CASE UNCHANGED vars \/ Operator \/ Clock \/ BackupApi
  BY <1>7, <1>8 DEF vars, Operator, CreateSchedule, UpdateSchedule, DeleteSchedule,
     Edit, DeleteServer, RenameServer, Clock, Tick, BackupApi, CreateBackup,
     RunScheduledBackup, DeleteSelect, BatchSelect, DeleteStep, DeleteUnlink,
     DeleteCommit, RequestFault, storeVars, registry, holds, restoreVars
<1>9. ASSUME NEW w \in Workers, BackupWork(w)
      PROVE  r \in Lost'
  BY <1>7, <1>9 DEF BackupWork, TaskStep, Fire, InsertRow, LoadRow, LoadServer,
     Begin, Dump, DumpFails, DumpHangs, Compress, Encrypt, Size, Torn, Onward,
     Raise, FileFault, Incomplete, Complete, Fail, Notify, Stale, DbFault,
     storeVars, registry, holds, restoreVars
<1>10. QED
  BY <1>4, <1>5, <1>6, <1>8, <1>9 DEF Next

\* A lost job is lost for good: nothing in the worker or the API looks for
\* PENDING jobs outside the list, and no restart puts an id back.
THEOREM LostForever == Spec => [][Lost \subseteq Lost']_vars
<1>1. RestoreInv /\ [Next]_vars => [Lost \subseteq Lost']_vars
  BY LostStays
<1>2. QED
  BY <1>1, RestoreInvariance, PTL DEF Spec

-----------------------------------------------------------------------------
(* The restore_jobs table implements JobLifecycle. *)

LEMMA OneJobMoves ==
    ASSUME NEW r \in RestoreIds, NEW x, NEW y, <<x, y>> \in RestoreLife!Edges,
           restores[r].status = x, restores'[r].status = y,
           \A q \in RestoreIds : q # r => restores'[q] = restores[q]
    PROVE  RestoreLife!Move(r)
<1> DEFINE st == [q \in RestoreIds |-> restores[q].status]
           nx == [q \in RestoreIds |-> restores'[q].status]
<1>1. nx = [st EXCEPT ![r] = y] /\ st[r] = x
  OBVIOUS
<1>2. <<x, y>>[1] = x /\ <<x, y>>[2] = y
  OBVIOUS
<1>3. QED
  BY <1>1, <1>2 DEF RestoreLife!Move

LEMMA RestoreLifeStep ==
    ASSUME RestoreInv, [Next]_vars
    PROVE  [RestoreLife!Next]_([r \in RestoreIds |-> restores[r].status])
<1> DEFINE Moves == \E r \in RestoreIds : RestoreLife!Move(r)
           st == [r \in RestoreIds |-> restores[r].status]
<1>1. /\ TypeOK /\ RestoreShape /\ HeldWhile /\ JobFollowsHolder
      /\ RestoreRefsComplete
      /\ restores \in [RestoreIds -> Restore]
  BY DEF RestoreInv, IInv, TypeOK, StoreTypeOK
<1>2. ASSUME UNCHANGED restores
      PROVE  UNCHANGED st
  BY <1>2
<1>3. ASSUME NEW h \in Handlers, NEW r \in RestoreIds, NEW v \in Servers,
             CreateInsert(h, r, v)
      PROVE  Moves \/ UNCHANGED restores
  <2>1. CASE restores' = [restores EXCEPT ![r] =
                [status |-> "pending", backup |-> creations[h].backup, server |-> v]]
    <3>1. /\ restores[r].status = "absent" /\ restores'[r].status = "pending"
          /\ \A q \in RestoreIds : q # r => restores'[q] = restores[q]
      BY <1>1, <1>3, <2>1 DEF CreateInsert
    <3>2. <<"absent", "pending">> \in RestoreLife!Edges
      BY DEF RestoreLife!Edges
    <3>3. QED
      BY <3>1, <3>2, OneJobMoves
  <2>2. QED
    BY <1>3, <2>1 DEF CreateInsert
<1>4. ASSUME NEW w \in Workers, RestoreStep(w)
      PROVE  Moves \/ UNCHANGED restores
  <2> DEFINE job == loops[w].job
  <2>1. loops[w].pc # "idle" => /\ job \in RestoreIds
                               /\ restores[job] \in Restore
                               /\ restores[job].status = JobAt(loops[w].pc)
                               /\ Present(restores[job].backup)
                               /\ restores[job].server \in servers
    BY <1>1, HeldTypes DEF JobFollowsHolder, RestoreRefsComplete, Present, Live
  <2>2. ASSUME NEW st0, NEW st1, SetRestore(job, st1), loops[w].pc # "idle",
               JobAt(loops[w].pc) = st0, <<st0, st1>> \in RestoreLife!Edges
        PROVE  Moves
    <3>1. /\ restores[job].status = st0 /\ restores'[job].status = st1
          /\ \A q \in RestoreIds : q # job => restores'[q] = restores[q]
      BY <1>1, <2>1, <2>2 DEF SetRestore, Restore
    <3>2. QED
      BY <2>1, <2>2, <3>1, OneJobMoves
  <2>3. /\ <<"pending", "in_progress">> \in RestoreLife!Edges
        /\ <<"in_progress", "completed">> \in RestoreLife!Edges
        /\ <<"in_progress", "failed">> \in RestoreLife!Edges
    BY DEF RestoreLife!Edges
  <2>4. CASE BeginRestore(w)
    <3>1. JobAt(loops[w].pc) = "pending" /\ loops[w].pc # "idle"
      BY <2>4 DEF BeginRestore, LAt, JobAt
    <3>2. QED
      BY <2>2, <2>3, <2>4, <3>1 DEF BeginRestore
  <2>5. CASE CompleteRestore(w) \/ FailRestore(w)
    <3>1. JobAt(loops[w].pc) = "in_progress" /\ loops[w].pc # "idle"
      BY <2>5 DEF CompleteRestore, FailRestore, LAt, JobAt
    <3>2. QED
      BY <2>2, <2>3, <2>5, <3>1 DEF CompleteRestore, FailRestore
  <2>6. CASE SelectBackup(w) \/ SelectServer(w)
    <3>1. loops[w].pc # "idle"
      BY <2>6 DEF SelectBackup, SelectServer, LAt
    <3>2. QED
      BY <2>1, <2>6, <3>1 DEF SelectBackup, SelectServer
  <2>7. QED
    BY <1>4, <2>4, <2>5, <2>6 DEF RestoreStep, PopRestore, Decrypt, Decompress,
       DecompressFails, LRaise, Apply, ApplyHangs, NotifyRestore, RestoreDbFault,
       storeVars, registry, holds
<1>5. CASE UNCHANGED vars
  BY <1>2, <1>5 DEF vars, storeVars, registry, holds
<1>6. CASE Operator \/ Clock \/ BackupApi \/ \E w \in Workers : BackupWork(w) \/ Crash(w)
  <2>1. UNCHANGED restores
    <3>1. CASE Operator \/ Clock \/ BackupApi
      BY <3>1 DEF Operator, CreateSchedule, UpdateSchedule, DeleteSchedule, Edit,
         DeleteServer, RenameServer, Clock, Tick, BackupApi, CreateBackup,
         RunScheduledBackup, DeleteSelect, BatchSelect, DeleteStep, DeleteUnlink,
         DeleteCommit, RequestFault, storeVars, registry, holds
    <3>2. ASSUME NEW w \in Workers, BackupWork(w)
          PROVE  UNCHANGED restores
      BY <3>2 DEF BackupWork, TaskStep, Fire, InsertRow, LoadRow, LoadServer, Begin,
         Dump, DumpFails, DumpHangs, Compress, Encrypt, Size, Torn, Onward, Raise,
         FileFault, Incomplete, Complete, Fail, Notify, Stale, DbFault, storeVars,
         registry, holds
    <3>3. QED
      BY <1>6, <3>1, <3>2 DEF Crash
  <2>2. QED
    BY <1>2, <2>1
<1>7. CASE RestoreApi
  BY <1>2, <1>3, <1>7 DEF RestoreApi, CreateSelect, CreationStep, CreatePush,
     CreationFault, storeVars, registry, holds, RestoreLife!Next
<1>8. CASE \E w \in Workers : RestoreStep(w)
  BY <1>2, <1>4, <1>8 DEF RestoreLife!Next
<1>9. QED
  BY <1>5, <1>6, <1>7, <1>8 DEF Next

\* The rows of restore_jobs live the life JobLifecycle describes.  The two
\* failures before IN_PROGRESS that perform_restore provides for never happen:
\* the backup and the server of a job stay.
THEOREM RestoreRefinement == Spec => RestoreLifecycle
<1>1. Init => RestoreLife!Init
  BY DEF Init, StoreInit, NoRestore, RestoreLife!Init
<1>2. RestoreInv /\ [Next]_vars
         => [RestoreLife!Next]_([r \in RestoreIds |-> restores[r].status])
  BY RestoreLifeStep
<1>3. QED
  BY <1>1, <1>2, RestoreInvariance, PTL DEF Spec, RestoreLifecycle, RestoreLife!Spec
=============================================================================
