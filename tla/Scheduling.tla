----------------------------- MODULE Scheduling -----------------------------
(* The scheduled_backups rows, the routes that edit them, and the copy of   *)
(* them that each worker's APScheduler holds.  A worker reads the table     *)
(* once, when it starts; a cron job that fires reads its own row again.     *)
EXTENDS GuardStore

CONSTANT Loaded   \* schedules that exist and are active at the beginning

ASSUME SchedulingAssumption == Loaded \subseteq Schedules

VARIABLES
    schedules,    \* scheduled_backups table: state of each row
    registered,   \* per worker, the jobs in its scheduler
    due           \* per worker, the jobs whose trigger fired this second

schedulingVars == <<schedules, registered, due>>

ScheduleStates == {"absent", "active", "inactive", "deleted"}
Active == {s \in Schedules : schedules[s] = "active"}

SchedulingTypeOK ==
    /\ schedules \in [Schedules -> ScheduleStates]
    /\ registered \in [Workers -> SUBSET Schedules]
    /\ due \in [Workers -> SUBSET Schedules]

SchedulingInit ==
    /\ schedules = [s \in Schedules |->
                        IF s \in Loaded THEN "active" ELSE "absent"]
    /\ registered = [w \in Workers |-> Loaded]
    /\ due = [w \in Workers |-> {}]

Edit(s, st) == /\ Spend("edit")
               /\ schedules' = [schedules EXCEPT ![s] = st]
               /\ UNCHANGED <<registry, backups, restores, disk, holds, now,
                              registered, due>>

\* POST /scheduled-backups: the server must exist.
CreateSchedule(s) == /\ schedules[s] = "absent"
                     /\ ServerOf[s] \in servers
                     /\ Edit(s, "active")

\* PUT /scheduled-backups/{id} that flips is_active.
UpdateSchedule(s) ==
    \/ schedules[s] = "active"   /\ Edit(s, "inactive")
    \/ schedules[s] = "inactive" /\ Edit(s, "active")

\* DELETE /scheduled-backups/{id}
DeleteSchedule(s) == /\ schedules[s] \in {"active", "inactive"}
                     /\ Edit(s, "deleted")

\* DELETE /ldap-servers/{id}: the foreign keys of the three tables refuse it.
DeleteServer(v) ==
    /\ v \in servers
    /\ ~ ServerReferenced(v)
    /\ \A s \in Schedules :
          ServerOf[s] = v => schedules[s] \notin {"active", "inactive"}
    /\ Spend("edit")
    /\ servers' = servers \ {v}
    /\ UNCHANGED <<names, holders, backups, restores, disk, holds, now,
                   schedulingVars>>

\* PUT /ldap-servers/{id} that changes the name; the column is unique.
RenameServer(v, n) ==
    /\ v \in servers
    /\ \A u \in servers : names[u] # n
    /\ Spend("edit")
    /\ names' = [names EXCEPT ![v] = n]
    /\ holders' = [holders EXCEPT ![n] = @ \cup {v}]
    /\ UNCHANGED <<servers, backups, restores, disk, holds, now,
                   schedulingVars>>

\* What a worker's scheduler holds after load_scheduled_backups.
Load(w) == /\ registered' = [registered EXCEPT ![w] = Active]
           /\ due' = [due EXCEPT ![w] = {}]
=============================================================================
