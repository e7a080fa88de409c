------------------------ MODULE LdapGuardInvariants ------------------------
(* The inductive invariants, beyond IInv, that the safety properties of     *)
(* LdapGuard rest on: who holds a restore job, and who owns a file.         *)
EXTENDS LdapGuard

-----------------------------------------------------------------------------
(* Restore jobs.  The id of a job is held by the request that is about to   *)
(* push it, by the Redis list, or by one queue loop.                        *)

\* What holds an id at all: a request between its INSERT and its RPUSH, a
\* loop that awaits perform_restore.
HeldWhile ==
    /\ \A h \in Handlers : creations[h].job # None => creations[h].pc = "push"
    /\ \A w \in Workers  : loops[w].job # None => loops[w].pc # "idle"

\* No id is held twice, by two holders of a kind or of different kinds.
HeldOnce ==
    /\ \A g, h \in Handlers : creations[g].job = creations[h].job
                                 => g = h \/ creations[h].job = None
    /\ \A i, j \in DOMAIN queue : queue[i] = queue[j] => i = j
    /\ \A u, w \in Workers : loops[u].job = loops[w].job
                                => u = w \/ loops[w].job = None
    /\ \A h \in Handlers, i \in DOMAIN queue : creations[h].job # queue[i]
    /\ \A w \in Workers, i \in DOMAIN queue : loops[w].job # queue[i]
    /\ \A h \in Handlers, w \in Workers : creations[h].job = loops[w].job
                                             => loops[w].job = None

\* The status a loop at pc has given its job.
JobAt(pc) == CASE pc \in {"backup", "server", "begin"} -> "pending"
               [] pc = "notify"                        -> "completed"
               [] OTHER                                -> "in_progress"

JobFollowsHolder ==
    /\ \A h \in Handlers : creations[h].pc = "push"
          => restores[creations[h].job].status = "pending"
    /\ \A i \in DOMAIN queue : restores[queue[i]].status = "pending"
    /\ \A w \in Workers : loops[w].pc # "idle"
          => restores[loops[w].job].status = JobAt(loops[w].pc)

\* The one call that changes the LDAP server lies between two positions.
AppliedFollowsLoop ==
    \A w \in Workers :
        /\ loops[w].pc \in {"decrypt", "decompress", "apply"}
              => applied[loops[w].job].times = 0
        /\ loops[w].pc = "commit" => applied[loops[w].job].times = 1

RestoreInv == /\ IInv
              /\ HeldWhile
              /\ HeldOnce
              /\ JobFollowsHolder
              /\ AppliedFollowsLoop
              /\ AppliedOnce

\* Each fault takes at most one job from its holder.
LossInv == /\ RestoreInv
           /\ IsFiniteSet(Lost)
           /\ PendingJobHeld

-----------------------------------------------------------------------------
(* Gauges.  A worker has finitely many coroutines between the two lines that *)
(* move its gauge, however many schedules there are.                        *)

GaugeInv == /\ IInv
            /\ \A w \in Workers : IsFiniteSet(Counted(w))
            /\ GaugesCountJobs

-----------------------------------------------------------------------------
(* Files.  Every file of a stem comes from a dump that was named so.        *)

\* Backup b has to do with the files of stem p: its row or its coroutine names
\* them, its dump is in one of them, a request is about to remove the archive.
Uses(b, p) ==
    \/ backups[b].path = p
    \/ \E w \in Workers, s \in Schedules :
          tasks[w][s].backup = b /\ tasks[w][s].path = p
    \/ \E k \in Suffixes : disk[p][k] = b
    \/ \E h \in Handlers : requests[h].path = p /\ b \in requests[h].ids

BeforeDump  == {"load", "server", "begin", "dump"}

\* A server is among the holders of its name; a coroutine loaded the name that
\* its server bore then.
NameBorne ==
    /\ \A v \in servers : v \in holders[names[v]]
    /\ \A w \in Workers, s \in Schedules :
          tasks[w][s].name # None => ServerOf[s] \in holders[tasks[w][s].name]

\* A job whose trigger has fired waits, and does not run.
DueIsIdle == \A w \in Workers : \A s \in due[w] : ~ Running(w, s)

\* Until its dump a backup has no files.
Fresh ==
    /\ \A w \in Workers, s \in Schedules :
          /\ tasks[w][s].pc \in {"idle", "insert"} => tasks[w][s].path = None
          /\ tasks[w][s].pc \in BeforeDump => dumps[tasks[w][s].backup] = NoDump
    /\ \A b \in BackupIds :
          backups[b].status \in {"absent", "pending"} => dumps[b] = NoDump

\* A backup has to do with the files of one stem, that of its dump.
OneStem ==
    \A b \in BackupIds, p \in Stems : Uses(b, p) => dumps[b].path = p

\* A dump was named by the job that ran it, which within the second neither
\* waits nor is on its way to another.
OneDump ==
    \A b \in BackupIds :
        LET p == dumps[b].path IN
        p # None =>
            /\ p.second <= now
            /\ \E w \in Workers, s \in Schedules :
                  /\ dumps[b].by = <<w, s>>
                  /\ MayName(s, p)
                  /\ backups[b].status = "deleted" \/ backups[b].server = ServerOf[s]
                  /\ p.second = now =>
                        s \notin due[w] /\ tasks[w][s].pc \notin BeforeDump \cup {"insert"}

OwnerInv == /\ NameBorne
            /\ DueIsIdle
            /\ Fresh
            /\ OneStem
            /\ OneDump
            /\ ClashNeedsTwoJobs

-----------------------------------------------------------------------------
\* Only a COMPLETED row has a path; a request that names a file names it for
\* one backup, which was COMPLETED; a restore, whose row is never deleted,
\* reads the file of its backup.
PathsAgree ==
    /\ \A r \in RestoreIds : restores[r].status # "deleted"
    /\ \A b \in BackupIds : backups[b].path # None => backups[b].status = "completed"
    /\ \A h \in Handlers : requests[h].path # None =>
          \E b \in BackupIds : /\ requests[h].ids = {b}
                               /\ backups[b].status \in {"completed", "deleted"}
                               /\ backups[b].status = "completed"
                                     => backups[b].path = requests[h].path
    /\ \A w \in Workers : loops[w].pc \notin {"idle", "backup"} =>
          loops[w].path = backups[restores[loops[w].job].backup].path

\* Two dumps have been written to the files of stem p.
Clash(p) == /\ p # None
            /\ \E b, c \in BackupIds : /\ b # c
                                       /\ dumps[b].path = p /\ dumps[c].path = p

\* Between the dump and the commit the dump of this backup is in one file of
\* the stem, the one the next step reads, unless another dump went there or
\* two workers met there.
DumpMoves ==
    \A w \in Workers, s \in Schedules :
        LET b == tasks[w][s].backup
            f == disk[tasks[w][s].path]
        IN /\ tasks[w][s].pc \in {"compress", "encrypt", "size", "commit"}
           /\ backups[b].status = "in_progress"
           /\ ~ Clash(tasks[w][s].path)
           /\ tasks[w][s].path \notin met
           => CASE tasks[w][s].pc = "compress" -> f["ldif"] = b
                [] tasks[w][s].pc = "encrypt"  -> f["gz"] = b /\ f["ldif"] = None
                [] OTHER -> f["enc"] = b /\ f["gz"] = None /\ f["ldif"] = None

\* The archive is there from its encryption on.
ArchiveThere ==
    /\ \A w \in Workers, s \in Schedules :
          tasks[w][s].pc = "commit" => ArchiveKept(tasks[w][s].path)
    /\ CompletedHasFile

\* The plain file goes with its backup's compression, and what is left in the
\* clear has its cause.
PlainGoes ==
    /\ \A p \in Stems \ met, b \in BackupIds : disk[p]["ldif"] = b =>
          \/ TaskAt(b, {"compress", "fail"})
          \/ backups[b].status \in {"failed", "deleted"}
          \/ Abandoned(b)
          \/ \E c \in Dumped(p) : RestoreBegun(c)
    /\ PlainFileHasCause

FileInv == /\ RestoreInv
           /\ OwnerInv
           /\ PathsAgree
           /\ DumpMoves
           /\ ArchiveThere
           /\ PlainGoes
           /\ RestoredContent

-----------------------------------------------------------------------------
\* A worker's event loop is held by at most one coroutine, and while it works
\* on files the worker holds their stem.
InStretch(w, s) == tasks[w][s].pc \in {"compress", "encrypt", "size", "hung"}
LInStretch(w)   == loops[w].pc \in {"decompress", "apply", "hung"}

HeldByOne ==
    \A w \in Workers :
        /\ \A s, t \in Schedules : InStretch(w, s) /\ InStretch(w, t) => s = t
        /\ \A s \in Schedules : InStretch(w, s) =>
              /\ held[w] # None
              /\ ~ LInStretch(w)
              /\ tasks[w][s].pc # "hung" => held[w] = tasks[w][s].path
        /\ LInStretch(w) => held[w] # None /\ held[w] = loops[w].path

\* Two workers that hold one stem have met there.
MeetingsNoted ==
    \A u, w \in Workers : held[u] = held[w] /\ held[u] # None => u = w \/ held[u] \in met

\* Where no two workers met a coroutine finds what it wrote itself, however
\* many jobs name their files alike.
OwnDump ==
    \A w \in Workers, s \in Schedules :
        LET b == tasks[w][s].backup
            p == tasks[w][s].path
        IN p \notin met =>
              /\ tasks[w][s].pc = "compress" => disk[p]["ldif"] = b
              /\ tasks[w][s].pc = "encrypt"  => disk[p]["gz"] = b

HeldInv == /\ IInv
           /\ OwnerInv
           /\ HeldByOne
           /\ MeetingsNoted
           /\ OwnDump
           /\ ArchiveHasRow
=============================================================================
