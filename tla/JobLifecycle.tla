---------------------------- MODULE JobLifecycle ----------------------------
(* What a job row of LDAPGuard promises to its readers (the list and detail *)
(* routes, the web UI, the restore check).  A job, a backup or a restore,   *)
(* is inserted PENDING, is taken IN_PROGRESS once, ends COMPLETED or FAILED *)
(* and never leaves that status; its row may be deleted at any moment; an   *)
(* id is never used again.  A job never fails before it was in progress.    *)
CONSTANT Jobs
VARIABLE status

Present == {"pending", "in_progress", "completed", "failed"}
States  == Present \cup {"absent", "deleted"}

\* The status changes one job may make on its own.
Edges == { <<"absent", "pending">>,
           <<"pending", "in_progress">>,
           <<"in_progress", "completed">>,
           <<"in_progress", "failed">> }

Init == status = [j \in Jobs |-> "absent"]

\* One job takes one edge.
Move(j) == \E e \in Edges :
    /\ status[j] = e[1]
    /\ status' = [status EXCEPT ![j] = e[2]]

\* One transaction deletes the rows of D that are still there.
Delete(D) ==
    status' = [j \in Jobs |-> IF j \in D /\ status[j] \in Present
                              THEN "deleted" ELSE status[j]]

Next == \/ \E j \in Jobs : Move(j)
        \/ \E D \in SUBSET Jobs : Delete(D)

Spec == Init /\ [][Next]_status
=============================================================================
