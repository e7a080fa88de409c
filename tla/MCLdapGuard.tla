----------------------------- MODULE MCLdapGuard -----------------------------
(* Small instances of LdapGuard for TLC. *)
EXTENDS LdapGuardInvariants, TLC

CONSTANTS v1, v2, n1, n2, n3, s1, s2, s3, w1, w2, h1, h2, b1, b2, b3, r1, r2

\* Schedules on servers of their own, and both on one server.
OwnServer    == [s \in Schedules |-> IF s = s1 THEN v1 ELSE v2]
SharedServer == [s \in Schedules |-> v1]
OwnName      == [v \in Servers |-> IF v = v1 THEN n1 ELSE n2]
FullType     == [s \in Schedules |-> "full"]

\* Budgets: what may go wrong in a run, and how often.
Only(K) == [k \in Kinds |-> IF k \in K THEN 1 ELSE 0]
NoFaults     == Only({})
WorkerFaults == Only({"crash", "db", "disk", "ldap", "hang", "edit"})
AllFaults    == Only(Kinds \ {"edit"})
Edits        == [NoFaults EXCEPT !["edit"] = 2]
LdapFaults   == Only({"ldap", "disk", "hang"})
CrashAndHang == Only({"crash", "hang"})

Interchangeable == UNION { Permutations(S) :
                        S \in {BackupIds, RestoreIds, Handlers, Workers} }

\* With OwnServer the two servers, their schedules and their first names change
\* places together.
Mirror == [x \in {v1, v2, s1, s2, n1, n2} |->
              CASE x = v1 -> v2 [] x = s1 -> s2 [] x = n1 -> n2
                [] x = v2 -> v1 [] x = s2 -> s1 [] x = n2 -> n1]
Mirrored == Interchangeable \cup {Mirror}
==============================================================================
