-------------------------- MODULE MCConfigTransfer --------------------------
(* Small instance of ConfigTransfer, and of ServerRegistry within it.       *)
EXTENDS ConfigTransfer, TLC

CONSTANTS a1, a2, n1, n2, x1, u1, u2, e1

\* Files from another system: what may be missing, wrong or twice in one, for
\* every server id and name.
Complete(n, s)  == {Good("server", n, None), Good("schedule", x1, s), Good("user", u1, e1)}
SharedEmail     == {Good("server", n, None) : n \in Names}
                       \cup {Good("user", u, e1) : u \in {u1, u2}}
Faulty(n, m)    == {Thing("server", n, None, "odd"), Good("server", m, None),
                    Thing("user", u1, e1, "bad")}
Refused(n, m, s) == {Good("server", n, None), Thing("server", m, None, "refused"),
                     Good("schedule", x1, s), Thing("user", u1, e1, "refused")}
SomeFiles == {Complete(n, s) : n \in Names, s \in Servers}
                \cup {SharedEmail}
                \cup {Faulty(n, m) : n, m \in Names}
                \cup {Refused(n1, n2, s) : s \in Servers}
                \cup {Refused(n2, n1, s) : s \in Servers}

Alike == UNION {Permutations(S) : S \in {Servers, Names, Keys, Clients, Importers}}
=============================================================================
