----------------------------- MODULE MCAccounts -----------------------------
(* Small instance of Accounts for TLC. *)
EXTENDS Accounts, TLC

CONSTANTS u1, u2, n1, n2, e1, e2, c1, c2

Exchangeable == UNION { Permutations(S) : S \in {UserIds, Names, Emails, Clients} }
=============================================================================
