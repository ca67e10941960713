----------------------------- MODULE MCAccounts -----------------------------
(* Accounts on small instances; requests and links are interchangeable.    *)
EXTENDS Accounts, TLC

Symmetry == Permutations(Requests) \cup Permutations(Verify)
=============================================================================
