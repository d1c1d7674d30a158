----------------------------- MODULE MCAccounts -----------------------------
(* Accounts on small instances. *)
EXTENDS Accounts, TLC

CONSTANTS a1, a2

Symmetry == Permutations(Accounts)
=============================================================================
