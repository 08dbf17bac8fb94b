----------------------------- MODULE MCAccounts -----------------------------
(***************************************************************************)
(* Accounts for TLC: handlers, names and companies are interchangeable.    *)
(***************************************************************************)
EXTENDS Accounts, TLC

Symmetry == Permutations(Handler) \cup Permutations(Name)
=============================================================================
