----------------------------- MODULE MCAccounts -----------------------------
(* Accounts for TLC: people, addresses and browsers are alike.              *)
EXTENDS Accounts, TLC

Symmetry == Permutations(User) \cup Permutations(Email) \cup Permutations(Client)
=============================================================================
