----------------------------- MODULE MCAccounts -----------------------------
(* Instances of Accounts for TLC. *)
EXTENDS Accounts, TLC

Symmetry ==
  Permutations(Req) \cup Permutations(User) \cup Permutations(Password) \cup Permutations(Session)
=============================================================================
