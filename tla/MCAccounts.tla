----------------------------- MODULE MCAccounts ----------------------------
(* Instances of Accounts for TLC: nothing tells one user from another.     *)
EXTENDS Accounts, TLC

CONSTANTS ann, bob

Symmetry == Permutations(Users)
=============================================================================
