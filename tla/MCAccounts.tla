----------------------------- MODULE MCAccounts -----------------------------
(* Four numbers and three names: a deleted account between others, at the end *)
(* and alone, and a name that is taken again.                                 *)
EXTENDS Accounts, TLC
Alike == Permutations(Name)
=============================================================================
