------------------------------ MODULE MCEmpire ------------------------------
(* Small instances of Empire.  The players whose ID is not 0 are alike.       *)
EXTENDS Empire, TLC
CONSTANTS ann, bob, cat, e1, e2
Alike == Permutations(User \ {FirstUser})
=============================================================================
