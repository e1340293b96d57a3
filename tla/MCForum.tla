------------------------------ MODULE MCForum ------------------------------
(* Two forums, posts of two lengths.                                        *)
EXTENDS Forum
Lengths == {1, 2}
=============================================================================
