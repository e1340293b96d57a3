------------------------------ MODULE MCVictory ------------------------------
(* Instances of Victory for TLC. *)
EXTENDS Victory

CONSTANTS ann, bob, cat, e1, e2, a1, a2

MCUsers   == <<cat, bob, ann>>
MCEmpires == <<e1, e2>>
MCSize    == {<<1, 1>>, <<1, 2>>, <<2, 1>>}
=============================================================================
