---------------------------- MODULE MCRelations ----------------------------
(* Small diplomacies.  Runs differ in the kinds of relations entered into. *)
EXTENDS Relations
OnlyPacts      == {"nap"}
WarsAlliances  == {"war", "ally"}
Everything     == {"nap", "war", "ally"}
PactLengths    == {0, 1, 2}
=============================================================================
