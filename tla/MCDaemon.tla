------------------------------ MODULE MCDaemon ------------------------------
(* Two accounts, and threads of the round's end.                            *)
EXTENDS Daemon, TLC
CONSTANTS ann, bob, t1
OneThread  == {t1}
Users  == {ann, bob}
=============================================================================
