---------------------------- MODULE SwapArrays ----------------------------
(* Arrays in files, kept dense: the last element is moved into the place   *)
(* of the one that goes.  Relations, planets, builds and fleets are stored *)
(* like this, and whoever holds a position or a copy across a removal      *)
(* holds something else afterwards.                                        *)
EXTENDS Integers, Sequences, FiniteSetsExt, SequencesExt

\* The array after its element number i is removed.
SwapRemove(s, i) == IF i < Len(s) THEN [Front(s) EXCEPT ![i] = Last(s)] ELSE Front(s)

\* The array after a walk from its end to its start that removes the elements
\* at the positions S: the order in which the callers walk their copy of it.
Swept(s, S) == FoldLeft(LAMBDA t, i : IF i \in S THEN SwapRemove(t, i) ELSE t,
                        s, Reverse([i \in DOMAIN s |-> i]))
===========================================================================
