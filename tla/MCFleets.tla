------------------------------ MODULE MCFleets ------------------------------
(* Two ships that can merge, one of every other kind, and one planet.       *)
EXTENDS Fleets, TLC
CONSTANTS c1, c2, ph, ag, pr, mars
Ships    == {c1, c2, ph, ag, pr}
Probes   == {pr}
Agents   == {ag}
Phantoms == {ph}
OneWorld == {mars}
Alike    == Permutations({c1, c2})
=============================================================================
