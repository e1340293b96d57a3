----------------------------- MODULE MCPlanets -----------------------------
(* Two players of one empire, its two home planets, a planet with an ancient *)
(* civilisation, and one near by that such a civilisation may give away.     *)
EXTENDS Planets, TLC
CONSTANTS ann, bob, hannah, hugh, p1, p2
Players   == {ann, bob}
TickOrder == <<ann, bob>>
Homes     == {hannah, hugh}
Planets1  == Homes \cup {p1, p2}
Ruins     == {p1}
Kin       == [x \in Players \cup Homes |-> 0]
\* The homes of a system are alike.
HomeSym   == Permutations(Homes)

\* Bounds of the instance: two builds or offers at a time; the second planet is
\* not on offer, and while somebody has it nothing is built and nothing on offer.
Bounded ==
  LET builds == Len(queue[ann]) + Len(queue[bob])
      offers == Cardinality({p \in Planet : planet[p].surrender # None})
  IN  /\ builds + offers <= 2 /\ planet[p2].surrender = None
      /\ planet[p2].owner # None => builds + offers = 0
=============================================================================
