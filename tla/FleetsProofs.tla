---------------------------- MODULE FleetsProofs ----------------------------
(***************************************************************************)
(* For any ships, planets and bounds: the pages, the battles and the walk  *)
(* of the tick neither lose nor copy a ship, unless merging fleets cross   *)
(* in that walk; the walk brings every fleet on its way one tick nearer,   *)
(* carries every operation out once, and a battle leaves every other fleet *)
(* as it is, except where it ends with nobody left and an order to recall. *)
(*                                                                         *)
(* The walk goes down a copy of the list.  What makes it work is that the  *)
(* positions it has still to visit hold what the copy says, except those   *)
(* where nothing is left to do (Still); "Walking" says so, and the theorems*)
(* about the walk follow a ship through its steps.                         *)
(***************************************************************************)
EXTENDS Fleets, FiniteSetTheorems, WellFoundedInduction, TLAPS

-----------------------------------------------------------------------------
(* The invariant. *)

Place == [owner: {"none", "me", "foe"}, ships: SUBSET Ship]
World == [fleet: Seq(Fleet), planet: [Planet -> Place], gone: SUBSET Ship]

\* What holds of the files whatever happens.
Shape(w) ==
  /\ w \in World
  /\ Len(w.fleet) \in 1 .. MaxFleets + 1
  /\ \A k \in DOMAIN w.fleet : w.fleet[k].order = "main" <=> k = 1
  /\ \A p \in Planet : w.planet[p].ships # {} => w.planet[p].owner = "me"

\* Every ship is in one place, where only the fleets at the positions D count.
Kept(w, D) ==
  /\ \A s \in Ship, i, j \in D : s \in w.fleet[i].ships /\ s \in w.fleet[j].ships => i = j
  /\ \A s \in Ship, p, q \in Planet : s \in w.planet[p].ships /\ s \in w.planet[q].ships => p = q
  /\ \A s \in Ship, i \in D, p \in Planet : ~(s \in w.fleet[i].ships /\ s \in w.planet[p].ships)
  /\ \A s \in w.gone : /\ \A i \in D : s \notin w.fleet[i].ships
                       /\ \A p \in Planet : s \notin w.planet[p].ships
  /\ \A s \in Ship : \/ s \in w.gone
                     \/ \E i \in D : s \in w.fleet[i].ships
                     \/ \E p \in Planet : s \in w.planet[p].ships

\* A fleet that is to merge has arrived or has a way to go; one that operates
\* has not been told to stay.
Timed(f) == /\ f.order = "merge" => f.time # 0
            /\ f.order = "op" => f.time >= 0

Sound(w) == Kept(w, DOMAIN w.fleet) /\ \A k \in DOMAIN w.fleet : Timed(w.fleet[k])

IInv == Shape(Now) /\ crossed \in BOOLEAN /\ (~crossed => Sound(Now))

-----------------------------------------------------------------------------
(* Arrays, and the operations on the file.                                  *)

LEMMA SwapRemoved ==
  ASSUME NEW X, NEW s \in Seq(X), NEW k \in 1 .. Len(s)
  PROVE  /\ SwapRemove(s, k) \in Seq(X) /\ Len(SwapRemove(s, k)) = Len(s) - 1
         /\ \A i \in 1 .. Len(s) - 1 : SwapRemove(s, k)[i] = IF i = k THEN s[Len(s)] ELSE s[i]
<1> DEFINE n == Len(s)
           t == SubSeq(s, 1, n - 1)
<1>1. n \in Nat \ {0} /\ s[n] \in X
  OBVIOUS
<1>2. t \in Seq(X) /\ Len(t) = n - 1 /\ \A i \in 1 .. n - 1 : t[i] = s[i]
  <2>1. 1 \in 1 .. n + 1 /\ n - 1 \in 0 .. n /\ n = Len(s)
    BY <1>1
  <2> HIDE DEF n
  <2> QED BY <1>1, <2>1
<1>3. SwapRemove(s, k) = IF k < n THEN [t EXCEPT ![k] = s[n]] ELSE t
  BY DEF SwapRemove, Front, Last
<1> HIDE DEF t, n
<1>4. CASE k < n
  BY <1>1, <1>2, <1>3, <1>4 DEF n
<1>5. CASE ~(k < n)
  BY <1>1, <1>2, <1>3, <1>5 DEF n
<1> QED BY <1>4, <1>5

(* What the shape says of the parts. *)
LEMMA Holds ==
  ASSUME NEW w, Shape(w)
  PROVE  /\ w \in World /\ w.fleet \in Seq(Fleet) /\ w.planet \in [Planet -> Place] /\ w.gone \in SUBSET Ship
         /\ Len(w.fleet) \in Nat /\ 1 <= Len(w.fleet)
         /\ DOMAIN w.fleet = 1 .. Len(w.fleet) /\ 1 \in DOMAIN w.fleet /\ ~(1 > Len(w.fleet))
         /\ \A k \in DOMAIN w.fleet : w.fleet[k] \in Fleet /\ w.fleet[k].ships \in SUBSET Ship
         /\ w.fleet[1] \in Fleet /\ w.fleet[1].order = "main" /\ w.fleet[1].ships \in SUBSET Ship
<1>1. w \in World /\ w.fleet \in Seq(Fleet) /\ w.planet \in [Planet -> Place] /\ w.gone \in SUBSET Ship
  BY DEF Shape, World
<1>2. /\ Len(w.fleet) \in Nat /\ 1 <= Len(w.fleet) /\ DOMAIN w.fleet = 1 .. Len(w.fleet)
      /\ 1 \in DOMAIN w.fleet /\ ~(1 > Len(w.fleet))
  BY <1>1, FleetConstants DEF Shape
<1>3. \A k \in DOMAIN w.fleet : w.fleet[k] \in Fleet
  BY <1>1
<1>4. \A k \in DOMAIN w.fleet : w.fleet[k].ships \in SUBSET Ship
  BY <1>3 DEF Fleet
<1>5. w.fleet[1].order = "main"
  BY <1>2 DEF Shape
<1> QED BY <1>1, <1>2, <1>3, <1>4, <1>5

LEMMA Times == MaxTime \in Nat \ {0} /\ -1 \in -1 .. MaxTime /\ 0 .. MaxTime \subseteq -1 .. MaxTime
<1>1. MaxTime \in Nat \ {0}
  BY FleetConstants
<1> QED BY <1>1

(* A fleet that gets another order, or the flag of those that wait. *)
LEMMA GivenOrder ==
  ASSUME NEW f \in Fleet, NEW o \in Away, NEW t \in -1 .. MaxTime
  PROVE  LET g == [f EXCEPT !.order = o, !.time = t]
         IN g \in Fleet /\ g.order = o /\ g.time = t /\ g.ships = f.ships /\ g.waits = f.waits /\ g.order # "main"
<1>1. o \in Away \cup {"main"} /\ o # "main"
  BY DEF Away
<1> QED BY <1>1 DEF Fleet

LEMMA GivenHalt ==
  ASSUME NEW f \in Fleet, NEW o \in Away
  PROVE  LET g == [f EXCEPT !.order = o, !.time = -1]
         IN g \in Fleet /\ g.order = o /\ g.time = -1 /\ g.ships = f.ships /\ g.waits = f.waits /\ g.order # "main"
<1>1. o \in Away \cup {"main"} /\ o # "main" /\ -1 \in -1 .. MaxTime
  BY Times DEF Away
<1> QED BY <1>1 DEF Fleet

LEMMA GivenFlag ==
  ASSUME NEW f \in Fleet, f.order # "main"
  PROVE  LET g == [f EXCEPT !.waits = TRUE, !.time = -1]
         IN g \in Fleet /\ g.order = f.order /\ g.time = -1 /\ g.ships = f.ships /\ g.order # "main"
BY Times DEF Fleet

LEMMA GivenShips ==
  ASSUME NEW f \in Fleet, NEW o \in Away, NEW ships \in SUBSET Ship
  PROVE  LET g == [f EXCEPT !.ships = ships, !.order = o, !.time = -1, !.waits = FALSE]
         IN g \in Fleet /\ g.order = o /\ g.time = -1 /\ g.ships = ships /\ g.order # "main"
<1>1. o \in Away \cup {"main"} /\ o # "main" /\ -1 \in -1 .. MaxTime
  BY Times DEF Away
<1> QED BY <1>1 DEF Fleet

LEMMA SetIs ==
  ASSUME NEW w \in World, NEW k \in Nat \ {0}, NEW f \in Fleet
  PROVE  LET v == FleetSet(w, k, f) IN
         /\ v \in World /\ v.planet = w.planet /\ v.gone = w.gone
         /\ Len(v.fleet) = Len(w.fleet) /\ DOMAIN v.fleet = DOMAIN w.fleet
         /\ \A i \in DOMAIN w.fleet : v.fleet[i] = IF i = k THEN f ELSE w.fleet[i]
<1>1. CASE k > Len(w.fleet)
  BY <1>1 DEF FleetSet, World
<1>2. CASE ~(k > Len(w.fleet))
  <2> DEFINE l == [w.fleet EXCEPT ![k] = f]
  <2>1. w.fleet \in Seq(Fleet) /\ k \in 1 .. Len(w.fleet)
    BY <1>2 DEF World
  <2>2. /\ l \in Seq(Fleet) /\ Len(l) = Len(w.fleet) /\ DOMAIN l = DOMAIN w.fleet
        /\ \A i \in DOMAIN w.fleet : l[i] = IF i = k THEN f ELSE w.fleet[i]
    BY <2>1
  <2>3. FleetSet(w, k, f) = [w EXCEPT !.fleet = l]
    BY <1>2 DEF FleetSet
  <2> HIDE DEF l
  <2> QED BY <2>2, <2>3 DEF World
<1> QED BY <1>1, <1>2

LEMMA IsSet ==
  ASSUME NEW w \in World, NEW k \in Nat \ {0}, NEW f \in Fleet, NEW v, v = FleetSet(w, k, f)
  PROVE  /\ v \in World /\ v.planet = w.planet /\ v.gone = w.gone
         /\ Len(v.fleet) = Len(w.fleet) /\ DOMAIN v.fleet = DOMAIN w.fleet
         /\ \A i \in DOMAIN w.fleet : v.fleet[i] = IF i = k THEN f ELSE w.fleet[i]
BY SetIs

\* The list of v is the list of w with f at k.
WrittenTo(w, v, k, f) ==
  /\ v \in World /\ v.planet = w.planet /\ v.gone = w.gone
  /\ Len(v.fleet) = Len(w.fleet) /\ DOMAIN v.fleet = DOMAIN w.fleet
  /\ \A i \in DOMAIN w.fleet : v.fleet[i] = IF i = k THEN f ELSE w.fleet[i]

LEMMA SetWrites ==
  ASSUME NEW w \in World, NEW k \in Nat \ {0}, NEW f \in Fleet, NEW v, v = FleetSet(w, k, f)
  PROVE  WrittenTo(w, v, k, f)
BY SetIs DEF WrittenTo

LEMMA RemoveIs ==
  ASSUME NEW w \in World, NEW k \in 1 .. Len(w.fleet)
  PROVE  LET v == FleetRemove(w, k) IN
         /\ v \in World /\ v.planet = w.planet /\ v.gone = w.gone
         /\ Len(v.fleet) = Len(w.fleet) - 1 /\ DOMAIN v.fleet = 1 .. Len(w.fleet) - 1
         /\ \A i \in DOMAIN v.fleet : v.fleet[i] = w.fleet[IF i = k THEN Len(w.fleet) ELSE i]
<1> DEFINE l == SwapRemove(w.fleet, k)
<1>1. w.fleet \in Seq(Fleet)
  BY DEF World
<1>2. /\ l \in Seq(Fleet) /\ Len(l) = Len(w.fleet) - 1
      /\ \A i \in 1 .. Len(w.fleet) - 1 : l[i] = IF i = k THEN w.fleet[Len(w.fleet)] ELSE w.fleet[i]
  BY <1>1, SwapRemoved
<1>3. FleetRemove(w, k) = [w EXCEPT !.fleet = l]
  BY <1>1 DEF FleetRemove
<1> HIDE DEF l
<1>4. DOMAIN l = 1 .. Len(w.fleet) - 1
  BY <1>2
<1> QED BY <1>2, <1>3, <1>4 DEF World

LEMMA RemoveBeyond ==
  ASSUME NEW w \in World, NEW k \in Nat, k > Len(w.fleet)
  PROVE  FleetRemove(w, k) = w
BY DEF FleetRemove

LEMMA AddIs ==
  ASSUME NEW w \in World, NEW f \in Fleet
  PROVE  LET v == FleetAdd(w, f) IN
         /\ v \in World /\ v.planet = w.planet /\ v.gone = w.gone
         /\ Len(v.fleet) = Len(w.fleet) + 1 /\ DOMAIN v.fleet = 1 .. Len(w.fleet) + 1
         /\ \A i \in DOMAIN w.fleet : v.fleet[i] = w.fleet[i]
         /\ v.fleet[Len(w.fleet) + 1] = f
<1> DEFINE l == Append(w.fleet, f)
<1>1. w.fleet \in Seq(Fleet)
  BY DEF World
<1>2. /\ l \in Seq(Fleet) /\ Len(l) = Len(w.fleet) + 1 /\ DOMAIN l = 1 .. Len(w.fleet) + 1
      /\ \A i \in DOMAIN w.fleet : l[i] = w.fleet[i]
      /\ l[Len(w.fleet) + 1] = f
  BY <1>1
<1>3. FleetAdd(w, f) = [w EXCEPT !.fleet = l]
  BY DEF FleetAdd
<1> HIDE DEF l
<1> QED BY <1>2, <1>3 DEF World

LEMMA DestroyIs ==
  ASSUME NEW w \in World, NEW ships \in SUBSET Ship
  PROVE  LET v == Destroy(w, ships) IN
         /\ v \in World /\ v.planet = w.planet /\ v.gone = w.gone \cup ships /\ v.fleet = w.fleet
BY DEF Destroy, World

LEMMA PlanetIs ==
  ASSUME NEW w \in World, NEW p \in Planet, NEW x \in Place
  PROVE  LET v == [w EXCEPT !.planet[p] = x] IN
         /\ v \in World /\ v.planet = [w.planet EXCEPT ![p] = x] /\ v.gone = w.gone /\ v.fleet = w.fleet
BY DEF World

LEMMA ShapeSet ==
  ASSUME NEW w, Shape(w), NEW k \in Nat \ {0}, NEW f \in Fleet, f.order = "main" <=> k = 1
  PROVE  Shape(FleetSet(w, k, f))
<1> DEFINE v == FleetSet(w, k, f)
<1>1. w \in World
  BY DEF Shape
<1>2. /\ v \in World /\ v.planet = w.planet
      /\ Len(v.fleet) = Len(w.fleet) /\ DOMAIN v.fleet = DOMAIN w.fleet
      /\ \A i \in DOMAIN w.fleet : v.fleet[i] = IF i = k THEN f ELSE w.fleet[i]
  BY <1>1, SetIs
<1> HIDE DEF v
<1>3. Shape(v)
  BY <1>2 DEF Shape
<1> QED BY <1>3 DEF v

\* Ships that join the main fleet, and ships that leave it.
LEMMA MainIs ==
  ASSUME NEW w, Shape(w), NEW ships \in SUBSET Ship
  PROVE  LET v == [w EXCEPT !.fleet[1].ships = ships] IN
         /\ v = FleetSet(w, 1, [w.fleet[1] EXCEPT !.ships = ships])
         /\ Shape(v)
<1> DEFINE g == [w.fleet[1] EXCEPT !.ships = ships]
<1>1. w \in World /\ 1 \in DOMAIN w.fleet /\ w.fleet[1] \in Fleet /\ ~(1 > Len(w.fleet)) /\ w.fleet[1].order = "main"
  BY Holds
<1>2. g \in Fleet /\ g.order = w.fleet[1].order
  BY <1>1 DEF Fleet
<1>3. [w EXCEPT !.fleet[1].ships = ships] = FleetSet(w, 1, g)
  BY <1>1 DEF FleetSet
<1> HIDE DEF g
<1>4. Shape(FleetSet(w, 1, g))
  BY <1>1, <1>2, ShapeSet
<1> QED BY <1>3, <1>4 DEF g

LEMMA ShapeRemove ==
  ASSUME NEW w, Shape(w), NEW k \in Nat, k >= 2
  PROVE  Shape(FleetRemove(w, k))
<1>1. CASE k > Len(w.fleet)
  BY <1>1, RemoveBeyond DEF Shape
<1>2. CASE ~(k > Len(w.fleet))
  <2>1. w \in World /\ k \in 1 .. Len(w.fleet)
    BY <1>2 DEF Shape, World
  <2>2. Len(FleetRemove(w, k).fleet) \in 1 .. MaxFleets + 1
    BY <2>1, RemoveIs, FleetConstants DEF Shape
  <2> DEFINE v == FleetRemove(w, k)
  <2>3. /\ v \in World /\ v.planet = w.planet /\ DOMAIN v.fleet = 1 .. Len(w.fleet) - 1
        /\ \A i \in DOMAIN v.fleet : v.fleet[i] = w.fleet[IF i = k THEN Len(w.fleet) ELSE i]
    BY <2>1, RemoveIs
  <2> HIDE DEF v
  <2>4. DOMAIN w.fleet = 1 .. Len(w.fleet) /\ Len(w.fleet) \in Nat
    BY Holds
  <2>5. ASSUME NEW i \in DOMAIN v.fleet PROVE v.fleet[i].order = "main" <=> i = 1
    <3>1. CASE i = k
      BY <2>1, <2>3, <2>4, <2>5, <3>1 DEF Shape
    <3>2. CASE i # k
      BY <2>1, <2>3, <2>4, <2>5, <3>2 DEF Shape
    <3> QED BY <3>1, <3>2
  <2>6. Len(v.fleet) \in 1 .. MaxFleets + 1
    BY <2>2 DEF v
  <2>7. Shape(v)
    BY <2>3, <2>5, <2>6 DEF Shape
  <2> QED BY <2>7 DEF v
<1> QED BY <1>1, <1>2

LEMMA ShapeAdd ==
  ASSUME NEW w, Shape(w), Len(w.fleet) <= MaxFleets, NEW f \in Fleet, f.order # "main"
  PROVE  Shape(FleetAdd(w, f))
<1>1. w \in World /\ Len(FleetAdd(w, f).fleet) \in 1 .. MaxFleets + 1
  BY AddIs, FleetConstants DEF Shape
<1>2. DOMAIN w.fleet = 1 .. Len(w.fleet) /\ Len(w.fleet) \in Nat /\ 1 <= Len(w.fleet)
  BY Holds
<1>3. ASSUME NEW k \in DOMAIN FleetAdd(w, f).fleet
      PROVE  FleetAdd(w, f).fleet[k].order = "main" <=> k = 1
  <2>1. k \in DOMAIN w.fleet \/ k = Len(w.fleet) + 1
    BY <1>1, <1>2, <1>3, AddIs
  <2>2. CASE k \in DOMAIN w.fleet
    BY <1>1, <2>2, AddIs DEF Shape
  <2>3. CASE k = Len(w.fleet) + 1
    BY <1>1, <1>2, <2>3, AddIs
  <2> QED BY <2>1, <2>2, <2>3
<1> QED BY <1>1, <1>3, AddIs DEF Shape

LEMMA ShapeDestroy ==
  ASSUME NEW w, Shape(w), NEW ships \in SUBSET Ship
  PROVE  Shape(Destroy(w, ships))
BY DestroyIs DEF Shape

LEMMA ShapePlanet ==
  ASSUME NEW w, Shape(w), NEW p \in Planet, NEW x \in Place, x.ships # {} => x.owner = "me"
  PROVE  Shape([w EXCEPT !.planet[p] = x])
<1> DEFINE v == [w EXCEPT !.planet[p] = x]
<1>1. /\ v \in World /\ v.planet = [w.planet EXCEPT ![p] = x] /\ v.fleet = w.fleet
      /\ w.planet \in [Planet -> Place]
  BY PlanetIs DEF Shape, World
<1> HIDE DEF v
<1>2. Shape(v)
  BY <1>1 DEF Shape
<1> QED BY <1>2 DEF v

(* Every set of numbers has a least one. *)
LEMMA Least ==
  ASSUME NEW T \in SUBSET Nat, T # {}
  PROVE  Min(T) \in T /\ \A y \in T : Min(T) <= y
<1> DEFINE R == OpToRel(<, Nat)
<1>1. IsWellFoundedOn(R, Nat)
  BY NatLessThanWellFounded
<1>2. \A x, y \in Nat : x < y => <<x, y>> \in R
  BY DEF OpToRel
<1> HIDE DEF R
<1>3. PICK x \in T : \A y \in T : ~ (<<y, x>> \in R)
  BY <1>1, WFMin
<1>4. ASSUME NEW y \in T PROVE x <= y
  <2>1. x \in Nat /\ y \in Nat /\ ~(<<y, x>> \in R)
    BY <1>3
  <2>2. ~(y < x)
    BY <1>2, <2>1
  <2> QED BY <2>1, <2>2
<1> QED BY <1>4 DEF Min

(* The fleet that an arriving one merges with. *)
LEMMA PartnerIs ==
  ASSUME NEW w, Shape(w), NEW k \in Nat, Partners(w, k) # {}
  PROVE  LET n == Min(Partners(w, k)) IN
         n \in 2 .. Len(w.fleet) /\ n # k /\ w.fleet[n].order = "merge" /\ w.fleet[n].waits
<1>1. Partners(w, k) \in SUBSET Nat
  BY DEF Partners
<1>2. Min(Partners(w, k)) \in Partners(w, k)
  BY <1>1, Least
<1> QED BY <1>2 DEF Partners

-----------------------------------------------------------------------------
(* An order that is carried out keeps the shape of the files, whatever is   *)
(* at the fleet's position.                                                 *)

LEMMA RecallShape ==
  ASSUME NEW w, Shape(w), NEW k \in Nat, k >= 2, NEW f \in Fleet
  PROVE  Shape(DoRecall(w, k, f))
<1> DEFINE v == [w EXCEPT !.fleet[1].ships = w.fleet[1].ships \cup f.ships]
<1>1. w.fleet[1].ships \cup f.ships \in SUBSET Ship
  BY Holds DEF Fleet
<1>2. Shape(v)
  BY <1>1, MainIs
<1> HIDE DEF v
<1>3. Shape(FleetRemove(v, k))
  BY <1>2, ShapeRemove
<1> QED BY <1>3 DEF DoRecall, v

Back == {NoPortal} \cup 0 .. MaxTime

LEMMA CalledBackShape ==
  ASSUME NEW w, Shape(w), NEW k \in Nat, k >= 2, NEW back \in Back
  PROVE  Shape(Recall(w, k, back))
<1>1. CASE k > Len(w.fleet) \/ back = NoPortal
  BY <1>1 DEF Recall
<1>2. CASE ~(k > Len(w.fleet) \/ back = NoPortal)
  <2> DEFINE f == [w.fleet[k] EXCEPT !.order = "recall", !.time = back]
  <2>1. w.fleet[k] \in Fleet /\ "recall" \in Away /\ back \in -1 .. MaxTime
    BY <1>2, Holds, Times DEF Back, NoPortal, Away
  <2>4. f \in Fleet /\ f.order # "main"
    BY <2>1, GivenOrder
  <2>2. Recall(w, k, back) = IF back = 0 THEN DoRecall(FleetSet(w, k, f), k, f) ELSE FleetSet(w, k, f)
    BY <1>2 DEF Recall
  <2> HIDE DEF f
  <2>3. Shape(FleetSet(w, k, f))
    BY <2>4, ShapeSet
  <2> QED BY <2>2, <2>3, <2>4, RecallShape
<1> QED BY <1>1, <1>2

LEMMA ActionShape ==
  ASSUME NEW w, Shape(w), NEW k \in Nat, k >= 2, NEW f \in Fleet, f.order # "main", NEW luck \in Luck
  PROVE  Shape(FleetAction(w, k, f, luck))
<1>2. ASSUME NEW o \in Away PROVE Shape(Held(w, k, f, o))
  <2> DEFINE g == [f EXCEPT !.order = o, !.time = -1]
  <2>1. g \in Fleet /\ g.order # "main"
    BY <1>2, GivenHalt
  <2>2. Held(w, k, f, o) = FleetSet(w, k, g)
    BY DEF Held
  <2> HIDE DEF g
  <2> QED BY <2>1, <2>2, ShapeSet
<1>3. CASE f.order = "explore"
  <2>1. CASE w.planet[f.dest].owner # "none"
    BY <1>2, <1>3, <2>1 DEF FleetAction, DoExplore, Away
  <2>2. CASE ~(w.planet[f.dest].owner # "none")
    <3> DEFINE v == FleetRemove(Destroy(w, f.ships), k)
               x == [owner |-> "me", ships |-> {}]
    <3>1. Shape(v)
      BY ShapeDestroy, ShapeRemove DEF Fleet
    <3>2. f.dest \in Planet /\ x \in Place
      BY DEF Fleet, Place
    <3>3. FleetAction(w, k, f, luck) = IF luck.hostile THEN v ELSE [v EXCEPT !.planet[f.dest] = x]
      BY <1>3, <2>2 DEF FleetAction, DoExplore
    <3> HIDE DEF v
    <3>4. Shape([v EXCEPT !.planet[f.dest] = x])
      BY <3>1, <3>2, ShapePlanet
    <3> QED BY <3>1, <3>3, <3>4
  <2> QED BY <2>1, <2>2
<1>4. CASE f.order = "station"
  <2>1. CASE w.planet[f.dest].owner # "me"
    BY <1>2, <1>4, <2>1 DEF FleetAction, DoStation, Away
  <2>2. CASE ~(w.planet[f.dest].owner # "me")
    <3> DEFINE x == [w.planet[f.dest] EXCEPT !.ships = w.planet[f.dest].ships \cup f.ships]
               v == [w EXCEPT !.planet[f.dest] = x]
    <3>1. f.dest \in Planet /\ x \in Place /\ x.owner = "me"
      BY <2>2 DEF Fleet, Place, Shape, World
    <3>2. FleetAction(w, k, f, luck) = FleetRemove(v, k)
      BY <1>4, <2>2 DEF FleetAction, DoStation
    <3> HIDE DEF x
    <3>3. Shape(v)
      BY <3>1, ShapePlanet
    <3> HIDE DEF v
    <3> QED BY <3>2, <3>3, ShapeRemove
  <2> QED BY <2>1, <2>2
<1>5. CASE f.order = "merge"
  <2>1. CASE Partners(w, k) = {}
    <3> DEFINE g == [f EXCEPT !.waits = TRUE, !.time = -1]
    <3>1. g \in Fleet /\ g.order # "main"
      BY <1>5, GivenFlag
    <3>2. FleetAction(w, k, f, luck) = FleetSet(w, k, g)
      BY <1>5, <2>1 DEF FleetAction, DoMerge
    <3> HIDE DEF g
    <3> QED BY <3>1, <3>2, ShapeSet
  <2>2. CASE Partners(w, k) # {}
    <3> DEFINE n == Min(Partners(w, k))
               g == [f EXCEPT !.ships = f.ships \cup w.fleet[n].ships, !.order = "move", !.time = -1, !.waits = FALSE]
    <3>1. n \in 2 .. Len(w.fleet)
      BY <2>2, PartnerIs
    <3>2. f.ships \cup w.fleet[n].ships \in SUBSET Ship /\ "move" \in Away
      BY <3>1, Holds DEF Fleet, Away
    <3>4. g \in Fleet /\ g.order # "main"
      BY <3>2, GivenShips
    <3>3. FleetAction(w, k, f, luck) = FleetRemove(FleetSet(w, k, g), n)
      BY <1>5, <2>2 DEF FleetAction, DoMerge
    <3> HIDE DEF g, n
    <3> QED BY <3>1, <3>3, <3>4, ShapeSet, ShapeRemove
  <2> QED BY <2>1, <2>2
<1>6. CASE f.order \in {"move", "attack"}
  <2> DEFINE g == [f EXCEPT !.time = -1]
  <2>1. g \in Fleet /\ g.order # "main"
    BY Times DEF Fleet
  <2>2. FleetAction(w, k, f, luck) = FleetSet(w, k, g)
    BY <1>6 DEF FleetAction
  <2> HIDE DEF g
  <2> QED BY <2>1, <2>2, ShapeSet
<1>7. CASE f.order = "recall"
  BY <1>7, RecallShape DEF FleetAction
<1>8. CASE f.order = "op"
  <2> DEFINE v == Operated(w, k, f, luck.lost)
             g == [f EXCEPT !.ships = f.ships \ luck.lost]
  <2>1. FleetAction(w, k, f, luck) = Recall(v, k, luck.back) /\ luck.back \in Back
    BY <1>8 DEF FleetAction, DoOp, Luck, Back
  <2>2. g \in Fleet /\ g.order # "main" /\ f.ships \cap luck.lost \in SUBSET Ship
    BY DEF Fleet
  <2>3. v = IF f.ships \cap luck.lost = {} THEN w ELSE FleetSet(Destroy(w, f.ships \cap luck.lost), k, g)
    BY DEF Operated
  <2> HIDE DEF v, g
  <2>4. Shape(v)
    BY <2>2, <2>3, ShapeDestroy, ShapeSet
  <2> QED BY <2>1, <2>4, CalledBackShape
<1>9. CASE f.order \in {"canceled", "main"}
  BY <1>9 DEF FleetAction
<1> QED BY <1>3, <1>4, <1>5, <1>6, <1>7, <1>8, <1>9 DEF Fleet, Away

-----------------------------------------------------------------------------
(* Ships that are handed over.  The position whose ships go elsewhere does  *)
(* not count until it is removed.                                           *)

LEMMA KeptLike ==
  ASSUME NEW w, NEW v, NEW D, Kept(w, D),
         v.planet = w.planet, v.gone = w.gone, \A i \in D : v.fleet[i].ships = w.fleet[i].ships
  PROVE  Kept(v, D)
BY DEF Kept

LEMMA KeptRemove ==
  ASSUME NEW w, Shape(w), NEW k \in 1 .. Len(w.fleet), Kept(w, DOMAIN w.fleet \ {k})
  PROVE  Kept(FleetRemove(w, k), DOMAIN FleetRemove(w, k).fleet)
<1> DEFINE v == FleetRemove(w, k)
           n == Len(w.fleet)
           D == DOMAIN w.fleet \ {k}
           m(i) == IF i = k THEN n ELSE i
<1>1. /\ v.planet = w.planet /\ v.gone = w.gone /\ DOMAIN v.fleet = 1 .. n - 1
      /\ \A i \in DOMAIN v.fleet : v.fleet[i] = w.fleet[m(i)]
  BY RemoveIs DEF Shape
<1>2. n \in Nat /\ DOMAIN w.fleet = 1 .. n
  BY Holds
<1>3. \A i \in DOMAIN v.fleet : m(i) \in D
  BY <1>1, <1>2
<1>4. \A i, j \in DOMAIN v.fleet : m(i) = m(j) => i = j
  BY <1>1, <1>2
<1>5. \A i \in D : \E j \in DOMAIN v.fleet : m(j) = i
  <2> TAKE i \in D
  <2>1. CASE i = n
    <3>1. k \in DOMAIN v.fleet /\ m(k) = i
      BY <1>1, <1>2, <2>1
    <3> QED BY <3>1
  <2>2. CASE i # n
    <3>1. i \in DOMAIN v.fleet /\ m(i) = i
      BY <1>1, <1>2, <2>2
    <3> QED BY <3>1
  <2> QED BY <2>1, <2>2
<1> HIDE DEF v, D, m
<1>6. \A s \in Ship, i, j \in DOMAIN v.fleet : s \in v.fleet[i].ships /\ s \in v.fleet[j].ships => i = j
  BY <1>1, <1>3, <1>4 DEF Kept, D
<1>7. \A s \in Ship, i \in DOMAIN v.fleet, p \in Planet : ~(s \in v.fleet[i].ships /\ s \in v.planet[p].ships)
  BY <1>1, <1>3 DEF Kept, D
<1>8. \A s \in v.gone : /\ \A i \in DOMAIN v.fleet : s \notin v.fleet[i].ships
                        /\ \A p \in Planet : s \notin v.planet[p].ships
  BY <1>1, <1>3 DEF Kept, D
<1>9. \A s \in Ship : \/ s \in v.gone
                      \/ \E i \in DOMAIN v.fleet : s \in v.fleet[i].ships
                      \/ \E p \in Planet : s \in v.planet[p].ships
  BY <1>1, <1>5 DEF Kept, D
<1>10. Kept(v, DOMAIN v.fleet)
  BY <1>1, <1>6, <1>7, <1>8, <1>9 DEF Kept, D
<1> QED BY <1>10 DEF v

(* Every ship a fleet has is destroyed. *)
LEMMA KeptDestroyed ==
  ASSUME NEW w, Shape(w), Kept(w, DOMAIN w.fleet), NEW k \in DOMAIN w.fleet
  PROVE  Kept(Destroy(w, w.fleet[k].ships), DOMAIN w.fleet \ {k})
<1>1. w \in World /\ w.fleet[k].ships \in SUBSET Ship
  BY Holds
<1> QED BY <1>1, DestroyIs DEF Kept

(* Some of them are. *)
LEMMA KeptLost ==
  ASSUME NEW w, Shape(w), Kept(w, DOMAIN w.fleet), NEW k \in DOMAIN w.fleet, NEW dead,
         NEW g \in Fleet, g.ships = w.fleet[k].ships \ dead
  PROVE  LET v == FleetSet(Destroy(w, w.fleet[k].ships \cap dead), k, g)
         IN Kept(v, DOMAIN w.fleet)
<1> DEFINE u == Destroy(w, w.fleet[k].ships \cap dead)
           v == FleetSet(u, k, g)
<1>1. w \in World /\ w.fleet[k].ships \in SUBSET Ship /\ k \in Nat \ {0}
  BY Holds
<1>2. u \in World /\ u.planet = w.planet /\ u.gone = w.gone \cup (w.fleet[k].ships \cap dead) /\ u.fleet = w.fleet
  BY <1>1, DestroyIs
<1> HIDE DEF u
<1>3. /\ v.planet = w.planet /\ v.gone = w.gone \cup (w.fleet[k].ships \cap dead)
      /\ \A i \in DOMAIN w.fleet : v.fleet[i] = IF i = k THEN g ELSE w.fleet[i]
  BY <1>1, <1>2, SetIs
<1> HIDE DEF v
<1>4. Kept(v, DOMAIN w.fleet)
  BY <1>1, <1>3 DEF Kept
<1> QED BY <1>4 DEF u, v

(* They join the ships on a planet. *)
LEMMA KeptStationed ==
  ASSUME NEW w, Shape(w), Kept(w, DOMAIN w.fleet), NEW k \in DOMAIN w.fleet, NEW p \in Planet,
         NEW x \in Place, x.ships = w.planet[p].ships \cup w.fleet[k].ships
  PROVE  Kept([w EXCEPT !.planet[p] = x], DOMAIN w.fleet \ {k})
<1> DEFINE v == [w EXCEPT !.planet[p] = x]
<1>1. w \in World /\ w.planet \in [Planet -> Place]
  BY Holds
<1>2. v.planet = [w.planet EXCEPT ![p] = x] /\ v.gone = w.gone /\ v.fleet = w.fleet
  BY <1>1, PlanetIs
<1> HIDE DEF v
<1>3. \A q \in Planet : v.planet[q] = IF q = p THEN x ELSE w.planet[q]
  BY <1>1, <1>2
<1>4. Kept(v, DOMAIN w.fleet \ {k})
  BY <1>2, <1>3 DEF Kept
<1> QED BY <1>4 DEF v

(* They join those of another fleet. *)
LEMMA KeptJoined ==
  ASSUME NEW w, Shape(w), Kept(w, DOMAIN w.fleet), NEW k \in DOMAIN w.fleet, NEW n \in DOMAIN w.fleet, k # n,
         NEW g \in Fleet, g.ships = w.fleet[n].ships \cup w.fleet[k].ships
  PROVE  Kept(FleetSet(w, n, g), DOMAIN w.fleet \ {k})
<1> DEFINE v == FleetSet(w, n, g)
<1>1. w \in World /\ n \in Nat \ {0}
  BY Holds
<1>2. /\ v.planet = w.planet /\ v.gone = w.gone
      /\ \A i \in DOMAIN w.fleet : v.fleet[i] = IF i = n THEN g ELSE w.fleet[i]
  BY <1>1, SetIs
<1> HIDE DEF v
<1>3. Kept(v, DOMAIN w.fleet \ {k})
  BY <1>2 DEF Kept
<1> QED BY <1>3 DEF v

(* A planet whose ships stay, or that has none, changes hands. *)
LEMMA KeptPlanet ==
  ASSUME NEW w, Shape(w), NEW D, Kept(w, D), NEW p \in Planet, NEW x \in Place, x.ships = w.planet[p].ships
  PROVE  Kept([w EXCEPT !.planet[p] = x], D)
<1> DEFINE v == [w EXCEPT !.planet[p] = x]
<1>1. w \in World /\ w.planet \in [Planet -> Place]
  BY Holds
<1>2. v.planet = [w.planet EXCEPT ![p] = x] /\ v.gone = w.gone /\ v.fleet = w.fleet
  BY <1>1, PlanetIs
<1> HIDE DEF v
<1>3. \A q \in Planet : v.planet[q].ships = w.planet[q].ships
  BY <1>1, <1>2
<1>4. Kept(v, D)
  BY <1>2, <1>3 DEF Kept
<1> QED BY <1>4 DEF v

-----------------------------------------------------------------------------
(* What carrying out an order does to the list.                             *)

Waits(f) == f.order = "merge" /\ f.waits

\* What is left of a fleet f that has acted.
Result(g, f, luck) ==
  /\ Timed(g)
  /\ g.order = "op" => f.order = "op" /\ luck.back = NoPortal /\ g.ships \subseteq f.ships

\* The fleet at k has acted: positions before it are as they were or held one
\* that it merged with; no other fleet is lost; and every fleet there is was
\* there, or is what is left of this one.
Acted(w, v, k, f, luck) ==
  /\ Len(v.fleet) \in Nat /\ Len(v.fleet) + 1 >= Len(w.fleet)
  /\ \A i \in 2 .. k - 1 : v.fleet[i] = w.fleet[i] \/ (f.order = "merge" /\ Waits(w.fleet[i]))
  /\ \A i \in 2 .. Len(w.fleet) : i # k /\ ~Waits(w.fleet[i]) =>
       \E n \in 2 .. Len(v.fleet) : v.fleet[n] = w.fleet[i]
  /\ \A n \in 2 .. Len(v.fleet) :
       \/ \E i \in 2 .. Len(w.fleet) : i # k /\ v.fleet[n] = w.fleet[i]
       \/ Result(v.fleet[n], f, luck)

\* The two lists differ in the main fleet and at k at most.
Besides(w, u, k) ==
  /\ u \in World /\ Len(u.fleet) = Len(w.fleet)
  /\ \A i \in 2 .. Len(w.fleet) : i # k => u.fleet[i] = w.fleet[i]

LEMMA SetActs ==
  ASSUME NEW w, Shape(w), NEW k \in 2 .. Len(w.fleet), NEW f, NEW luck,
         NEW u, Besides(w, u, k), Result(u.fleet[k], f, luck)
  PROVE  Acted(w, u, k, f, luck)
<1> DEFINE l == Len(w.fleet)
<1>1. l \in Nat /\ Len(u.fleet) = l
  BY Holds DEF Besides
<1>2. \A i \in 2 .. l : i # k => u.fleet[i] = w.fleet[i]
  BY DEF Besides
<1>3. \A i \in 2 .. k - 1 : u.fleet[i] = w.fleet[i]
  BY <1>1, <1>2
<1>4. \A i \in 2 .. l : i # k => \E n \in 2 .. l : u.fleet[n] = w.fleet[i]
  BY <1>2
<1>5. \A n \in 2 .. l : (\E i \in 2 .. l : i # k /\ u.fleet[n] = w.fleet[i]) \/ Result(u.fleet[n], f, luck)
  BY <1>2
<1>6. Len(u.fleet) \in Nat /\ Len(u.fleet) + 1 >= Len(w.fleet)
  BY <1>1
<1>7. \A i \in 2 .. Len(w.fleet) : i # k /\ ~Waits(w.fleet[i]) =>
         \E n \in 2 .. Len(u.fleet) : u.fleet[n] = w.fleet[i]
  BY <1>1, <1>4
<1>8. \A n \in 2 .. Len(u.fleet) : \/ \E i \in 2 .. Len(w.fleet) : i # k /\ u.fleet[n] = w.fleet[i]
                                  \/ Result(u.fleet[n], f, luck)
  BY <1>1, <1>5
<1> HIDE DEF l
<1> QED BY <1>3, <1>6, <1>7, <1>8 DEF Acted

LEMMA RemoveActs ==
  ASSUME NEW w, Shape(w), NEW k \in 2 .. Len(w.fleet), NEW f, NEW luck, NEW u, Besides(w, u, k)
  PROVE  Acted(w, FleetRemove(u, k), k, f, luck)
<1> DEFINE v == FleetRemove(u, k)
           n == Len(w.fleet)
<1>1. n \in Nat /\ k \in 1 .. Len(u.fleet) /\ u \in World /\ Len(u.fleet) = n
  BY Holds DEF Besides
<1>2. Len(v.fleet) = n - 1 /\ \A i \in 1 .. n - 1 : v.fleet[i] = u.fleet[IF i = k THEN n ELSE i]
  BY <1>1, RemoveIs
<1> HIDE DEF v
<1>3. \A i \in 2 .. n - 1 : v.fleet[i] = w.fleet[IF i = k THEN n ELSE i]
  BY <1>1, <1>2 DEF Besides
<1> HIDE DEF n
<1>4. \A i \in 2 .. n : i # k => \E j \in 2 .. n - 1 : v.fleet[j] = w.fleet[i]
  <2> TAKE i \in 2 .. n
  <2> HAVE i # k
  <2>1. CASE i = n
    <3>1. k \in 2 .. n - 1 /\ v.fleet[k] = w.fleet[i]
      BY <1>1, <1>3, <2>1
    <3> QED BY <3>1
  <2>2. CASE i # n
    <3>1. i \in 2 .. n - 1 /\ v.fleet[i] = w.fleet[i]
      BY <1>1, <1>3, <2>2
    <3> QED BY <3>1
  <2> QED BY <2>1, <2>2
<1>5. \A j \in 2 .. n - 1 : \E i \in 2 .. n : i # k /\ v.fleet[j] = w.fleet[i]
  <2> TAKE j \in 2 .. n - 1
  <2> DEFINE i == IF j = k THEN n ELSE j
  <2>1. i \in 2 .. n /\ i # k /\ v.fleet[j] = w.fleet[i]
    BY <1>1, <1>3
  <2> QED BY <2>1
<1>6. Len(v.fleet) \in Nat /\ Len(v.fleet) + 1 >= n
  BY <1>1, <1>2
<1>7. \A i \in 2 .. k - 1 : v.fleet[i] = w.fleet[i]
  BY <1>1, <1>3 DEF n
<1>8. \A i \in 2 .. Len(w.fleet) : i # k /\ ~Waits(w.fleet[i]) =>
         \E j \in 2 .. Len(v.fleet) : v.fleet[j] = w.fleet[i]
  BY <1>2, <1>4 DEF n
<1>9. \A j \in 2 .. Len(v.fleet) : \/ \E i \in 2 .. Len(w.fleet) : i # k /\ v.fleet[j] = w.fleet[i]
                                  \/ Result(v.fleet[j], f, luck)
  BY <1>2, <1>5 DEF n
<1>10. Len(v.fleet) \in Nat /\ Len(v.fleet) + 1 >= Len(w.fleet)
  BY <1>6 DEF n
<1>11. Acted(w, v, k, f, luck)
  BY <1>7, <1>8, <1>9, <1>10 DEF Acted
<1> QED BY <1>11 DEF v

(* The fleet at k becomes one with that at n, which waits. *)
LEMMA MergeActs ==
  ASSUME NEW w, Shape(w), NEW k \in 2 .. Len(w.fleet), NEW f, f.order = "merge", NEW luck,
         NEW u, Besides(w, u, k), Result(u.fleet[k], f, luck),
         NEW n \in 2 .. Len(w.fleet), n # k, Waits(w.fleet[n])
  PROVE  Acted(w, FleetRemove(u, n), k, f, luck)
<1> DEFINE v == FleetRemove(u, n)
           l == Len(w.fleet)
           m(i) == IF i = n THEN l ELSE i
<1>1. l \in Nat /\ n \in 1 .. Len(u.fleet) /\ u \in World /\ Len(u.fleet) = l
  BY Holds DEF Besides
<1>2. Len(v.fleet) = l - 1 /\ \A i \in 1 .. l - 1 : v.fleet[i] = u.fleet[IF i = n THEN l ELSE i]
  <2>1. u \in World /\ n \in 1 .. Len(u.fleet)
    BY <1>1
  <2>2. /\ Len(v.fleet) = Len(u.fleet) - 1 /\ DOMAIN v.fleet = 1 .. Len(u.fleet) - 1
        /\ \A i \in DOMAIN v.fleet : v.fleet[i] = u.fleet[IF i = n THEN Len(u.fleet) ELSE i]
    BY <2>1, RemoveIs
  <2> HIDE DEF v, l
  <2> QED BY <1>1, <2>2
<1> HIDE DEF v
<1>3. \A i \in 2 .. l : i # k => u.fleet[i] = w.fleet[i]
  BY DEF Besides
<1> HIDE DEF l
<1>4. \A i \in 2 .. k - 1 : v.fleet[i] = w.fleet[i] \/ Waits(w.fleet[i])
  <2> TAKE i \in 2 .. k - 1
  <2>1. CASE i = n
    BY <2>1
  <2>2. CASE i # n
    <3>1. i \in 1 .. l - 1 /\ i \in 2 .. l /\ i # k /\ m(i) = i
      BY <1>1, <2>2 DEF l
    <3> QED BY <1>2, <1>3, <3>1
  <2> QED BY <2>1, <2>2
<1>5. \A i \in 2 .. l : i # k /\ ~Waits(w.fleet[i]) => \E j \in 2 .. l - 1 : v.fleet[j] = w.fleet[i]
  <2> TAKE i \in 2 .. l
  <2> HAVE i # k /\ ~Waits(w.fleet[i])
  <2>1. i # n /\ n \in 2 .. l
    BY DEF l
  <2>2. CASE i = l
    <3>1. n \in 2 .. l - 1 /\ v.fleet[n] = w.fleet[i]
      BY <1>1, <1>2, <1>3, <2>1, <2>2
    <3> QED BY <3>1
  <2>3. CASE i # l
    <3>1. i \in 2 .. l - 1 /\ v.fleet[i] = w.fleet[i]
      BY <1>1, <1>2, <1>3, <2>1, <2>3
    <3> QED BY <3>1
  <2> QED BY <2>2, <2>3
<1>6. \A j \in 2 .. l - 1 : \/ \E i \in 2 .. l : i # k /\ v.fleet[j] = w.fleet[i]
                            \/ Result(v.fleet[j], f, luck)
  <2> TAKE j \in 2 .. l - 1
  <2>1. m(j) \in 2 .. l /\ v.fleet[j] = u.fleet[m(j)]
    BY <1>1, <1>2
  <2> HIDE DEF m
  <2>2. CASE m(j) = k
    BY <2>1, <2>2
  <2>3. CASE m(j) # k
    BY <1>3, <2>1, <2>3
  <2> QED BY <2>2, <2>3
<1>7. Len(v.fleet) \in Nat /\ Len(v.fleet) + 1 >= l
  BY <1>1, <1>2
<1>8. \A i \in 2 .. Len(w.fleet) : i # k /\ ~Waits(w.fleet[i]) =>
         \E j \in 2 .. Len(v.fleet) : v.fleet[j] = w.fleet[i]
  BY <1>2, <1>5 DEF l
<1>9. \A j \in 2 .. Len(v.fleet) : \/ \E i \in 2 .. Len(w.fleet) : i # k /\ v.fleet[j] = w.fleet[i]
                                  \/ Result(v.fleet[j], f, luck)
  BY <1>2, <1>6 DEF l
<1>10. Len(v.fleet) \in Nat /\ Len(v.fleet) + 1 >= Len(w.fleet)
  BY <1>7 DEF l
<1>11. Acted(w, v, k, f, luck)
  BY <1>4, <1>8, <1>9, <1>10 DEF Acted
<1> QED BY <1>11 DEF v

-----------------------------------------------------------------------------
(* The orders, for a fleet that is at its position.                         *)

\* A fleet whose ships stay in it.
LEMMA SetKeeps ==
  ASSUME NEW w, Shape(w), Kept(w, DOMAIN w.fleet), NEW k \in 2 .. Len(w.fleet), NEW luck,
         NEW g \in Fleet, g.ships = w.fleet[k].ships, Result(g, w.fleet[k], luck)
  PROVE  LET v == FleetSet(w, k, g)
         IN Kept(v, DOMAIN v.fleet) /\ Acted(w, v, k, w.fleet[k], luck)
<1> DEFINE v == FleetSet(w, k, g)
<1>1. w \in World /\ k \in Nat \ {0} /\ k \in DOMAIN w.fleet /\ DOMAIN w.fleet = 1 .. Len(w.fleet)
  BY Holds
<1>2. /\ v \in World /\ v.planet = w.planet /\ v.gone = w.gone
      /\ Len(v.fleet) = Len(w.fleet) /\ DOMAIN v.fleet = DOMAIN w.fleet
      /\ \A i \in DOMAIN w.fleet : v.fleet[i] = IF i = k THEN g ELSE w.fleet[i]
  BY <1>1, SetIs
<1> HIDE DEF v
<1>3. \A i \in DOMAIN w.fleet : v.fleet[i].ships = w.fleet[i].ships
  BY <1>2
<1>4. Kept(v, DOMAIN v.fleet)
  BY <1>2, <1>3, KeptLike
<1>5. Besides(w, v, k) /\ v.fleet[k] = g
  BY <1>1, <1>2 DEF Besides
<1>6. Acted(w, v, k, w.fleet[k], luck)
  BY <1>5, SetActs
<1> QED BY <1>4, <1>6 DEF v

\* A fleet whose ships join the main fleet; u is the world with what it has
\* become at its position.
LEMMA RecallKeeps ==
  ASSUME NEW w, Shape(w), NEW u, Shape(u), Kept(u, DOMAIN u.fleet), NEW k \in 2 .. Len(w.fleet),
         Besides(w, u, k), NEW luck, NEW f
  PROVE  LET v == DoRecall(u, k, u.fleet[k])
         IN Kept(v, DOMAIN v.fleet) /\ Acted(w, v, k, f, luck)
<1> DEFINE x == [u EXCEPT !.fleet[1].ships = u.fleet[1].ships \cup u.fleet[k].ships]
           g == [u.fleet[1] EXCEPT !.ships = u.fleet[1].ships \cup u.fleet[k].ships]
           v == FleetRemove(x, k)
<1>1. /\ u \in World /\ Len(u.fleet) = Len(w.fleet) /\ k \in DOMAIN u.fleet /\ 1 \in DOMAIN u.fleet /\ k # 1
      /\ DOMAIN u.fleet = 1 .. Len(u.fleet) /\ k \in 1 .. Len(u.fleet)
      /\ u.fleet[1] \in Fleet /\ u.fleet[1].ships \cup u.fleet[k].ships \in SUBSET Ship
  BY Holds DEF Besides
<1>2. g \in Fleet /\ g.ships = u.fleet[1].ships \cup u.fleet[k].ships
  BY <1>1 DEF Fleet
<1>3. x = FleetSet(u, 1, g) /\ Shape(x)
  BY <1>1, MainIs
<1>4. DoRecall(u, k, u.fleet[k]) = v
  BY DEF DoRecall
<1> HIDE DEF x, v, g
<1>5. Kept(x, DOMAIN u.fleet \ {k})
  BY <1>1, <1>2, <1>3, KeptJoined
<1>6. /\ x \in World /\ Len(x.fleet) = Len(u.fleet) /\ DOMAIN x.fleet = DOMAIN u.fleet
      /\ \A i \in DOMAIN u.fleet : x.fleet[i] = IF i = 1 THEN g ELSE u.fleet[i]
  <2>1. u \in World /\ 1 \in Nat \ {0} /\ g \in Fleet /\ x = FleetSet(u, 1, g)
    BY <1>1, <1>2, <1>3
  <2> QED BY <2>1, IsSet
<1>7. Kept(v, DOMAIN v.fleet)
  BY <1>1, <1>3, <1>5, <1>6, KeptRemove DEF v
<1>8. Besides(w, x, k)
  BY <1>1, <1>6 DEF Besides
<1>9. Acted(w, v, k, f, luck)
  BY <1>8, RemoveActs DEF v
<1> QED BY <1>4, <1>7, <1>9

LEMMA ExploreKeeps ==
  ASSUME NEW w, Shape(w), Kept(w, DOMAIN w.fleet), NEW k \in 2 .. Len(w.fleet), NEW luck
  PROVE  LET v == DoExplore(w, k, w.fleet[k], luck)
         IN Kept(v, DOMAIN v.fleet) /\ Acted(w, v, k, w.fleet[k], luck)
<1> DEFINE f == w.fleet[k]
<1>1. /\ w \in World /\ k \in Nat /\ k >= 2 /\ k \in DOMAIN w.fleet /\ k \in 1 .. Len(w.fleet)
      /\ f \in Fleet /\ f.ships \in SUBSET Ship
      /\ f.dest \in Planet /\ w.planet \in [Planet -> Place]
  BY Holds DEF Fleet
<1>2. CASE w.planet[f.dest].owner # "none"
  <2> DEFINE g == [f EXCEPT !.order = "canceled", !.time = -1]
  <2>1. "canceled" \in Away
    BY DEF Away
  <2>2. g \in Fleet /\ g.ships = f.ships /\ g.order = "canceled"
    BY <1>1, <2>1, GivenHalt
  <2>3. DoExplore(w, k, f, luck) = FleetSet(w, k, g)
    BY <1>2 DEF DoExplore, Held
  <2>4. Result(g, f, luck)
    BY <2>2 DEF Result, Timed
  <2> HIDE DEF g
  <2> QED BY <2>2, <2>3, <2>4, SetKeeps
<1>3. CASE ~(w.planet[f.dest].owner # "none")
  <2> DEFINE u == Destroy(w, f.ships)
             v == FleetRemove(u, k)
             x == [owner |-> "me", ships |-> {}]
             z == [v EXCEPT !.planet[f.dest] = x]
  <2>1. DoExplore(w, k, f, luck) = IF luck.hostile THEN v ELSE z
    BY <1>3 DEF DoExplore
  <2>2. Shape(u) /\ u.fleet = w.fleet /\ u.planet = w.planet /\ Kept(u, DOMAIN w.fleet \ {k})
    BY <1>1, ShapeDestroy, DestroyIs, KeptDestroyed
  <2>3. Shape(v) /\ Kept(v, DOMAIN v.fleet) /\ v.planet = w.planet
    BY <1>1, <2>2, ShapeRemove, KeptRemove, RemoveIs, Holds
  <2>4. Besides(w, u, k)
    BY <2>2, Holds DEF Besides
  <2>5. Acted(w, v, k, f, luck)
    BY <2>4, RemoveActs
  <2> HIDE DEF u, v
  <2>6. x \in Place /\ x.ships = v.planet[f.dest].ships
    BY <1>1, <1>3, <2>3 DEF Shape, Place
  <2> HIDE DEF x
  <2>7. Kept(z, DOMAIN v.fleet) /\ z.fleet = v.fleet
    BY <1>1, <2>3, <2>6, KeptPlanet, PlanetIs, Holds
  <2>8. Acted(w, z, k, f, luck)
    BY <2>5, <2>7 DEF Acted
  <2> HIDE DEF z
  <2> QED BY <2>1, <2>3, <2>5, <2>7, <2>8
<1> QED BY <1>2, <1>3

LEMMA StationKeeps ==
  ASSUME NEW w, Shape(w), Kept(w, DOMAIN w.fleet), NEW k \in 2 .. Len(w.fleet), NEW luck
  PROVE  LET v == DoStation(w, k, w.fleet[k])
         IN Kept(v, DOMAIN v.fleet) /\ Acted(w, v, k, w.fleet[k], luck)
<1> DEFINE f == w.fleet[k]
<1>1. /\ w \in World /\ k \in DOMAIN w.fleet /\ k \in 1 .. Len(w.fleet)
      /\ f \in Fleet /\ f.ships \in SUBSET Ship
      /\ f.dest \in Planet /\ w.planet \in [Planet -> Place]
  BY Holds DEF Fleet
<1>2. CASE w.planet[f.dest].owner # "me"
  <2> DEFINE g == [f EXCEPT !.order = "canceled", !.time = -1]
  <2>1. "canceled" \in Away
    BY DEF Away
  <2>2. g \in Fleet /\ g.ships = f.ships /\ g.order = "canceled"
    BY <1>1, <2>1, GivenHalt
  <2>3. DoStation(w, k, f) = FleetSet(w, k, g)
    BY <1>2 DEF DoStation, Held
  <2>4. Result(g, f, luck)
    BY <2>2 DEF Result, Timed
  <2> HIDE DEF g
  <2> QED BY <2>2, <2>3, <2>4, SetKeeps
<1>3. CASE ~(w.planet[f.dest].owner # "me")
  <2> DEFINE x == [w.planet[f.dest] EXCEPT !.ships = w.planet[f.dest].ships \cup f.ships]
             u == [w EXCEPT !.planet[f.dest] = x]
             v == FleetRemove(u, k)
  <2>1. x \in Place /\ x.ships = w.planet[f.dest].ships \cup f.ships /\ x.owner = "me"
    BY <1>1, <1>3 DEF Place
  <2>2. DoStation(w, k, f) = v
    BY <1>3 DEF DoStation
  <2> HIDE DEF x
  <2>3. Shape(u) /\ Kept(u, DOMAIN w.fleet \ {k}) /\ u.fleet = w.fleet
    <3>1. u.fleet = w.fleet
      BY <1>1, <2>1, PlanetIs
    <3>2. Shape(u)
      BY <1>1, <2>1, ShapePlanet
    <3> QED BY <1>1, <2>1, <3>1, <3>2, KeptStationed
  <2> HIDE DEF u
  <2>4. Kept(v, DOMAIN v.fleet)
    BY <1>1, <2>3, KeptRemove
  <2>5. Besides(w, u, k)
    BY <2>3, Holds DEF Besides
  <2>6. Acted(w, v, k, f, luck)
    BY <2>5, RemoveActs
  <2> QED BY <2>2, <2>4, <2>6
<1> QED BY <1>2, <1>3

LEMMA MergeKeeps ==
  ASSUME NEW w, Shape(w), Kept(w, DOMAIN w.fleet), NEW k \in 2 .. Len(w.fleet), NEW luck,
         w.fleet[k].order = "merge"
  PROVE  LET v == DoMerge(w, k, w.fleet[k])
         IN Kept(v, DOMAIN v.fleet) /\ Acted(w, v, k, w.fleet[k], luck)
<1> DEFINE f == w.fleet[k]
           n == Min(Partners(w, k))
<1>1. /\ w \in World /\ k \in Nat \ {0} /\ k \in DOMAIN w.fleet /\ DOMAIN w.fleet = 1 .. Len(w.fleet)
      /\ f \in Fleet /\ f.ships \in SUBSET Ship /\ f.order # "main"
  BY Holds DEF Shape
<1>2. CASE Partners(w, k) = {}
  <2> DEFINE g == [f EXCEPT !.waits = TRUE, !.time = -1]
  <2>1. g \in Fleet /\ g.ships = f.ships /\ g.order = "merge" /\ g.time = -1
    BY <1>1, GivenFlag
  <2>2. DoMerge(w, k, f) = FleetSet(w, k, g)
    BY <1>2 DEF DoMerge
  <2>3. Result(g, f, luck)
    BY <2>1 DEF Result, Timed
  <2> HIDE DEF g
  <2> QED BY <2>1, <2>2, <2>3, SetKeeps
<1>3. CASE Partners(w, k) # {}
  <2> DEFINE g == [f EXCEPT !.ships = f.ships \cup w.fleet[n].ships, !.order = "move", !.time = -1, !.waits = FALSE]
             u == FleetSet(w, k, g)
             v == FleetRemove(u, n)
  <2>1. n \in 2 .. Len(w.fleet) /\ n # k /\ Waits(w.fleet[n])
    BY <1>1, <1>3, PartnerIs DEF Waits
  <2>2. DoMerge(w, k, f) = v
    BY <1>3 DEF DoMerge
  <2> HIDE DEF n
  <2>3. n \in DOMAIN w.fleet /\ f.ships \cup w.fleet[n].ships \in SUBSET Ship /\ "move" \in Away /\ n \in Nat /\ n >= 2
    BY <1>1, <2>1, Holds DEF Away
  <2>4. g \in Fleet /\ g.ships = f.ships \cup w.fleet[n].ships /\ g.order = "move" /\ g.order # "main"
    <3>1. f \in Fleet /\ f.ships \cup w.fleet[n].ships \in SUBSET Ship /\ "move" \in Away
      BY <1>1, <2>3
    <3> HIDE DEF f
    <3>2. "move" \in Away \cup {"main"} /\ -1 \in -1 .. MaxTime
      BY <3>1, Times
    <3> QED BY <3>1, <3>2 DEF Fleet
  <2> HIDE DEF g
  <2>5. /\ u \in World /\ Len(u.fleet) = Len(w.fleet) /\ DOMAIN u.fleet = DOMAIN w.fleet
        /\ \A i \in DOMAIN w.fleet : u.fleet[i] = IF i = k THEN g ELSE w.fleet[i]
    <3>1. w \in World /\ k \in Nat \ {0} /\ g \in Fleet
      BY <1>1, <2>4
    <3> QED BY <3>1, SetIs
  <2>6. Shape(u)
    <3>1. g.order = "main" <=> k = 1
      BY <2>4
    <3> QED BY <1>1, <2>4, <3>1, ShapeSet
  <2>7. Kept(u, DOMAIN w.fleet \ {n})
    BY <1>1, <2>1, <2>3, <2>4, KeptJoined
  <2> HIDE DEF u
  <2>8. Kept(v, DOMAIN v.fleet)
    BY <1>1, <2>3, <2>5, <2>6, <2>7, KeptRemove
  <2>9. Besides(w, u, k) /\ u.fleet[k] = g
    BY <1>1, <2>5 DEF Besides
  <2>10. Result(g, f, luck)
    BY <2>4 DEF Result, Timed
  <2>11. Acted(w, v, k, f, luck)
    BY <2>1, <2>9, <2>10, MergeActs
  <2> QED BY <2>2, <2>8, <2>11
<1> QED BY <1>2, <1>3

\* Some of the agents are lost and the rest is called back, if it can be.
LEMMA OpKeeps ==
  ASSUME NEW w, Shape(w), Kept(w, DOMAIN w.fleet), NEW k \in 2 .. Len(w.fleet), NEW luck \in Luck,
         w.fleet[k].order = "op", w.fleet[k].time >= 0
  PROVE  LET v == DoOp(w, k, w.fleet[k], luck)
         IN Kept(v, DOMAIN v.fleet) /\ Acted(w, v, k, w.fleet[k], luck)
<1> DEFINE f == w.fleet[k]
           g == [f EXCEPT !.ships = f.ships \ luck.lost]
           u == Operated(w, k, f, luck.lost)
<1>1. /\ w \in World /\ k \in Nat \ {0} /\ k \in DOMAIN w.fleet /\ DOMAIN w.fleet = 1 .. Len(w.fleet)
      /\ f \in Fleet /\ f.ships \in SUBSET Ship /\ luck.back \in Back
  BY Holds DEF Luck, Back
<1>2. g \in Fleet /\ g.ships = f.ships \ luck.lost /\ g.order = "op" /\ g.time >= 0
  BY <1>1 DEF Fleet
<1> HIDE DEF g
<1>3. /\ Shape(u) /\ Kept(u, DOMAIN u.fleet) /\ Besides(w, u, k) /\ DOMAIN u.fleet = DOMAIN w.fleet
      /\ u.fleet[k] = f \/ u.fleet[k] = g
  <2>1. CASE f.ships \cap luck.lost = {}
    BY <1>1, <2>1 DEF Operated, Besides
  <2>2. CASE f.ships \cap luck.lost # {}
    <3> DEFINE d == Destroy(w, f.ships \cap luck.lost)
    <3>1. u = FleetSet(d, k, g)
      BY <2>2 DEF Operated, g
    <3>2. Shape(d) /\ d \in World /\ d.fleet = w.fleet
      BY <1>1, ShapeDestroy, DestroyIs
    <3>3. Kept(FleetSet(d, k, g), DOMAIN w.fleet)
      BY <1>1, <1>2, KeptLost
    <3> HIDE DEF d, u
    <3>4. /\ u \in World /\ Len(u.fleet) = Len(w.fleet) /\ DOMAIN u.fleet = DOMAIN w.fleet
          /\ \A i \in DOMAIN w.fleet : u.fleet[i] = IF i = k THEN g ELSE w.fleet[i]
      <4>1. d \in World /\ k \in Nat \ {0} /\ g \in Fleet
        BY <1>1, <1>2, <3>2
      <4>2. /\ u \in World /\ Len(u.fleet) = Len(d.fleet) /\ DOMAIN u.fleet = DOMAIN d.fleet
            /\ \A i \in DOMAIN d.fleet : u.fleet[i] = IF i = k THEN g ELSE d.fleet[i]
        BY <3>1, <4>1, IsSet
      <4> QED BY <3>2, <4>2
    <3>5. Shape(u)
      <4>1. g.order = "main" <=> k = 1
        BY <1>2
      <4> QED BY <1>1, <1>2, <3>1, <3>2, <4>1, ShapeSet
    <3>6. Besides(w, u, k)
      BY <1>1, <3>4 DEF Besides
    <3> QED BY <1>1, <3>1, <3>3, <3>4, <3>5, <3>6
  <2> QED BY <2>1, <2>2
<1>4. DoOp(w, k, f, luck) = Recall(u, k, luck.back)
  BY DEF DoOp
<1> HIDE DEF u
<1>5. /\ u.fleet[k] \in Fleet /\ u.fleet[k].order = "op" /\ u.fleet[k].time >= 0
      /\ u.fleet[k].ships \subseteq f.ships
      /\ u \in World /\ ~(k > Len(u.fleet)) /\ Len(u.fleet) = Len(w.fleet)
  BY <1>1, <1>2, <1>3 DEF Besides
<1>6. CASE luck.back = NoPortal
  <2>1. DoOp(w, k, f, luck) = u
    BY <1>4, <1>6 DEF Recall
  <2>2. Result(u.fleet[k], f, luck)
    BY <1>5, <1>6 DEF Result, Timed
  <2>3. Acted(w, u, k, f, luck)
    BY <1>3, <2>2, SetActs
  <2> QED BY <1>3, <2>1, <2>3
<1>7. CASE luck.back # NoPortal
  <2> DEFINE y == u.fleet[k]
             h == [y EXCEPT !.order = "recall", !.time = luck.back]
             x == FleetSet(u, k, h)
  <2>1. "recall" \in Away /\ luck.back \in -1 .. MaxTime
    BY <1>1, <1>7, Times DEF Away, Back
  <2>2. h \in Fleet /\ h.order = "recall" /\ h.ships = u.fleet[k].ships /\ h.order # "main"
    <3>1. y \in Fleet
      BY <1>5
    <3> HIDE DEF y
    <3>2. h \in Fleet /\ h.order = "recall" /\ h.ships = y.ships
      <4>1. "recall" \in Away \cup {"main"}
        BY <2>1
      <4> QED BY <2>1, <3>1, <4>1 DEF Fleet
    <3> QED BY <3>2 DEF y
  <2>3. DoOp(w, k, f, luck) = IF luck.back = 0 THEN DoRecall(x, k, h) ELSE x
    BY <1>4, <1>5, <1>7 DEF Recall
  <2> HIDE DEF h
  <2>4. /\ x \in World /\ Len(x.fleet) = Len(u.fleet) /\ DOMAIN x.fleet = DOMAIN u.fleet
        /\ x.planet = u.planet /\ x.gone = u.gone
        /\ \A i \in DOMAIN u.fleet : x.fleet[i] = IF i = k THEN h ELSE u.fleet[i]
    BY <1>1, <1>5, <2>2, SetIs
  <2>5. Shape(x)
    <3>1. h.order = "main" <=> k = 1
      BY <2>2
    <3> QED BY <1>1, <1>3, <2>2, <3>1, ShapeSet
  <2> HIDE DEF x
  <2>6. Kept(x, DOMAIN x.fleet)
    BY <1>3, <2>2, <2>4, KeptLike
  <2>7. Besides(w, x, k) /\ x.fleet[k] = h
    BY <1>1, <1>3, <1>5, <2>4 DEF Besides
  <2>8. Result(h, f, luck)
    BY <2>2 DEF Result, Timed
  <2>9. Acted(w, x, k, f, luck)
    BY <2>7, <2>8, SetActs
  <2>10. LET v == DoRecall(x, k, h) IN Kept(v, DOMAIN v.fleet) /\ Acted(w, v, k, f, luck)
    BY <2>5, <2>6, <2>7, RecallKeeps
  <2> QED BY <2>3, <2>6, <2>9, <2>10
<1> QED BY <1>6, <1>7

(* A fleet that acts at its position loses and copies no ship. *)
LEMMA ActionKeeps ==
  ASSUME NEW w, Shape(w), Kept(w, DOMAIN w.fleet), NEW k \in 2 .. Len(w.fleet), NEW luck \in Luck,
         w.fleet[k].order = "op" => w.fleet[k].time >= 0
  PROVE  LET v == FleetAction(w, k, w.fleet[k], luck)
         IN Kept(v, DOMAIN v.fleet) /\ Acted(w, v, k, w.fleet[k], luck)
<1> DEFINE f == w.fleet[k]
           v == FleetAction(w, k, f, luck)
<1>1. f \in Fleet /\ f.order \in Away /\ k \in DOMAIN w.fleet /\ w \in World
  BY Holds DEF Shape, Fleet
<1>2. CASE f.order = "explore"
  BY <1>2, ExploreKeeps DEF FleetAction
<1>3. CASE f.order = "station"
  BY <1>3, StationKeeps DEF FleetAction
<1>4. CASE f.order = "merge"
  BY <1>4, MergeKeeps DEF FleetAction
<1>5. CASE f.order \in {"move", "attack"}
  <2> DEFINE g == [f EXCEPT !.time = -1]
  <2>1. g \in Fleet /\ g.ships = f.ships /\ g.order = f.order
    BY <1>1, Times DEF Fleet
  <2>2. v = FleetSet(w, k, g)
    BY <1>5 DEF FleetAction
  <2>3. Result(g, f, luck)
    BY <1>5, <2>1 DEF Result, Timed
  <2> HIDE DEF g
  <2> QED BY <2>1, <2>2, <2>3, SetKeeps
<1>6. CASE f.order = "recall"
  <2>1. v = DoRecall(w, k, f)
    BY <1>6 DEF FleetAction
  <2>2. Besides(w, w, k)
    BY <1>1 DEF Besides
  <2> QED BY <2>1, <2>2, RecallKeeps
<1>7. CASE f.order = "op"
  BY <1>7, OpKeeps DEF FleetAction
<1>8. CASE f.order = "canceled"
  <2>1. v = w
    BY <1>8 DEF FleetAction
  <2>2. Besides(w, w, k)
    BY <1>1 DEF Besides
  <2>3. Result(f, f, luck)
    BY <1>8 DEF Result, Timed
  <2> QED BY <2>1, <2>2, <2>3, SetActs
<1> QED BY <1>1, <1>2, <1>3, <1>4, <1>5, <1>6, <1>7, <1>8 DEF Away

-----------------------------------------------------------------------------
(* The pages.                                                               *)

LEMMA Becomes ==
  ASSUME IInv, NEW w, Become(w), Shape(w), Sound(Now) => Sound(w)
  PROVE  IInv'
<1>1. w = [fleet |-> w.fleet, planet |-> w.planet, gone |-> w.gone]
  BY DEF Shape, World
<1>2. [fleet |-> fleet', planet |-> planet', gone |-> gone'] = w /\ crossed' = crossed
  BY <1>1 DEF Become, Written
<1> QED BY <1>2 DEF IInv, Now

(* Ships a place has are in no other. *)
(* Ships are destroyed wherever they are. *)
Less(w, D, dead, v) ==
  /\ \A i \in D : v.fleet[i].ships = w.fleet[i].ships \ dead
  /\ \A p \in Planet : v.planet[p].ships = w.planet[p].ships \ dead
  /\ v.gone = w.gone \cup dead

LEMMA KeptLess ==
  ASSUME NEW w, NEW D, Kept(w, D), NEW v, NEW dead \in SUBSET Ship, Less(w, D, dead, v)
  PROVE  Kept(v, D)
BY DEF Kept, Less

(* A fleet of ships that were in another. *)
Divided(w, k, ships, v) ==
  /\ k \in DOMAIN w.fleet /\ ships \subseteq w.fleet[k].ships
  /\ v.planet = w.planet /\ v.gone = w.gone /\ DOMAIN v.fleet = 1 .. Len(w.fleet) + 1
  /\ \A i \in DOMAIN w.fleet : v.fleet[i].ships = IF i = k THEN w.fleet[k].ships \ ships ELSE w.fleet[i].ships
  /\ v.fleet[Len(w.fleet) + 1].ships = ships

LEMMA KeptDivided ==
  ASSUME NEW w, Shape(w), Kept(w, DOMAIN w.fleet), NEW k, NEW ships, NEW v, Divided(w, k, ships, v)
  PROVE  Kept(v, DOMAIN v.fleet)
<1> DEFINE n == Len(w.fleet) + 1
           m(i) == IF i = n THEN k ELSE i
<1>1. DOMAIN v.fleet = DOMAIN w.fleet \cup {n} /\ n \notin DOMAIN w.fleet
  BY Holds DEF Divided
<1>2. /\ v.fleet[n].ships = ships /\ k \in DOMAIN w.fleet /\ ships \subseteq w.fleet[k].ships
      /\ v.planet = w.planet /\ v.gone = w.gone
      /\ \A i \in DOMAIN w.fleet : v.fleet[i].ships = IF i = k THEN w.fleet[k].ships \ ships ELSE w.fleet[i].ships
  BY DEF Divided
<1> HIDE DEF n
<1>3. \A i \in DOMAIN v.fleet : m(i) \in DOMAIN w.fleet /\ v.fleet[i].ships \subseteq w.fleet[m(i)].ships
  BY <1>1, <1>2
<1>4. \A s, i, j : i \in DOMAIN v.fleet /\ j \in DOMAIN v.fleet /\ m(i) = m(j)
                     /\ s \in v.fleet[i].ships /\ s \in v.fleet[j].ships => i = j
  BY <1>1, <1>2
<1>5. \A s, i : i \in DOMAIN w.fleet /\ s \in w.fleet[i].ships => \E j \in DOMAIN v.fleet : s \in v.fleet[j].ships
  BY <1>1, <1>2
<1> HIDE DEF m
<1>6. \A s \in Ship, i, j \in DOMAIN v.fleet : s \in v.fleet[i].ships /\ s \in v.fleet[j].ships => i = j
  BY <1>3, <1>4 DEF Kept
<1>7. \A s \in Ship, i \in DOMAIN v.fleet, p \in Planet : ~(s \in v.fleet[i].ships /\ s \in v.planet[p].ships)
  BY <1>2, <1>3 DEF Kept
<1>8. \A s \in v.gone : /\ \A i \in DOMAIN v.fleet : s \notin v.fleet[i].ships
                        /\ \A p \in Planet : s \notin v.planet[p].ships
  BY <1>2, <1>3 DEF Kept
<1>9. \A s \in Ship : \/ s \in v.gone
                      \/ \E i \in DOMAIN v.fleet : s \in v.fleet[i].ships
                      \/ \E p \in Planet : s \in v.planet[p].ships
  BY <1>2, <1>5 DEF Kept
<1> QED BY <1>2, <1>6, <1>7, <1>8, <1>9 DEF Kept

(* A fleet of ships that were on a planet. *)
Launched(w, p, v) ==
  /\ v.gone = w.gone
  /\ \A q \in Planet : v.planet[q].ships = IF q = p THEN {} ELSE w.planet[q].ships
  /\ DOMAIN v.fleet = 1 .. Len(w.fleet) + 1
  /\ \A i \in DOMAIN w.fleet : v.fleet[i].ships = w.fleet[i].ships
  /\ v.fleet[Len(w.fleet) + 1].ships = w.planet[p].ships

LEMMA KeptLaunched ==
  ASSUME NEW w, Shape(w), Kept(w, DOMAIN w.fleet), NEW p \in Planet, NEW v, Launched(w, p, v)
  PROVE  Kept(v, DOMAIN v.fleet)
<1> DEFINE n == Len(w.fleet) + 1
<1>1. DOMAIN v.fleet = DOMAIN w.fleet \cup {n} /\ n \notin DOMAIN w.fleet
  BY Holds DEF Launched
<1>2. /\ v.fleet[n].ships = w.planet[p].ships /\ v.gone = w.gone
      /\ \A q \in Planet : v.planet[q].ships = IF q = p THEN {} ELSE w.planet[q].ships
      /\ \A i \in DOMAIN w.fleet : v.fleet[i].ships = w.fleet[i].ships
  BY DEF Launched
<1> HIDE DEF n
<1>3. \A i \in DOMAIN v.fleet : v.fleet[i].ships = IF i = n THEN w.planet[p].ships ELSE w.fleet[i].ships
  BY <1>1, <1>2
<1>6. \A s \in Ship, i, j \in DOMAIN v.fleet : s \in v.fleet[i].ships /\ s \in v.fleet[j].ships => i = j
  BY <1>1, <1>3 DEF Kept
<1>7. \A s \in Ship, i \in DOMAIN v.fleet, q \in Planet : ~(s \in v.fleet[i].ships /\ s \in v.planet[q].ships)
  BY <1>1, <1>2, <1>3 DEF Kept
<1>8. \A s \in v.gone : /\ \A i \in DOMAIN v.fleet : s \notin v.fleet[i].ships
                        /\ \A q \in Planet : s \notin v.planet[q].ships
  BY <1>1, <1>2, <1>3 DEF Kept
<1>9. \A s \in Ship : \/ s \in v.gone
                      \/ \E i \in DOMAIN v.fleet : s \in v.fleet[i].ships
                      \/ \E q \in Planet : s \in v.planet[q].ships
  <2> TAKE s \in Ship
  <2>1. CASE s \in w.gone
    BY <1>2, <2>1
  <2>2. CASE \E i \in DOMAIN w.fleet : s \in w.fleet[i].ships
    BY <1>1, <1>3, <2>2
  <2>3. CASE \E q \in Planet : s \in w.planet[q].ships
    BY <1>1, <1>2, <2>3
  <2> QED BY <2>1, <2>2, <2>3 DEF Kept
<1>10. \A s \in Ship, q, r \in Planet : s \in v.planet[q].ships /\ s \in v.planet[r].ships => q = r
  BY <1>2 DEF Kept
<1> QED BY <1>6, <1>7, <1>8, <1>9, <1>10 DEF Kept

(* What is left of a fleet that acted has its time in order. *)
LEMMA ActedTimed ==
  ASSUME NEW w, Shape(w), NEW k, \A i \in DOMAIN w.fleet : i # k => Timed(w.fleet[i]), NEW f, NEW luck,
         NEW v, Shape(v), Acted(w, v, k, f, luck)
  PROVE  \A n \in DOMAIN v.fleet : Timed(v.fleet[n])
<1> TAKE n \in DOMAIN v.fleet
<1>1. CASE n = 1
  BY <1>1, Holds DEF Timed
<1>2. CASE n # 1
  <2>1. n \in 2 .. Len(v.fleet) /\ 2 .. Len(w.fleet) \subseteq DOMAIN w.fleet
    BY <1>2, Holds
  <2> QED BY <2>1 DEF Acted, Result
<1> QED BY <1>1, <1>2

(* A page or a tick that makes a fleet act. *)
LEMMA ActionSound ==
  ASSUME NEW w, Shape(w), Sound(w), NEW k \in 2 .. Len(w.fleet), NEW luck \in Luck
  PROVE  Sound(FleetAction(w, k, w.fleet[k], luck))
<1> DEFINE f == w.fleet[k]
           v == FleetAction(w, k, f, luck)
<1>1. k \in DOMAIN w.fleet /\ f \in Fleet /\ f.order # "main" /\ k \in Nat /\ k >= 2
  BY Holds DEF Shape
<1>2. f.order = "op" => f.time >= 0
  BY <1>1 DEF Sound, Timed
<1>3. Shape(v)
  BY <1>1, ActionShape
<1>4. Kept(v, DOMAIN v.fleet) /\ Acted(w, v, k, f, luck)
  BY <1>2, ActionKeeps DEF Sound
<1> HIDE DEF v
<1>5. \A n \in DOMAIN v.fleet : Timed(v.fleet[n])
  BY <1>3, <1>4, ActedTimed DEF Sound
<1>6. Sound(v)
  BY <1>4, <1>5 DEF Sound
<1> QED BY <1>6 DEF v

LEMMA CalledBackSound ==
  ASSUME NEW w, Shape(w), Sound(w), NEW k \in Nat, k >= 2, NEW back \in Back
  PROVE  Sound(Recall(w, k, back))
<1>1. CASE k > Len(w.fleet) \/ back = NoPortal
  BY <1>1 DEF Recall
<1>2. CASE ~(k > Len(w.fleet) \/ back = NoPortal)
  <2> DEFINE f == w.fleet[k]
             g == [f EXCEPT !.order = "recall", !.time = back]
             x == FleetSet(w, k, g)
             v == DoRecall(x, k, g)
  <2>1. /\ f \in Fleet /\ k \in DOMAIN w.fleet /\ k \in 2 .. Len(w.fleet) /\ k \in Nat \ {0}
        /\ DOMAIN w.fleet = 1 .. Len(w.fleet) /\ w \in World
        /\ "recall" \in Away /\ back \in -1 .. MaxTime
    BY <1>2, Holds, Times DEF Back, NoPortal, Away
  <2>2. Recall(w, k, back) = IF back = 0 THEN v ELSE x
    BY <1>2 DEF Recall
  <2>3. g \in Fleet /\ g.order = "recall" /\ g.ships = f.ships /\ g.order # "main"
    <3> HIDE DEF f
    <3>1. "recall" \in Away \cup {"main"}
      BY <2>1
    <3> QED BY <2>1, <3>1 DEF Fleet
  <2>4. Result(g, f, NoLuck)
    BY <2>3 DEF Result, Timed
  <2> HIDE DEF g
  <2>5. Kept(x, DOMAIN x.fleet) /\ Acted(w, x, k, f, NoLuck)
    BY <2>1, <2>3, <2>4, SetKeeps DEF Sound
  <2>6. Shape(x)
    <3>1. g.order = "main" <=> k = 1
      BY <2>1, <2>3
    <3> QED BY <2>1, <2>3, <3>1, ShapeSet
  <2>7. /\ x \in World /\ Len(x.fleet) = Len(w.fleet)
        /\ \A i \in DOMAIN w.fleet : x.fleet[i] = IF i = k THEN g ELSE w.fleet[i]
    <3>1. w \in World /\ k \in Nat \ {0} /\ g \in Fleet /\ x = FleetSet(w, k, g)
      BY <2>1, <2>3
    <3> HIDE DEF x
    <3> QED BY <3>1, IsSet
  <2> HIDE DEF x
  <2>8. Sound(x)
    BY <2>5, <2>6, ActedTimed DEF Sound
  <2>9. Sound(v)
    <3>1. Besides(w, x, k) /\ x.fleet[k] = g
      BY <2>1, <2>7 DEF Besides
    <3>2. Kept(v, DOMAIN v.fleet) /\ Acted(w, v, k, f, NoLuck)
      BY <2>1, <2>5, <2>6, <3>1, RecallKeeps
    <3>3. Shape(v)
      BY <2>1, <2>3, <2>6, RecallShape
    <3> HIDE DEF v
    <3> QED BY <3>2, <3>3, ActedTimed DEF Sound
  <2> QED BY <2>2, <2>8, <2>9
<1> QED BY <1>1, <1>2

LEMMA NowIs ==
  ASSUME IInv
  PROVE  /\ Now.fleet = fleet /\ Now.planet = planet /\ Now.gone = gone /\ Shape(Now)
         /\ fleet \in Seq(Fleet) /\ planet \in [Planet -> Place] /\ gone \in SUBSET Ship
         /\ Len(fleet) \in Nat /\ DOMAIN fleet = 1 .. Len(fleet) /\ 1 \in DOMAIN fleet
         /\ \A k \in DOMAIN fleet : fleet[k] \in Fleet /\ fleet[k].ships \in SUBSET Ship
         /\ \A k \in DOMAIN fleet : fleet[k].order = "main" <=> k = 1
<1>1. Now.fleet = fleet /\ Now.planet = planet /\ Now.gone = gone
  BY DEF Now
<1>2. Shape(Now)
  BY DEF IInv
<1>3. \A k \in DOMAIN Now.fleet : Now.fleet[k].order = "main" <=> k = 1
  BY <1>2 DEF Shape
<1>4. /\ Now.fleet \in Seq(Fleet) /\ Now.planet \in [Planet -> Place] /\ Now.gone \in SUBSET Ship
      /\ Len(Now.fleet) \in Nat /\ DOMAIN Now.fleet = 1 .. Len(Now.fleet) /\ 1 \in DOMAIN Now.fleet
      /\ \A k \in DOMAIN Now.fleet : Now.fleet[k] \in Fleet /\ Now.fleet[k].ships \in SUBSET Ship
  BY <1>2, Holds
<1> QED BY <1>1, <1>2, <1>3, <1>4

LEMMA DepartKeeps ==
  ASSUME IInv, NEW order \in Away, order # "merge", NEW p \in Planet, NEW ships \in SUBSET Ship,
         NEW time \in 0 .. MaxTime, NEW luck \in Luck, Depart(order, p, ships, time, luck)
  PROVE  IInv'
<1> DEFINE f == [order |-> order, dest |-> p, time |-> time, waits |-> FALSE, ships |-> ships]
           g == [Now.fleet[1] EXCEPT !.ships = fleet[1].ships \ ships]
           u == [Now EXCEPT !.fleet[1].ships = fleet[1].ships \ ships]
           w == FleetAdd(u, f)
           v == FleetAction(w, Len(w.fleet), f, luck)
<1>1. ships \subseteq fleet[1].ships /\ Len(fleet) <= MaxFleets /\ Become(IF time = 0 THEN v ELSE w)
  BY DEF Depart
<1>2. f \in Fleet /\ f.order # "main" /\ f.order = order /\ f.time >= 0 /\ f.ships = ships
  BY Times DEF Fleet, Away
<1>3. fleet[1].ships \ ships \in SUBSET Ship /\ Now.fleet[1] \in Fleet
  BY NowIs
<1>4. u = FleetSet(Now, 1, g) /\ Shape(u)
  BY <1>3, NowIs, MainIs
<1>5. g \in Fleet /\ g.ships = fleet[1].ships \ ships
  BY <1>3 DEF Fleet
<1> HIDE DEF g, u, f
<1>6. /\ u \in World /\ u.planet = Now.planet /\ u.gone = Now.gone /\ Len(u.fleet) = Len(fleet) /\ DOMAIN u.fleet = DOMAIN fleet
      /\ \A i \in DOMAIN fleet : u.fleet[i] = IF i = 1 THEN g ELSE fleet[i]
  <2>1. Now \in World /\ 1 \in Nat \ {0}
    BY NowIs, Holds
  <2>2. /\ u \in World /\ u.planet = Now.planet /\ u.gone = Now.gone
        /\ Len(u.fleet) = Len(Now.fleet) /\ DOMAIN u.fleet = DOMAIN Now.fleet
        /\ \A i \in DOMAIN Now.fleet : u.fleet[i] = IF i = 1 THEN g ELSE Now.fleet[i]
    BY <1>4, <1>5, <2>1, IsSet
  <2> QED BY <2>2, NowIs
<1>7. /\ w.planet = u.planet /\ w.gone = u.gone /\ Len(w.fleet) = Len(fleet) + 1 /\ DOMAIN w.fleet = 1 .. Len(fleet) + 1
      /\ \A i \in DOMAIN fleet : w.fleet[i] = u.fleet[i]
      /\ w.fleet[Len(fleet) + 1] = f
  BY <1>2, <1>6, AddIs
<1>8. Shape(w)
  BY <1>1, <1>2, <1>4, <1>6, ShapeAdd
<1> HIDE DEF w
<1>9. ASSUME Sound(Now) PROVE Sound(w)
  <2>1. Shape(Now) /\ ships \in SUBSET Now.fleet[1].ships /\ 1 \in DOMAIN Now.fleet /\ Kept(Now, DOMAIN Now.fleet)
    BY <1>1, <1>9, NowIs DEF Sound
  <2>2. /\ w.planet = Now.planet /\ w.gone = Now.gone /\ DOMAIN w.fleet = 1 .. Len(Now.fleet) + 1
        /\ \A i \in DOMAIN Now.fleet :
             w.fleet[i].ships = IF i = 1 THEN Now.fleet[1].ships \ ships ELSE Now.fleet[i].ships
        /\ w.fleet[Len(Now.fleet) + 1].ships = ships
    BY <1>2, <1>5, <1>6, <1>7, NowIs
  <2>5. Divided(Now, 1, ships, w)
    BY <2>1, <2>2 DEF Divided
  <2>3. Kept(w, DOMAIN w.fleet)
    BY <2>1, <2>5, KeptDivided
  <2>4. ASSUME NEW i \in DOMAIN w.fleet PROVE Timed(w.fleet[i])
    <3>1. CASE i = 1
      BY <1>8, <3>1, Holds DEF Timed
    <3>2. CASE i = Len(fleet) + 1
      BY <1>2, <1>7, <3>2 DEF Timed
    <3>3. CASE i # 1 /\ i # Len(fleet) + 1
      <4>1. i \in DOMAIN fleet
        BY <1>7, <3>3, NowIs
      <4> QED BY <1>6, <1>7, <1>9, <3>3, <4>1, NowIs DEF Sound
    <3> QED BY <3>1, <3>2, <3>3
  <2> QED BY <2>3, <2>4 DEF Sound
<1>10. Len(w.fleet) \in 2 .. Len(w.fleet) /\ Len(w.fleet) \in Nat /\ Len(w.fleet) >= 2 /\ w.fleet[Len(w.fleet)] = f
  BY <1>7, NowIs
<1>11. Shape(v)
  BY <1>2, <1>8, <1>10, ActionShape
<1>12. Sound(Now) => Sound(v)
  BY <1>8, <1>9, <1>10, ActionSound
<1> HIDE DEF v
<1> QED BY <1>1, <1>8, <1>9, <1>11, <1>12, Becomes

LEMMA NoLuckIs == NoLuck \in Luck
BY Times DEF NoLuck, Luck, NoPortal

LEMMA SendFleetKeeps == IInv /\ SendFleet => IInv'
<1> SUFFICES ASSUME IInv, SendFleet PROVE IInv'
  OBVIOUS
<1>1. PICK p \in Planet, order \in {"move", "station", "attack"}, time \in 0 .. MaxTime, ships \in SUBSET Mover :
         Depart(order, p, ships, time, NoLuck)
  BY DEF SendFleet
<1>2. order \in Away /\ order # "merge" /\ ships \in SUBSET Ship
  BY DEF Away, Mover
<1> QED BY <1>1, <1>2, NoLuckIs, DepartKeeps

LEMMA SendAgentsKeeps == IInv /\ SendAgents => IInv'
<1> SUFFICES ASSUME IInv, SendAgents PROVE IInv'
  OBVIOUS
<1>1. PICK p \in Planet, time \in 0 .. MaxTime, ships \in SUBSET Agent :
         \E luck \in IF time = 0 THEN Luck ELSE {NoLuck} : Depart("op", p, ships, time, luck)
  BY DEF SendAgents
<1> PICK luck \in IF time = 0 THEN Luck ELSE {NoLuck} : Depart("op", p, ships, time, luck)
  BY <1>1
<1>2. "op" \in Away /\ "op" # "merge" /\ ships \in SUBSET Ship /\ luck \in Luck
  BY <1>1, NoLuckIs, FleetConstants DEF Away
<1> QED BY <1>1, <1>2, DepartKeeps

LEMMA ExploreSent == IInv /\ Explore => IInv'
<1> SUFFICES ASSUME IInv, Explore PROVE IInv'
  OBVIOUS
<1>1. PICK p \in Planet, time \in 1 .. MaxTime, s \in Probe : Depart("explore", p, {s}, time, NoLuck)
  BY DEF Explore
<1>2. "explore" \in Away /\ {s} \in SUBSET Ship /\ time \in 0 .. MaxTime
  BY FleetConstants DEF Away
<1> QED BY <1>1, <1>2, NoLuckIs, DepartKeeps

(* Every merge but that of k is called off. *)
LEMMA CallOffIs ==
  ASSUME NEW w, Shape(w), NEW k \in DOMAIN w.fleet
  PROVE  LET v == CallOff(w, k) IN
         /\ Shape(v) /\ v.planet = w.planet /\ v.gone = w.gone
         /\ Len(v.fleet) = Len(w.fleet) /\ DOMAIN v.fleet = DOMAIN w.fleet
         /\ v.fleet[k] = w.fleet[k]
         /\ \A i \in DOMAIN w.fleet : v.fleet[i].ships = w.fleet[i].ships
         /\ \A i \in DOMAIN w.fleet : Timed(w.fleet[i]) => Timed(v.fleet[i])
<1> DEFINE h(f) == [f EXCEPT !.order = "canceled", !.time = -1]
           Off(i) == IF i # 1 /\ i # k /\ w.fleet[i].order = "merge" THEN h(w.fleet[i]) ELSE w.fleet[i]
           l == [i \in DOMAIN w.fleet |-> Off(i)]
           n == Len(w.fleet)
           x == SubSeq(l, 1, n)
           v == CallOff(w, k)
<1>1. n \in Nat /\ 1 <= n /\ DOMAIN w.fleet = 1 .. n /\ \A i \in 1 .. n : w.fleet[i] \in Fleet
  BY Holds
<1>2. "canceled" \in Away
  BY DEF Away
<1>3. \A f \in Fleet : h(f) \in Fleet /\ h(f).order = "canceled" /\ h(f).ships = f.ships
  BY <1>2, GivenHalt
<1> HIDE DEF h
<1>4. \A i \in 1 .. n : /\ Off(i) \in Fleet /\ Off(i).ships = w.fleet[i].ships
                        /\ Off(i).order = "main" <=> w.fleet[i].order = "main"
                        /\ Timed(w.fleet[i]) => Timed(Off(i))
  BY <1>1, <1>3 DEF Timed
<1>5. Off(k) = w.fleet[k]
  OBVIOUS
<1>6. x \in Seq(Fleet) /\ Len(x) = n /\ DOMAIN x = 1 .. n /\ \A i \in 1 .. n : x[i] = Off(i)
  <2> HIDE DEF Off
  <2>1. l \in [1 .. n -> Fleet] /\ \A i \in 1 .. n : l[i] = Off(i)
    BY <1>1, <1>4
  <2> HIDE DEF l
  <2>2. l \in Seq(Fleet) /\ Len(l) = n
    BY <1>1, <2>1
  <2> HIDE DEF n
  <2>3. 1 \in 1 .. n + 1 /\ n \in 0 .. n
    BY <1>1
  <2> QED BY <1>1, <2>1, <2>2, <2>3
<1>7. v = [w EXCEPT !.fleet = x]
  BY DEF CallOff, h
<1> HIDE DEF x, v, Off, l
<1>8. v \in World /\ v.fleet = x /\ v.planet = w.planet /\ v.gone = w.gone
  BY <1>6, <1>7 DEF Shape, World
<1>9. Shape(v)
  BY <1>1, <1>4, <1>6, <1>8 DEF Shape
<1>10. k \in 1 .. n
  BY <1>1
<1>11. /\ Len(v.fleet) = Len(w.fleet) /\ DOMAIN v.fleet = DOMAIN w.fleet /\ v.fleet[k] = w.fleet[k]
       /\ \A i \in DOMAIN w.fleet : v.fleet[i].ships = w.fleet[i].ships
       /\ \A i \in DOMAIN w.fleet : Timed(w.fleet[i]) => Timed(v.fleet[i])
  BY <1>1, <1>4, <1>5, <1>6, <1>8, <1>10
<1> QED BY <1>8, <1>9, <1>11 DEF v

LEMMA CallOffSound ==
  ASSUME NEW w, Shape(w), Sound(w), NEW k \in DOMAIN w.fleet
  PROVE  Sound(CallOff(w, k))
<1> DEFINE v == CallOff(w, k)
<1>1. /\ v.planet = w.planet /\ v.gone = w.gone /\ DOMAIN v.fleet = DOMAIN w.fleet
      /\ \A i \in DOMAIN w.fleet : v.fleet[i].ships = w.fleet[i].ships
      /\ \A i \in DOMAIN w.fleet : Timed(w.fleet[i]) => Timed(v.fleet[i])
  BY CallOffIs
<1> HIDE DEF v
<1>2. Kept(v, DOMAIN v.fleet)
  BY <1>1, KeptLike DEF Sound
<1>3. Sound(v)
  BY <1>1, <1>2 DEF Sound
<1> QED BY <1>3 DEF v

(* A fleet that keeps its ships. *)
LEMMA SetSound ==
  ASSUME NEW w, Shape(w), NEW k \in 2 .. Len(w.fleet), NEW g \in Fleet, g.order # "main"
  PROVE  LET v == FleetSet(w, k, g) IN
         /\ Shape(v) /\ Len(v.fleet) = Len(w.fleet) /\ v.fleet[k] = g
         /\ \A i \in DOMAIN w.fleet : i # k => v.fleet[i] = w.fleet[i]
         /\ g.ships = w.fleet[k].ships /\ Timed(g) /\ Sound(w) => Sound(v)
<1> DEFINE v == FleetSet(w, k, g)
<1>1. w \in World /\ k \in Nat \ {0} /\ k \in DOMAIN w.fleet /\ (g.order = "main" <=> k = 1)
  BY Holds
<1>2. /\ v \in World /\ v.planet = w.planet /\ v.gone = w.gone
      /\ Len(v.fleet) = Len(w.fleet) /\ DOMAIN v.fleet = DOMAIN w.fleet
      /\ \A i \in DOMAIN w.fleet : v.fleet[i] = IF i = k THEN g ELSE w.fleet[i]
  BY <1>1, SetIs
<1>3. Shape(v)
  BY <1>1, ShapeSet
<1> HIDE DEF v
<1>4. ASSUME g.ships = w.fleet[k].ships, Timed(g), Sound(w) PROVE Sound(v)
  <2>1. Kept(v, DOMAIN v.fleet)
    BY <1>2, <1>4, KeptLike DEF Sound
  <2> QED BY <1>2, <1>4, <2>1 DEF Sound
<1>5. v.fleet[k] = g
  BY <1>1, <1>2
<1>6. \A i \in DOMAIN w.fleet : i # k => v.fleet[i] = w.fleet[i]
  BY <1>2
<1> QED BY <1>2, <1>3, <1>4, <1>5, <1>6 DEF v

LEMMA ChangeFleetKeeps ==
  ASSUME IInv, NEW k \in 2 .. Len(fleet), ChangeFleet(k)
  PROVE  IInv'
<1> PICK order \in Offered(fleet[k]), p \in Planet, time \in {NoPortal} \cup 0 .. MaxTime :
      LET w == IF fleet[k].order = "merge" THEN CallOff(Now, k) ELSE Now
          f == [fleet[k] EXCEPT !.order = order, !.dest = p, !.time = time]
      IN \/ order = "recall" /\ Become(Recall(w, k, time))
         \/ order \in {"move", "explore"} /\ time >= 1 /\ Become(FleetSet(w, k, f))
         \/ order \in {"attack", "station"} /\ time >= 1 /\ Become(FleetSet(w, k, f))
         \/ order \in {"attack", "station"} /\ time = 0
            /\ Become(FleetAction(FleetSet(w, k, f), k, f, NoLuck))
  BY DEF ChangeFleet
<1> DEFINE w == IF fleet[k].order = "merge" THEN CallOff(Now, k) ELSE Now
           f == [fleet[k] EXCEPT !.order = order, !.dest = p, !.time = time]
           x == FleetSet(w, k, f)
           v == FleetAction(x, k, f, NoLuck)
<1>1. /\ k \in DOMAIN Now.fleet /\ k \in DOMAIN fleet /\ k \in Nat /\ k >= 2 /\ Shape(Now)
      /\ fleet[k] \in Fleet /\ Now.fleet = fleet
  BY NowIs
<1>2. Shape(w) /\ Len(w.fleet) = Len(fleet) /\ w.fleet[k] = fleet[k] /\ (Sound(Now) => Sound(w))
  BY <1>1, CallOffIs, CallOffSound
<1> HIDE DEF w
<1>3. order \in Away /\ order # "merge" /\ order # "op" /\ order # "main" /\ time \in Back /\ time \in -1 .. MaxTime
  BY Times DEF Offered, Away, Back, NoPortal
<1>4. CASE order = "recall" /\ Become(Recall(w, k, time))
  <2>1. Shape(Recall(w, k, time))
    BY <1>1, <1>2, <1>3, CalledBackShape
  <2>2. Sound(Now) => Sound(Recall(w, k, time))
    BY <1>1, <1>2, <1>3, CalledBackSound
  <2> QED BY <1>4, <2>1, <2>2, Becomes
<1>5. /\ f \in Fleet /\ f.order = order /\ f.ships = fleet[k].ships
  <2>1. order \in Away \cup {"main"}
    BY <1>3
  <2> QED BY <1>1, <1>3, <2>1 DEF Fleet
<1> HIDE DEF f
<1>6. /\ Shape(x) /\ Len(x.fleet) = Len(fleet) /\ x.fleet[k] = f /\ (Sound(Now) => Sound(x))
  <2>1. k \in 2 .. Len(w.fleet) /\ f.order # "main" /\ Timed(f) /\ f.ships = w.fleet[k].ships
    BY <1>2, <1>3, <1>5 DEF Timed
  <2> QED BY <1>2, <1>5, <2>1, SetSound
<1>7. CASE Become(x)
  BY <1>6, <1>7, Becomes
<1> HIDE DEF x
<1>8. CASE Become(v)
  <2>1. Shape(v)
    BY <1>1, <1>3, <1>5, <1>6, NoLuckIs, ActionShape
  <2>2. Sound(Now) => Sound(v)
    BY <1>6, NoLuckIs, ActionSound
  <2> HIDE DEF v
  <2> QED BY <1>8, <2>1, <2>2, Becomes
<1> QED BY <1>4, <1>7, <1>8 DEF w, f, x

LEMMA FleetsSplitKeeps ==
  ASSUME IInv, NEW k \in 2 .. Len(fleet), FleetsSplit(k)
  PROVE  IInv'
<1> DEFINE n == Len(fleet)
           f == fleet[k]
<1>1. PICK ships \in SUBSET (f.ships \cap Mover) :
        /\ Len(fleet) <= MaxFleets
        /\ Become(FleetSet(FleetAdd(Now, [f EXCEPT !.ships = ships]), k, [f EXCEPT !.ships = f.ships \ ships]))
  BY DEF FleetsSplit
<1> DEFINE a == [f EXCEPT !.ships = ships]
           g == [f EXCEPT !.ships = f.ships \ ships]
           u == FleetAdd(Now, a)
           w == FleetSet(u, k, g)
<1>2. /\ k \in DOMAIN fleet /\ f \in Fleet /\ f.order # "main" /\ f.ships \in SUBSET Ship
      /\ Shape(Now) /\ Now \in World /\ Now.fleet = fleet /\ n \in Nat /\ DOMAIN fleet = 1 .. n /\ k \in 2 .. n + 1
      /\ Len(Now.fleet) <= MaxFleets /\ k \in Nat \ {0}
  BY <1>1, NowIs, Holds
<1> HIDE DEF f
<1>3. /\ a \in Fleet /\ a.ships = ships /\ a.order = f.order /\ a.time = f.time
      /\ g \in Fleet /\ g.ships = f.ships \ ships /\ g.order = f.order /\ g.time = f.time
  BY <1>2 DEF Fleet
<1> HIDE DEF a, g
<1>4. /\ u \in World /\ u.planet = Now.planet /\ u.gone = Now.gone /\ Len(u.fleet) = n + 1 /\ DOMAIN u.fleet = 1 .. n + 1
      /\ \A i \in DOMAIN fleet : u.fleet[i] = fleet[i]
      /\ u.fleet[n + 1] = a
  <2>1. /\ u \in World /\ u.planet = Now.planet /\ u.gone = Now.gone
        /\ Len(u.fleet) = Len(Now.fleet) + 1 /\ DOMAIN u.fleet = 1 .. Len(Now.fleet) + 1
        /\ \A i \in DOMAIN Now.fleet : u.fleet[i] = Now.fleet[i]
        /\ u.fleet[Len(Now.fleet) + 1] = a
    BY <1>2, <1>3, AddIs
  <2> QED BY <1>2, <2>1
<1>5. Shape(u)
  BY <1>2, <1>3, ShapeAdd
<1> HIDE DEF u
<1>6. /\ w.planet = u.planet /\ w.gone = u.gone /\ DOMAIN w.fleet = DOMAIN u.fleet
      /\ \A i \in DOMAIN u.fleet : w.fleet[i] = IF i = k THEN g ELSE u.fleet[i]
  <2>1. u \in World /\ k \in Nat \ {0} /\ g \in Fleet /\ w = FleetSet(u, k, g)
    BY <1>2, <1>3, <1>4
  <2> HIDE DEF w
  <2>2. /\ w \in World /\ w.planet = u.planet /\ w.gone = u.gone
        /\ Len(w.fleet) = Len(u.fleet) /\ DOMAIN w.fleet = DOMAIN u.fleet
        /\ \A i \in DOMAIN u.fleet : w.fleet[i] = IF i = k THEN g ELSE u.fleet[i]
    <3> HIDE DEF g, u, f, n
    <3>1. WrittenTo(u, w, k, g)
      BY <2>1, SetWrites
    <3> QED BY <3>1 DEF WrittenTo
  <2> QED BY <2>2
<1>7. Shape(w)
  <2>1. k \in 2 .. Len(u.fleet) /\ g.order # "main"
    BY <1>2, <1>3, <1>4
  <2> QED BY <1>3, <1>5, <2>1, SetSound
<1> HIDE DEF w, n
<1>8. ASSUME Sound(Now) PROVE Sound(w)
  <2>1. k \in DOMAIN Now.fleet /\ ships \in SUBSET Now.fleet[k].ships /\ Kept(Now, DOMAIN Now.fleet)
    BY <1>2, <1>8 DEF Sound, f
  <2>2. w.planet = Now.planet /\ w.gone = Now.gone /\ DOMAIN w.fleet = 1 .. Len(Now.fleet) + 1
    BY <1>2, <1>4, <1>6 DEF n
  <2>3. \A i \in DOMAIN Now.fleet :
           w.fleet[i].ships = IF i = k THEN Now.fleet[k].ships \ ships ELSE Now.fleet[i].ships
    <3> TAKE i \in DOMAIN Now.fleet
    <3>1. i \in DOMAIN fleet /\ i \in DOMAIN u.fleet
      BY <1>2, <1>4
    <3>2. u.fleet[i] = fleet[i] /\ w.fleet[i] = IF i = k THEN g ELSE u.fleet[i]
      BY <1>4, <1>6, <3>1
    <3> QED BY <1>2, <1>3, <3>2 DEF f
  <2>4. w.fleet[Len(Now.fleet) + 1].ships = ships
    BY <1>2, <1>3, <1>4, <1>6 DEF n
  <2>9. Divided(Now, k, ships, w)
    BY <2>1, <2>2, <2>3, <2>4 DEF Divided
  <2>5. Kept(w, DOMAIN w.fleet)
    BY <1>2, <2>1, <2>9, KeptDivided
  <2>6. \A i \in DOMAIN Now.fleet : Timed(Now.fleet[i])
    BY <1>8 DEF Sound
  <2>7. Timed(f) /\ Timed(a) /\ Timed(g)
    BY <1>2, <1>3, <2>6 DEF Timed, f
  <2>8. \A i \in DOMAIN w.fleet : Timed(w.fleet[i])
    <3> TAKE i \in DOMAIN w.fleet
    <3>1. i = n + 1 \/ i \in DOMAIN fleet
      BY <1>2, <1>4, <1>6
    <3> QED BY <1>2, <1>4, <1>6, <2>6, <2>7, <3>1
  <2> QED BY <2>5, <2>8 DEF Sound
<1> QED BY <1>1, <1>7, <1>8, Becomes DEF w, u, a, g

\* A fleet that is sent to merge; its own merge is called off first.
LEMMA CallOffForIs ==
  ASSUME NEW w, Shape(w), NEW k \in DOMAIN w.fleet
  PROVE  LET v == CallOffFor(w, k) IN
         Shape(v) /\ Len(v.fleet) = Len(w.fleet) /\ (Sound(w) => Sound(v))
BY CallOffIs, CallOffSound DEF CallOffFor

LEMMA FleetsMergeKeeps ==
  ASSUME IInv, NEW i \in 2 .. Len(fleet), NEW k \in 2 .. Len(fleet), FleetsMerge(i, k)
  PROVE  IInv'
<1> DEFINE c == CallOffFor(Now, i)
           w == CallOffFor(c, k)
           To(f, p, t) == [f EXCEPT !.order = "merge", !.dest = p, !.time = t]
<1>1. PICK p \in Planet, t1, t2 \in 1 .. MaxTime :
        i # k /\ Become([w EXCEPT !.fleet[i] = To(w.fleet[i], p, t1), !.fleet[k] = To(w.fleet[k], p, t2)])
  BY DEF FleetsMerge
<1> DEFINE fi == To(w.fleet[i], p, t1)
           fk == To(w.fleet[k], p, t2)
           x == FleetSet(w, i, fi)
           y == FleetSet(x, k, fk)
<1>2. Shape(Now) /\ Now.fleet = fleet /\ i \in DOMAIN Now.fleet
  BY NowIs
<1>3. Shape(c) /\ Len(c.fleet) = Len(fleet) /\ (Sound(Now) => Sound(c))
  BY <1>2, CallOffForIs
<1> HIDE DEF c
<1>4. k \in DOMAIN c.fleet
  BY <1>3, Holds
<1>5. Shape(w) /\ Len(w.fleet) = Len(fleet) /\ (Sound(Now) => Sound(w))
  BY <1>3, <1>4, CallOffForIs
<1> HIDE DEF w
<1>6. i \in 2 .. Len(w.fleet) /\ k \in 2 .. Len(w.fleet) /\ i \in DOMAIN w.fleet /\ k \in DOMAIN w.fleet
  BY <1>5, Holds
<1>7. \A f \in Fleet, t \in 1 .. MaxTime :
         To(f, p, t) \in Fleet /\ To(f, p, t).order = "merge" /\ To(f, p, t).ships = f.ships /\ To(f, p, t).time = t
  <2> TAKE f \in Fleet, t \in 1 .. MaxTime
  <2>1. "merge" \in Away \cup {"main"} /\ t \in -1 .. MaxTime
    BY Times DEF Away
  <2> QED BY <2>1 DEF Fleet
<1> HIDE DEF To
<1>8. /\ fi \in Fleet /\ fi.order # "main" /\ fi.ships = w.fleet[i].ships /\ Timed(fi)
      /\ fk \in Fleet /\ fk.order # "main" /\ fk.ships = w.fleet[k].ships /\ Timed(fk)
  <2>1. w.fleet[i] \in Fleet /\ w.fleet[k] \in Fleet
    BY <1>5, <1>6, Holds
  <2> QED BY <1>7, <2>1 DEF Timed
<1>9. [w EXCEPT !.fleet[i] = fi, !.fleet[k] = fk] = y
  <2> HIDE DEF fi, fk
  <2>1. ~(i > Len(w.fleet)) /\ w \in World
    BY <1>5, <1>6, Holds
  <2>2. x = [w EXCEPT !.fleet[i] = fi]
    BY <2>1 DEF FleetSet
  <2>3. w.fleet \in Seq(Fleet) /\ i \in DOMAIN w.fleet
    BY <1>5, <1>6, Holds
  <2>4. Len(x.fleet) = Len(w.fleet)
    BY <1>5, <1>6, <1>8, SetSound
  <2>5. ~(k > Len(x.fleet))
    BY <1>5, <1>6, <2>4, Holds
  <2>6. y = [x EXCEPT !.fleet[k] = fk]
    BY <2>5 DEF FleetSet
  <2> QED BY <2>1, <2>2, <2>6 DEF World
<1> HIDE DEF fi, fk
<1>10. Shape(x) /\ Len(x.fleet) = Len(w.fleet) /\ x.fleet[k] = w.fleet[k] /\ (Sound(Now) => Sound(x))
  BY <1>1, <1>5, <1>6, <1>8, SetSound
<1> HIDE DEF x
<1>11. Shape(y) /\ (Sound(Now) => Sound(y))
  <2>1. k \in 2 .. Len(x.fleet) /\ fk.ships = x.fleet[k].ships
    BY <1>6, <1>8, <1>10
  <2> QED BY <1>8, <1>10, <2>1, SetSound
<1> HIDE DEF y
<1>12. Become(y)
  BY <1>1, <1>9 DEF fi, fk
<1> QED BY <1>11, <1>12, Becomes

LEMMA SettledKeeps ==
  ASSUME IInv, NEW p \in Planet, Settled(p)
  PROVE  IInv'
<1> DEFINE x == [planet[p] EXCEPT !.owner = "foe"]
           w == [Now EXCEPT !.planet[p] = x]
<1>1. Shape(Now) /\ Now \in World /\ Now.planet = planet /\ Now.fleet = fleet /\ Now.gone = gone /\ planet \in [Planet -> Place]
  BY NowIs, Holds
<1>2. x \in Place /\ x.ships = planet[p].ships
  BY <1>1 DEF Place
<1>3. planet[p].ships = {}
  BY <1>1 DEF Settled, Shape
<1> HIDE DEF x
<1>7. Shape(w)
  BY <1>1, <1>2, <1>3, ShapePlanet
<1>4. w.planet = [planet EXCEPT ![p] = x] /\ w.gone = gone /\ w.fleet = fleet
  BY <1>1, <1>2, PlanetIs
<1>5. Become(w)
  BY <1>4 DEF Settled, Become, Written, x
<1>6. ASSUME Sound(Now) PROVE Sound(w)
  <2>1. Kept(w, DOMAIN Now.fleet)
    BY <1>1, <1>2, <1>6, KeptPlanet DEF Sound
  <2> QED BY <1>1, <1>4, <1>6, <2>1 DEF Sound
<1> HIDE DEF w
<1> QED BY <1>5, <1>6, <1>7, Becomes

LEMMA DisbandKeeps ==
  ASSUME IInv, NEW k \in DOMAIN fleet, Disband(k)
  PROVE  IInv'
<1> DEFINE f == fleet[k]
<1>1. PICK s \in f.ships : Become(Destroy(FleetSet(Now, k, [f EXCEPT !.ships = f.ships \ {s}]), {s}))
  BY DEF Disband
<1> DEFINE g == [f EXCEPT !.ships = f.ships \ {s}]
           u == FleetSet(Now, k, g)
           w == Destroy(u, {s})
<1>2. /\ Shape(Now) /\ Now \in World /\ Now.fleet = fleet /\ k \in Nat \ {0} /\ f \in Fleet /\ f.ships \in SUBSET Ship
      /\ (f.order = "main" <=> k = 1) /\ s \in Ship
  BY <1>1, NowIs, Holds
<1>3. g \in Fleet /\ g.ships = f.ships \ {s} /\ g.order = f.order /\ g.time = f.time
  <2> HIDE DEF f
  <2> QED BY <1>2 DEF Fleet
<1> HIDE DEF g
<1>4. Shape(u)
  BY <1>2, <1>3, ShapeSet
<1>5. /\ u \in World /\ u.planet = Now.planet /\ u.gone = Now.gone /\ DOMAIN u.fleet = DOMAIN Now.fleet
      /\ \A i \in DOMAIN Now.fleet : u.fleet[i] = IF i = k THEN g ELSE Now.fleet[i]
  <2>1. Now \in World /\ k \in Nat \ {0} /\ g \in Fleet
    BY <1>2, <1>3
  <2> QED BY <2>1, SetIs
<1> HIDE DEF u
<1>6. Shape(w)
  BY <1>2, <1>4, ShapeDestroy
<1>7. w.planet = u.planet /\ w.gone = u.gone \cup {s} /\ w.fleet = u.fleet
  BY <1>2, <1>5, DestroyIs
<1> HIDE DEF w
<1>8. ASSUME Sound(Now) PROVE Sound(w)
  <2> DEFINE D == DOMAIN Now.fleet
  <2>1. Kept(Now, D)
    BY <1>8 DEF Sound
  <2>2. k \in D /\ s \in Now.fleet[k].ships
    BY <1>1, <1>2
  <2> HIDE DEF D
  <2>3. \A i \in D : i # k => s \notin Now.fleet[i].ships
    BY <1>2, <2>1, <2>2 DEF Kept
  <2>4. \A q \in Planet : s \notin Now.planet[q].ships
    BY <1>2, <2>1, <2>2 DEF Kept
  <2>5. \A i \in D : w.fleet[i].ships = Now.fleet[i].ships \ {s}
    BY <1>2, <1>3, <1>5, <1>7, <2>3 DEF D
  <2>6. (\A q \in Planet : w.planet[q].ships = Now.planet[q].ships \ {s}) /\ w.gone = Now.gone \cup {s} /\ {s} \in SUBSET Ship
    BY <1>2, <1>5, <1>7, <2>4
  <2>9. Less(Now, D, {s}, w)
    BY <2>5, <2>6 DEF Less
  <2>7. Kept(w, D)
    BY <2>1, <2>6, <2>9, KeptLess
  <2>8. \A i \in D : Timed(w.fleet[i])
    <3>1. \A i \in D : Timed(Now.fleet[i])
      BY <1>8 DEF Sound, D
    <3> QED BY <1>2, <1>3, <1>5, <1>7, <2>2, <3>1 DEF Timed, D
  <2> QED BY <1>5, <1>7, <2>7, <2>8 DEF Sound, D
<1> QED BY <1>1, <1>6, <1>8, Becomes DEF w, u, g

LEMMA BuiltKeeps ==
  ASSUME IInv, Built
  PROVE  IInv'
<1>1. PICK s \in gone : fleet' = [fleet EXCEPT ![1].ships = fleet[1].ships \cup {s}]
                        /\ gone' = gone \ {s} /\ UNCHANGED <<planet, crossed>>
  BY DEF Built
<1> DEFINE u == [Now EXCEPT !.fleet[1].ships = Now.fleet[1].ships \cup {s}]
           g == [Now.fleet[1] EXCEPT !.ships = Now.fleet[1].ships \cup {s}]
           w == [u EXCEPT !.gone = gone \ {s}]
<1>2. /\ Shape(Now) /\ Now \in World /\ Now.fleet = fleet /\ Now.gone = gone /\ Now.planet = planet /\ gone \in SUBSET Ship
      /\ Now.fleet[1] \in Fleet /\ Now.fleet[1].ships \cup {s} \in SUBSET Ship /\ 1 \in DOMAIN Now.fleet
  BY NowIs, Holds
<1>3. u = FleetSet(Now, 1, g) /\ Shape(u)
  BY <1>2, MainIs
<1>4. g \in Fleet /\ g.ships = Now.fleet[1].ships \cup {s} /\ g.order = Now.fleet[1].order
  <2> DEFINE m == Now.fleet[1]
  <2>1. m \in Fleet /\ m.ships \cup {s} \in SUBSET Ship
    BY <1>2
  <2> HIDE DEF m
  <2>2. [m EXCEPT !.ships = m.ships \cup {s}] \in Fleet
    BY <2>1 DEF Fleet
  <2> QED BY <2>1, <2>2 DEF Fleet, m
<1>5. u.fleet = fleet' /\ u.planet = planet /\ u.gone = gone
  BY <1>1, <1>2 DEF World
<1> HIDE DEF u, g
<1>6. /\ u.fleet = fleet' /\ DOMAIN u.fleet = DOMAIN fleet /\ u \in World
      /\ \A i \in DOMAIN fleet : u.fleet[i] = IF i = 1 THEN g ELSE fleet[i]
  <2>1. Now \in World /\ 1 \in Nat \ {0} /\ g \in Fleet
    BY <1>2, <1>4
  <2>2. /\ DOMAIN u.fleet = DOMAIN Now.fleet /\ u \in World
        /\ \A i \in DOMAIN Now.fleet : u.fleet[i] = IF i = 1 THEN g ELSE Now.fleet[i]
    BY <1>3, <2>1, IsSet
  <2> QED BY <1>2, <1>5, <2>2
<1>7. w \in World /\ w.fleet = u.fleet /\ w.planet = planet /\ w.gone = gone \ {s}
  BY <1>2, <1>5, <1>6 DEF World
<1> HIDE DEF w
<1>8. Shape(w)
  BY <1>3, <1>5, <1>7 DEF Shape
<1>9. Become(w)
  BY <1>1, <1>6, <1>7 DEF Become, Written
<1>10. ASSUME Sound(Now) PROVE Sound(w)
  <2> DEFINE D == DOMAIN fleet
  <2>1. Kept(Now, D) /\ \A i \in D : Timed(fleet[i])
    BY <1>2, <1>10 DEF Sound
  <2>2. 1 \in D /\ s \in Ship
    BY <1>2
  <2> HIDE DEF D
  <2>3. \A i \in D : w.fleet[i].ships = IF i = 1 THEN fleet[1].ships \cup {s} ELSE fleet[i].ships
    BY <1>2, <1>4, <1>6, <1>7 DEF D
  <2>4. /\ \A i \in D : s \notin fleet[i].ships
        /\ \A q \in Planet : s \notin planet[q].ships
    BY <1>2, <2>1 DEF Kept
  <2>5. Kept(w, D)
    BY <1>2, <1>7, <2>1, <2>2, <2>3, <2>4 DEF Kept
  <2>6. \A i \in D : Timed(w.fleet[i])
    <3> TAKE i \in D
    <3>1. CASE i = 1
      BY <1>8, <3>1, Holds DEF Timed
    <3>2. CASE i # 1
      BY <1>6, <1>7, <2>1, <3>2 DEF D
    <3> QED BY <3>1, <3>2
  <2> QED BY <1>6, <1>7, <2>5, <2>6 DEF Sound, D
<1> QED BY <1>8, <1>9, <1>10, Becomes

LEMMA WaitingIs ==
  ASSUME NEW p \in Planet, NEW ships \in SUBSET Ship
  PROVE  LET f == Waiting(p, ships) IN f \in Fleet /\ f.ships = ships /\ f.order # "main" /\ Timed(f)
BY Times DEF Waiting, Fleet, Away, Timed

LEMMA UnstationKeeps ==
  ASSUME IInv, NEW p \in Planet, Unstation(p)
  PROVE  IInv'
<1> DEFINE x == [planet[p] EXCEPT !.ships = {}]
           u == [Now EXCEPT !.planet[p] = x]
           f == Waiting(p, planet[p].ships)
           w == FleetAdd(u, f)
<1>1. Become(w) /\ Len(fleet) <= MaxFleets
  BY DEF Unstation, Now
<1>2. /\ Shape(Now) /\ Now \in World /\ Now.planet = planet /\ Now.fleet = fleet /\ Now.gone = gone
      /\ planet \in [Planet -> Place] /\ Len(fleet) \in Nat /\ DOMAIN fleet = 1 .. Len(fleet)
  BY NowIs, Holds
<1>3. x \in Place /\ x.ships = {} /\ planet[p].ships \in SUBSET Ship
  BY <1>2 DEF Place
<1>4. f \in Fleet /\ f.ships = planet[p].ships /\ f.order # "main" /\ Timed(f)
  BY <1>3, WaitingIs
<1> HIDE DEF x, f
<1>5. Shape(u)
  BY <1>2, <1>3, ShapePlanet
<1>6. u \in World /\ u.planet = [planet EXCEPT ![p] = x] /\ u.gone = gone /\ u.fleet = fleet
  BY <1>2, <1>3, PlanetIs
<1> HIDE DEF u
<1>7. Shape(w)
  BY <1>1, <1>4, <1>5, <1>6, ShapeAdd
<1>8. /\ w.planet = u.planet /\ w.gone = u.gone /\ DOMAIN w.fleet = 1 .. Len(fleet) + 1
      /\ \A i \in DOMAIN fleet : w.fleet[i] = fleet[i]
      /\ w.fleet[Len(fleet) + 1] = f
  BY <1>4, <1>6, AddIs
<1> HIDE DEF w
<1>9. ASSUME Sound(Now) PROVE Sound(w)
  <2>1. \A q \in Planet : w.planet[q].ships = IF q = p THEN {} ELSE planet[q].ships
    BY <1>2, <1>3, <1>6, <1>8
  <2>2. Launched(Now, p, w)
    BY <1>2, <1>4, <1>6, <1>8, <2>1 DEF Launched
  <2>3. Kept(w, DOMAIN w.fleet)
    BY <1>2, <1>9, <2>2, KeptLaunched DEF Sound
  <2>4. \A i \in DOMAIN w.fleet : i \in DOMAIN fleet \/ i = Len(fleet) + 1
    BY <1>2, <1>8
  <2>5. \A i \in DOMAIN fleet : Timed(fleet[i])
    BY <1>2, <1>9 DEF Sound
  <2>6. \A i \in DOMAIN w.fleet : Timed(w.fleet[i])
    BY <1>4, <1>8, <2>4, <2>5
  <2> QED BY <2>3, <2>6 DEF Sound
<1> QED BY <1>1, <1>7, <1>9, Becomes

LEMMA AttackedKeeps ==
  ASSUME IInv, NEW p \in Planet, Attacked(p)
  PROVE  IInv'
<1> DEFINE at(o, ships) == [owner |-> o, ships |-> ships]
<1>1. PICK dead \in SUBSET ((planet[p].ships \cup fleet[1].ships) \cap Mover), falls \in BOOLEAN :
        LET left == planet[p].ships \ dead
            w    == Destroy([Now EXCEPT !.fleet[1].ships = fleet[1].ships \ dead,
                                        !.planet[p] = IF falls THEN at("foe", {}) ELSE at("me", left)], dead)
        IN /\ planet[p].owner = "me"
           /\ falls /\ left # {} => Len(fleet) <= MaxFleets
           /\ Become(IF falls /\ left # {} THEN FleetAdd(w, Waiting(p, left)) ELSE w)
  BY DEF Attacked
<1> DEFINE left == planet[p].ships \ dead
           g == [Now.fleet[1] EXCEPT !.ships = Now.fleet[1].ships \ dead]
           u == [Now EXCEPT !.fleet[1].ships = Now.fleet[1].ships \ dead]
           v(x) == Destroy([u EXCEPT !.planet[p] = x], dead)
           w == v(IF falls THEN at("foe", {}) ELSE at("me", left))
           f == Waiting(p, left)
<1>2. /\ Shape(Now) /\ Now \in World /\ Now.planet = planet /\ Now.fleet = fleet /\ Now.gone = gone
      /\ planet \in [Planet -> Place] /\ Len(fleet) \in Nat /\ DOMAIN fleet = 1 .. Len(fleet) /\ 1 \in DOMAIN fleet
      /\ Now.fleet[1] \in Fleet /\ Now.fleet[1].ships \in SUBSET Ship
  BY NowIs, Holds
<1>3. left \in SUBSET Ship /\ dead \in SUBSET Ship /\ planet[p].ships \in SUBSET Ship
  BY <1>2 DEF Place, Mover
<1>4. f \in Fleet /\ f.ships = left /\ f.order # "main" /\ Timed(f)
  BY <1>3, WaitingIs
<1>5. Become(IF falls /\ left # {} THEN FleetAdd(w, f) ELSE w) /\ (falls /\ left # {} => Len(fleet) <= MaxFleets)
  BY <1>1, <1>2
<1>6. at("me", left) \in Place /\ at("foe", {}) \in Place /\ at("me", left).ships = left /\ at("foe", {}).ships = {}
  BY <1>3 DEF Place
<1> HIDE DEF f
<1>7. u = FleetSet(Now, 1, g) /\ Shape(u)
  BY <1>2, MainIs
<1>8. g \in Fleet /\ g.ships = Now.fleet[1].ships \ dead
  <2> DEFINE m == Now.fleet[1]
  <2>1. m \in Fleet /\ m.ships \in SUBSET Ship
    BY <1>2
  <2> HIDE DEF m
  <2>2. [m EXCEPT !.ships = m.ships \ dead] \in Fleet /\ [m EXCEPT !.ships = m.ships \ dead].ships = m.ships \ dead
    BY <2>1 DEF Fleet
  <2> QED BY <2>2 DEF m
<1> HIDE DEF u, g
<1>9. /\ u \in World /\ u.planet = planet /\ u.gone = gone /\ Len(u.fleet) = Len(fleet) /\ DOMAIN u.fleet = DOMAIN fleet
      /\ \A i \in DOMAIN fleet : u.fleet[i] = IF i = 1 THEN g ELSE fleet[i]
  <2>1. Now \in World /\ 1 \in Nat \ {0} /\ g \in Fleet
    BY <1>2, <1>8
  <2>2. /\ u \in World /\ u.planet = Now.planet /\ u.gone = Now.gone
        /\ Len(u.fleet) = Len(Now.fleet) /\ DOMAIN u.fleet = DOMAIN Now.fleet
        /\ \A i \in DOMAIN Now.fleet : u.fleet[i] = IF i = 1 THEN g ELSE Now.fleet[i]
    BY <1>7, <2>1, IsSet
  <2> QED BY <1>2, <2>2
<1>10. ASSUME NEW x \in Place, x.ships # {} => x.owner = "me"
       PROVE  /\ Shape(v(x)) /\ v(x).planet = [planet EXCEPT ![p] = x] /\ v(x).gone = gone \cup dead /\ v(x).fleet = u.fleet
  <2> DEFINE y == [u EXCEPT !.planet[p] = x]
  <2>1. Shape(y)
    BY <1>7, <1>10, ShapePlanet
  <2>2. y \in World /\ y.planet = [planet EXCEPT ![p] = x] /\ y.gone = gone /\ y.fleet = u.fleet
    BY <1>9, <1>10, PlanetIs
  <2> HIDE DEF y
  <2>3. Shape(Destroy(y, dead))
    BY <1>3, <2>1, ShapeDestroy
  <2>4. /\ Destroy(y, dead).planet = y.planet /\ Destroy(y, dead).gone = y.gone \cup dead
        /\ Destroy(y, dead).fleet = y.fleet
    BY <1>3, <2>2, DestroyIs
  <2> QED BY <2>2, <2>3, <2>4 DEF y
<1> HIDE DEF v
<1>11. ASSUME NEW x \in Place, x.ships = left, x.ships # {} => x.owner = "me", Sound(Now)
       PROVE  Sound(v(x))
  <2> DEFINE D == DOMAIN fleet
             z == v(x)
  <2>1. Kept(Now, D) /\ \A i \in D : Timed(fleet[i])
    BY <1>2, <1>11 DEF Sound
  <2>2. 1 \in D /\ D \subseteq DOMAIN Now.fleet
    BY <1>2
  <2>3. Shape(z) /\ z.planet = [planet EXCEPT ![p] = x] /\ z.gone = gone \cup dead /\ z.fleet = u.fleet /\ DOMAIN z.fleet = D
    BY <1>9, <1>10, <1>11
  <2> HIDE DEF D, z
  <2>4. \A s \in dead, i \in D : i # 1 => s \notin fleet[i].ships
    BY <1>2, <1>3, <2>1, <2>2 DEF Kept
  <2>5. \A s \in dead, q \in Planet : q # p => s \notin planet[q].ships
    BY <1>2, <1>3, <2>1, <2>2 DEF Kept
  <2>6. \A i \in D : z.fleet[i].ships = Now.fleet[i].ships \ dead
    BY <1>2, <1>8, <1>9, <2>3, <2>4 DEF D
  <2>7. \A q \in Planet : z.planet[q].ships = Now.planet[q].ships \ dead
    BY <1>2, <1>11, <2>3, <2>5
  <2>8. Less(Now, D, dead, z)
    BY <1>2, <2>3, <2>6, <2>7 DEF Less
  <2>9. Kept(z, D)
    BY <1>3, <2>1, <2>8, KeptLess
  <2>10. \A i \in D : Timed(z.fleet[i])
    <3> TAKE i \in D
    <3>1. CASE i = 1
      BY <2>3, <3>1, Holds DEF Timed
    <3>2. CASE i # 1
      BY <1>9, <2>1, <2>3, <3>2 DEF D
    <3> QED BY <3>1, <3>2
  <2>11. Sound(z)
    BY <2>3, <2>9, <2>10 DEF Sound
  <2> QED BY <2>11 DEF z
<1> DEFINE y == v(at("me", left))
<1>12. Shape(y) /\ (Sound(Now) => Sound(y)) /\ y.planet = [planet EXCEPT ![p] = at("me", left)] /\ y.gone = gone \cup dead
       /\ y.fleet = u.fleet
  BY <1>6, <1>10, <1>11
<1>13. /\ Shape(w) /\ w.fleet = u.fleet /\ w.gone = gone \cup dead
       /\ falls => w.planet = [planet EXCEPT ![p] = at("foe", {})]
       /\ ~falls \/ left = {} => (Sound(Now) => Sound(w))
  <2>1. CASE falls
    BY <1>6, <1>10, <1>11, <2>1
  <2>2. CASE ~falls
    BY <1>12, <2>2
  <2> QED BY <2>1, <2>2
<1> HIDE DEF w, y
<1>14. CASE ~(falls /\ left # {})
  BY <1>5, <1>13, <1>14, Becomes
<1>15. CASE falls /\ left # {}
  <2> DEFINE z == FleetAdd(w, f)
  <2>1. Len(w.fleet) <= MaxFleets /\ w \in World /\ Len(w.fleet) = Len(fleet)
    BY <1>5, <1>9, <1>13, <1>15, Holds
  <2>2. Shape(z)
    BY <1>4, <1>13, <2>1, ShapeAdd
  <2>3. /\ z.planet = w.planet /\ z.gone = w.gone /\ DOMAIN z.fleet = 1 .. Len(w.fleet) + 1
        /\ \A i \in DOMAIN w.fleet : z.fleet[i] = w.fleet[i]
        /\ z.fleet[Len(w.fleet) + 1] = f
    BY <1>4, <2>1, AddIs
  <2> HIDE DEF z
  <2>4. ASSUME Sound(Now) PROVE Sound(z)
    <3>1. Kept(y, DOMAIN y.fleet) /\ \A i \in DOMAIN y.fleet : Timed(y.fleet[i])
      BY <1>12, <2>4 DEF Sound
    <3>2. \A q \in Planet : z.planet[q].ships = IF q = p THEN {} ELSE y.planet[q].ships
      <4>1. /\ z.planet = [planet EXCEPT ![p] = at("foe", {})] /\ y.planet = [planet EXCEPT ![p] = at("me", left)]
            /\ at("foe", {}).ships = {} /\ planet \in [Planet -> Place]
        BY <1>2, <1>6, <1>12, <1>13, <1>15, <2>3
      <4> HIDE DEF at
      <4> QED BY <4>1
    <3>3. y.planet[p].ships = left
      BY <1>2, <1>6, <1>12
    <3>8. /\ z.gone = y.gone /\ DOMAIN z.fleet = 1 .. Len(y.fleet) + 1
          /\ \A i \in DOMAIN y.fleet : z.fleet[i] = y.fleet[i]
          /\ z.fleet[Len(y.fleet) + 1].ships = y.planet[p].ships
      BY <1>4, <1>12, <1>13, <2>3, <3>3
    <3>4. Launched(y, p, z)
      BY <3>2, <3>8 DEF Launched
    <3>5. Kept(z, DOMAIN z.fleet)
      BY <1>12, <3>1, <3>4, KeptLaunched
    <3>6. \A i \in DOMAIN z.fleet : i \in DOMAIN w.fleet \/ i = Len(w.fleet) + 1
      BY <1>9, <1>13, <1>2, <2>3
    <3>7. \A i \in DOMAIN z.fleet : Timed(z.fleet[i])
      BY <1>4, <1>12, <1>13, <2>3, <3>1, <3>6
    <3> QED BY <3>5, <3>7 DEF Sound
  <2>5. Become(z)
    BY <1>5, <1>15 DEF z
  <2> QED BY <2>2, <2>4, <2>5, Becomes
<1> QED BY <1>14, <1>15

(* A fleet none of whose ships counts any more is removed. *)
LEMMA RemoveSound ==
  ASSUME NEW w, Shape(w), NEW k \in 2 .. Len(w.fleet), Kept(w, DOMAIN w.fleet \ {k}),
         \A i \in DOMAIN w.fleet \ {k} : Timed(w.fleet[i])
  PROVE  Shape(FleetRemove(w, k)) /\ Sound(FleetRemove(w, k))
<1> DEFINE v == FleetRemove(w, k)
           n == Len(w.fleet)
<1>1. w \in World /\ k \in 1 .. Len(w.fleet) /\ k \in Nat /\ k >= 2 /\ n \in Nat /\ DOMAIN w.fleet = 1 .. n
  BY Holds
<1>2. Shape(v)
  BY <1>1, ShapeRemove
<1>3. Kept(v, DOMAIN v.fleet)
  BY <1>1, KeptRemove
<1>4. /\ DOMAIN v.fleet = 1 .. Len(w.fleet) - 1
      /\ \A i \in DOMAIN v.fleet : v.fleet[i] = w.fleet[IF i = k THEN Len(w.fleet) ELSE i]
  BY <1>1, RemoveIs
<1> HIDE DEF v
<1>5. \A i \in DOMAIN v.fleet : Timed(v.fleet[i])
  <2> TAKE i \in DOMAIN v.fleet
  <2> DEFINE j == IF i = k THEN n ELSE i
  <2>1. j \in DOMAIN w.fleet \ {k} /\ v.fleet[i] = w.fleet[j]
    BY <1>1, <1>4
  <2> QED BY <2>1
<1>6. Sound(v)
  BY <1>3, <1>5 DEF Sound
<1> QED BY <1>2, <1>6 DEF v

(* The battle itself, before the player's standing order is followed. *)
Fought(k, left) ==
  LET f == [fleet[k] EXCEPT !.ships = left]
      w == Destroy(Now, fleet[k].ships \ left)
  IN IF left = {} THEN FleetRemove(w, k) ELSE FleetSet(w, k, f)

LEMMA FoughtKeeps ==
  ASSUME IInv, NEW k \in 2 .. Len(fleet), NEW left \in SUBSET fleet[k].ships
  PROVE  LET u == Fought(k, left)
             f == [fleet[k] EXCEPT !.ships = left]
         IN /\ Shape(u) /\ (Sound(Now) => Sound(u)) /\ u.planet = planet
            /\ f \in Fleet /\ f.dest = fleet[k].dest /\ f.order = fleet[k].order /\ f.ships = left
            /\ left # {} => k \in 2 .. Len(u.fleet) /\ u.fleet[k] = f
<1> DEFINE h == fleet[k]
           f == [h EXCEPT !.ships = left]
           dead == h.ships \ left
           w == Destroy(Now, dead)
           u == Fought(k, left)
<1>1. /\ Shape(Now) /\ Now \in World /\ Now.planet = planet /\ Now.fleet = fleet /\ Now.gone = gone
      /\ k \in DOMAIN fleet /\ k \in Nat \ {0} /\ k >= 2 /\ h \in Fleet /\ h.ships \in SUBSET Ship /\ h.order # "main"
      /\ DOMAIN fleet = 1 .. Len(fleet) /\ left \in SUBSET Ship
  BY NowIs, Holds
<1>2. f \in Fleet /\ f.dest = h.dest /\ f.order = h.order /\ f.ships = left /\ f.time = h.time
  <2> HIDE DEF h
  <2> QED BY <1>1 DEF Fleet
<1>3. u = IF left = {} THEN FleetRemove(w, k) ELSE FleetSet(w, k, f)
  BY DEF Fought
<1> HIDE DEF f, u
<1>4. Shape(w) /\ w \in World /\ w.planet = planet /\ w.gone = gone \cup dead /\ w.fleet = fleet
  BY <1>1, ShapeDestroy, DestroyIs
<1>5. ASSUME Sound(Now) PROVE \A i \in DOMAIN fleet : Timed(fleet[i])
  BY <1>1, <1>5 DEF Sound
<1>6. CASE left = {}
  <2>1. dead = Now.fleet[k].ships
    BY <1>1, <1>6
  <2>2. Sound(Now) => Kept(w, DOMAIN w.fleet \ {k})
    BY <1>1, <1>4, <2>1, KeptDestroyed DEF Sound
  <2> HIDE DEF w
  <2>3. k \in 2 .. Len(w.fleet)
    BY <1>4
  <2>4. Sound(Now) => Sound(FleetRemove(w, k))
    BY <1>4, <1>5, <2>2, <2>3, RemoveSound
  <2>5. Shape(FleetRemove(w, k))
    BY <1>1, <1>4, ShapeRemove
  <2>6. FleetRemove(w, k).planet = w.planet
    BY <1>1, <1>4, RemoveIs
  <2> QED BY <1>2, <1>3, <1>4, <1>6, <2>4, <2>5, <2>6 DEF f, u
<1>7. CASE left # {}
  <2>1. u = FleetSet(w, k, f)
    BY <1>3, <1>7
  <2>2. k \in 2 .. Len(w.fleet) /\ f.order # "main"
    BY <1>1, <1>2, <1>4
  <2>3. Shape(u) /\ Len(u.fleet) = Len(w.fleet) /\ u.fleet[k] = f
    BY <1>2, <1>4, <2>1, <2>2, SetSound
  <2>4. u.planet = w.planet /\ DOMAIN u.fleet = DOMAIN w.fleet /\ \A i \in DOMAIN w.fleet : u.fleet[i] = IF i = k THEN f ELSE w.fleet[i]
    <3>1. w \in World /\ k \in Nat \ {0} /\ f \in Fleet
      BY <1>1, <1>2, <1>4
    <3> HIDE DEF w
    <3> QED BY <2>1, <3>1, IsSet
  <2>5. ASSUME Sound(Now) PROVE Sound(u)
    <3>1. Kept(Now, DOMAIN Now.fleet) /\ k \in DOMAIN Now.fleet
      BY <1>1, <2>5 DEF Sound
    <3>2. f.ships = Now.fleet[k].ships \ dead /\ Now.fleet[k].ships \cap dead = dead
      BY <1>1, <1>2
    <3>3. Kept(FleetSet(Destroy(Now, Now.fleet[k].ships \cap dead), k, f), DOMAIN Now.fleet)
      <4> HIDE DEF dead, h
      <4> QED BY <1>1, <1>2, <3>1, <3>2, KeptLost
    <3>4. Kept(u, DOMAIN u.fleet)
      BY <1>1, <1>4, <2>1, <2>4, <3>2, <3>3
    <3>5. Timed(f)
      BY <1>1, <1>2, <1>5, <2>5 DEF Timed
    <3>6. \A i \in DOMAIN u.fleet : Timed(u.fleet[i])
      BY <1>4, <1>5, <2>4, <2>5, <3>5
    <3> QED BY <3>4, <3>6 DEF Sound
  <2> QED BY <1>2, <1>4, <1>7, <2>2, <2>3, <2>4, <2>5 DEF f, u
<1> QED BY <1>6, <1>7

LEMMA AttackPlanetKeeps ==
  ASSUME IInv, NEW k \in 2 .. Len(fleet), AttackPlanet(k)
  PROVE  IInv'
<1>1. PICK left \in SUBSET fleet[k].ships, won \in BOOLEAN, after \in Standing, back \in {NoPortal} \cup 0 .. MaxTime :
        /\ fleet[k].order = "attack"
        /\ planet[fleet[k].dest].owner = "foe"
        /\ won => left # {}
        /\ Become(Battle(k, left, won, after, back))
  BY DEF AttackPlanet
<1> DEFINE f == [fleet[k] EXCEPT !.ships = left]
           u == Fought(k, left)
           w == After(u, k, f, won, after, back)
<1>2. Battle(k, left, won, after, back) = w
  BY DEF Battle, Fought
<1>3. /\ Shape(u) /\ (Sound(Now) => Sound(u)) /\ u.planet = planet
      /\ f \in Fleet /\ f.dest = fleet[k].dest /\ f.order = fleet[k].order /\ f.ships = left
      /\ left # {} => k \in 2 .. Len(u.fleet) /\ u.fleet[k] = f
  BY FoughtKeeps
<1>4. k \in Nat /\ k >= 2 /\ k \in Nat \ {0} /\ back \in Back
  BY NowIs DEF Back
<1> HIDE DEF f, u
<1>5. \A v : Shape(v) => Shape(Recall(v, k, back)) /\ (Sound(v) => Sound(Recall(v, k, back)))
  BY <1>4, CalledBackShape, CalledBackSound
<1>6. CASE ~won
  <2>1. w = IF after = "recall" THEN Recall(u, k, back) ELSE u
    BY <1>6 DEF After
  <2> HIDE DEF w
  <2>2. Shape(w) /\ (Sound(Now) => Sound(w))
    BY <1>3, <1>5, <2>1
  <2> QED BY <1>1, <1>2, <2>2, Becomes
<1>7. CASE won
  <2> DEFINE p == f.dest
             x == [owner |-> "me", ships |-> {}]
             v == [u EXCEPT !.planet[p] = x]
             y == [v.planet[p] EXCEPT !.ships = left]
             z == [v EXCEPT !.planet[p] = y]
             h == [f EXCEPT !.order = "canceled", !.waits = FALSE]
  <2>1. /\ p \in Planet /\ x \in Place /\ k \in 2 .. Len(u.fleet) /\ u.fleet[k] = f /\ left \in SUBSET Ship
        /\ u \in World /\ u.planet \in [Planet -> Place]
    BY <1>1, <1>3, <1>7, Holds DEF Fleet, Place
  <2>2. u.planet[p].ships = {}
    BY <1>1, <1>3, <2>1 DEF Shape
  <2> HIDE DEF p
  <2>3. Shape(v) /\ v.planet = [u.planet EXCEPT ![p] = x] /\ v.fleet = u.fleet /\ v \in World
    <3>1. u \in World /\ p \in Planet /\ x \in Place /\ Shape(u) /\ x.owner = "me"
      BY <1>3, <2>1
    <3> HIDE DEF x
    <3>2. Shape(v)
      BY <3>1, ShapePlanet
    <3> QED BY <3>1, <3>2, PlanetIs
  <2>4. Sound(Now) => Sound(v)
    <3>1. x.ships = u.planet[p].ships
      BY <2>2
    <3> HIDE DEF x
    <3>2. Sound(u) => Kept(v, DOMAIN u.fleet)
      BY <1>3, <2>1, <3>1, KeptPlanet DEF Sound
    <3> HIDE DEF v
    <3> QED BY <1>3, <2>3, <3>2 DEF Sound
  <2>5. v.planet[p] = x
    BY <2>1, <2>3
  <2> HIDE DEF v
  <2>6. y \in Place /\ y.owner = "me" /\ y.ships = left
    BY <2>1, <2>5 DEF Place
  <2> HIDE DEF x, y
  <2>7. CASE after = "station"
    <3>1. w = FleetRemove(z, k)
      BY <1>3, <1>7, <2>7 DEF After, v, p, x, y, z
    <3>2. Shape(z) /\ z.fleet = v.fleet
      BY <2>1, <2>3, <2>6, ShapePlanet, PlanetIs
    <3>3. Sound(Now) => Kept(z, DOMAIN z.fleet \ {k}) /\ \A i \in DOMAIN z.fleet \ {k} : Timed(z.fleet[i])
      <4> SUFFICES ASSUME Sound(Now) PROVE Kept(z, DOMAIN z.fleet \ {k}) /\ \A i \in DOMAIN z.fleet \ {k} : Timed(z.fleet[i])
        OBVIOUS
      <4>1. Kept(v, DOMAIN v.fleet) /\ \A i \in DOMAIN v.fleet : Timed(v.fleet[i])
        BY <2>4 DEF Sound
      <4>2. k \in DOMAIN v.fleet /\ y.ships = v.planet[p].ships \cup v.fleet[k].ships
        BY <1>3, <2>1, <2>3, <2>5, <2>6, Holds DEF x
      <4>3. Kept(z, DOMAIN v.fleet \ {k})
        BY <2>1, <2>3, <2>6, <4>1, <4>2, KeptStationed
      <4> QED BY <3>2, <4>1, <4>3
    <3> HIDE DEF z
    <3>4. k \in 2 .. Len(z.fleet)
      BY <2>1, <2>3, <3>2
    <3>5. Shape(w) /\ (Sound(Now) => Sound(w))
      BY <1>4, <3>1, <3>2, <3>3, <3>4, ShapeRemove, RemoveSound
    <3> HIDE DEF w
    <3> QED BY <1>1, <1>2, <3>5, Becomes
  <2>8. CASE after = "wait"
    <3>1. w = FleetSet(v, k, h)
      BY <1>3, <1>7, <2>8 DEF After, v, p, x
    <3>2. h \in Fleet /\ h.order # "main" /\ h.ships = f.ships /\ Timed(h)
      <4>1. "canceled" \in Away \cup {"main"}
        BY DEF Away
      <4> QED BY <1>3, <4>1 DEF Fleet, Timed
    <3> HIDE DEF h
    <3>3. k \in 2 .. Len(v.fleet) /\ h.ships = v.fleet[k].ships
      BY <2>1, <2>3, <3>2
    <3>4. Shape(w) /\ (Sound(Now) => Sound(w))
      BY <2>3, <2>4, <3>1, <3>2, <3>3, SetSound
    <3> HIDE DEF w
    <3> QED BY <1>1, <1>2, <3>4, Becomes
  <2>9. CASE after = "recall"
    <3>1. w = Recall(v, k, back)
      BY <1>3, <1>7, <2>9 DEF After, v, p, x
    <3> HIDE DEF w
    <3>2. Shape(w) /\ (Sound(Now) => Sound(w))
      BY <1>5, <2>3, <2>4, <3>1
    <3> QED BY <1>1, <1>2, <3>2, Becomes
  <2> QED BY <2>7, <2>8, <2>9 DEF Standing
<1> QED BY <1>6, <1>7

-----------------------------------------------------------------------------
(* The walk, as the state it leaves at each position.                       *)

LEMMA Down ==
  ASSUME NEW n \in Nat, NEW S, n \in S, \A a \in 0 .. n - 1 : a + 1 \in S => a \in S
  PROVE  \A a \in 0 .. n : a \in S
<1> DEFINE T == {m \in 0 .. n : n - m \notin S}
<1>1. T \in SUBSET Nat
  OBVIOUS
<1>2. ASSUME T # {} PROVE FALSE
  <2> DEFINE m == Min(T)
  <2>1. m \in T /\ \A y \in T : m <= y
    BY <1>1, <1>2, Least
  <2> HIDE DEF m
  <2>2. m \in 0 .. n /\ n - m \notin S
    BY <2>1
  <2>3. m # 0
    BY <2>2
  <2>4. m - 1 \notin T /\ m - 1 \in 0 .. n
    BY <2>1, <2>2, <2>3
  <2>5. n - (m - 1) \in S /\ n - (m - 1) = (n - m) + 1 /\ n - m \in 0 .. n - 1
    BY <2>2, <2>3, <2>4
  <2> QED BY <2>2, <2>5
<1>3. ASSUME NEW a \in 0 .. n PROVE a \in S
  <2>1. n - a \in 0 .. n /\ n - (n - a) = a
    OBVIOUS
  <2>2. n - a \notin T
    BY <1>2
  <2> QED BY <2>1, <2>2
<1> QED BY <1>3

LEMMA WalkIs ==
  ASSUME NEW w, NEW dead, NEW luck, Len(w.fleet) \in Nat
  PROVE  \E at : /\ at[Len(w.fleet)] = w
                 /\ \A a \in 0 .. Len(w.fleet) - 1 : at[a] = Visit(w.fleet, dead, luck, at[a + 1], a + 1)
                 /\ at[0] = Walk(w, dead, luck)
<1> DEFINE n == Len(w.fleet)
           V(x, a) == Visit(w.fleet, dead, luck, x, a)
           is(k, f) == f = [a \in k .. n |-> IF a = n THEN w ELSE V(f[a + 1], a + 1)]
           S == {k \in 0 .. n : \E f : is(k, f)}
           at == CHOOSE f : is(0, f)
<1>1. Walk(w, dead, luck) = at[0]
  BY DEF Walk
<1>2. n \in Nat
  OBVIOUS
<1> HIDE DEF n, V
<1>3. n \in S
  <2> DEFINE f == [a \in n .. n |-> w]
  <2>1. \A a \in n .. n : a = n
    BY <1>2
  <2>2. is(n, f)
    BY <2>1
  <2> HIDE DEF f
  <2> QED BY <1>2, <2>2
<1>4. ASSUME NEW k \in 0 .. n - 1, k + 1 \in S PROVE k \in S
  <2>1. PICK f : is(k + 1, f)
    BY <1>4
  <2> DEFINE g == [a \in k .. n |-> IF a = k THEN V(f[k + 1], k + 1) ELSE f[a]]
             h == [a \in k .. n |-> IF a = n THEN w ELSE V(g[a + 1], a + 1)]
  <2>2. ASSUME NEW a \in k .. n PROVE g[a] = h[a]
    <3>1. CASE a = k
      <4>1. a # n /\ k + 1 \in k .. n /\ k + 1 # k
        BY <1>2, <3>1
      <4> QED BY <3>1, <4>1
    <3>2. CASE a # k
      <4>1. a \in k + 1 .. n /\ (a # n => a + 1 \in k + 1 .. n /\ a + 1 \in k .. n /\ a + 1 # k)
        BY <1>2, <3>2
      <4>2. g[a] = f[a]
        BY <3>2
      <4>3. f[a] = IF a = n THEN w ELSE V(f[a + 1], a + 1)
        BY <2>1, <4>1
      <4>4. a # n => g[a + 1] = f[a + 1]
        BY <4>1
      <4> QED BY <4>2, <4>3, <4>4
    <3> QED BY <3>1, <3>2
  <2>3. g = h
    BY <2>2
  <2> HIDE DEF g
  <2>4. is(k, g)
    BY <2>3
  <2>5. k \in 0 .. n
    BY <1>2
  <2> QED BY <2>4, <2>5
<1>5. 0 \in S
  <2> HIDE DEF S
  <2>1. \A k \in 0 .. n : k \in S
    BY <1>2, <1>3, <1>4, Down
  <2> QED BY <1>2, <2>1
<1>6. is(0, at)
  <2>1. \E f : is(0, f)
    BY <1>5
  <2> QED BY <2>1
<1> HIDE DEF at
<1>7. at[n] = w
  BY <1>2, <1>6
<1>8. \A a \in 0 .. n - 1 : at[a] = V(at[a + 1], a + 1)
  BY <1>2, <1>6
<1> QED BY <1>1, <1>7, <1>8 DEF n, V

-----------------------------------------------------------------------------
(* One position of the walk.                                                *)

\* A fleet a tick later.
Aged(c, dead) ==
  [c EXCEPT !.ships = c.ships \ dead, !.time = IF c.time > 0 THEN c.time - 1 ELSE c.time]

LEMMA AgedIs ==
  ASSUME NEW c \in Fleet, NEW dead
  PROVE  LET f == Aged(c, dead) IN
         /\ f \in Fleet /\ f.ships = c.ships \ dead /\ f.order = c.order /\ f.waits = c.waits /\ f.dest = c.dest
         /\ f.time = IF c.time > 0 THEN c.time - 1 ELSE c.time
         /\ c.ships \cap dead = {} /\ ~(c.time > 0) => f = c
<1>1. c.time \in -1 .. MaxTime /\ MaxTime \in Nat
  BY Times DEF Fleet
<1>2. (IF c.time > 0 THEN c.time - 1 ELSE c.time) \in -1 .. MaxTime
  BY <1>1
<1> DEFINE t == IF c.time > 0 THEN c.time - 1 ELSE c.time
           g == [c EXCEPT !.ships = c.ships \ dead, !.time = t]
<1> HIDE DEF t
<1>3. /\ g \in Fleet /\ g.ships = c.ships \ dead /\ g.order = c.order /\ g.waits = c.waits /\ g.dest = c.dest
      /\ g.time = t
  BY <1>2 DEF Fleet, t
<1>4. ASSUME c.ships \cap dead = {}, ~(c.time > 0) PROVE g = c
  <2>1. c.ships \ dead = c.ships /\ t = c.time
    BY <1>4 DEF t
  <2> QED BY <2>1 DEF Fleet
<1>5. Aged(c, dead) = g
  BY DEF Aged, t
<1> QED BY <1>3, <1>4, <1>5 DEF t

\* The world when it has been written back, if it was.
Onward(w, a, c, dead) ==
  LET w1 == Destroy(w, c.ships \cap dead)
  IN IF c.time > 0 \/ c.ships \cap dead # {} THEN FleetSet(w1, a, Aged(c, dead)) ELSE w1

LEMMA VisitIs ==
  ASSUME NEW copy, NEW dead, NEW luck, NEW w, NEW a
  PROVE  LET c  == IF a = 1 THEN w.fleet[1] ELSE copy[a]
             f  == Aged(c, dead)
             w1 == Destroy(w, c.ships \cap dead)
             w2 == Onward(w, a, c, dead)
         IN Visit(copy, dead, luck, w, a)
              = IF a # 1 /\ f.ships = {} THEN FleetRemove(w1, a)
                ELSE IF a # 1 /\ f.time = 0 THEN FleetAction(w2, a, f, luck) ELSE w2
BY DEF Visit, Aged, Onward

LEMMA VisitShape ==
  ASSUME NEW copy, NEW dead, NEW luck \in Luck, NEW w, Shape(w), NEW a \in Nat \ {0},
         a # 1 => copy[a] \in Fleet /\ copy[a].order # "main"
  PROVE  Shape(Visit(copy, dead, luck, w, a))
<1> DEFINE c  == IF a = 1 THEN w.fleet[1] ELSE copy[a]
           f  == Aged(c, dead)
           w1 == Destroy(w, c.ships \cap dead)
           w2 == Onward(w, a, c, dead)
<1>1. c \in Fleet /\ (c.order = "main" <=> a = 1)
  BY Holds
<1>2. Visit(copy, dead, luck, w, a)
        = IF a # 1 /\ f.ships = {} THEN FleetRemove(w1, a)
          ELSE IF a # 1 /\ f.time = 0 THEN FleetAction(w2, a, f, luck) ELSE w2
  BY VisitIs
<1> HIDE DEF c
<1>3. f \in Fleet /\ f.order = c.order
  BY <1>1, AgedIs
<1>4. Shape(w1)
  <2>1. c.ships \cap dead \in SUBSET Ship
    BY <1>1 DEF Fleet
  <2> QED BY <2>1, ShapeDestroy
<1>9. w2 = IF c.time > 0 \/ c.ships \cap dead # {} THEN FleetSet(w1, a, f) ELSE w1
  BY DEF Onward
<1> HIDE DEF f, w1
<1>5. Shape(w2)
  <2>1. f.order = "main" <=> a = 1
    BY <1>1, <1>3
  <2>2. Shape(FleetSet(w1, a, f))
    BY <1>3, <1>4, <2>1, ShapeSet
  <2> QED BY <1>4, <1>9, <2>2
<1> HIDE DEF w2
<1>6. a # 1 => a \in Nat /\ a >= 2
  OBVIOUS
<1>7. a # 1 => Shape(FleetRemove(w1, a))
  BY <1>4, <1>6, ShapeRemove
<1>8. a # 1 => Shape(FleetAction(w2, a, f, luck))
  BY <1>1, <1>3, <1>5, <1>6, ActionShape
<1> QED BY <1>2, <1>5, <1>7, <1>8

\* A fleet whose visit changes nothing.
Still(c, dead) == c.time = -1 /\ c.ships # {} /\ c.ships \cap dead = {}

LEMMA StillVisit ==
  ASSUME NEW copy, NEW dead, NEW luck, NEW w \in World, NEW a \in Nat, a >= 2,
         copy[a] \in Fleet, Still(copy[a], dead)
  PROVE  Visit(copy, dead, luck, w, a) = w
<1> DEFINE c == copy[a]
           f  == Aged(c, dead)
           w1 == Destroy(w, c.ships \cap dead)
<1>1. a # 1 /\ ~(c.time > 0) /\ c.ships \cap dead = {} /\ c.ships # {} /\ c.time = -1
  BY DEF Still
<1>2. f = c
  BY <1>1, AgedIs
<1>3. w1 = w
  BY <1>1 DEF Destroy, World
<1> HIDE DEF f, w1
<1>4. Visit(copy, dead, luck, w, a)
        = IF a # 1 /\ f.ships = {} THEN FleetRemove(w1, a)
          ELSE IF a # 1 /\ f.time = 0
               THEN FleetAction(IF c.time > 0 \/ c.ships \cap dead # {} THEN FleetSet(w1, a, f) ELSE w1, a, f, luck)
               ELSE IF c.time > 0 \/ c.ships \cap dead # {} THEN FleetSet(w1, a, f) ELSE w1
  BY <1>1, VisitIs DEF f, w1, Onward
<1> QED BY <1>1, <1>2, <1>3, <1>4

\* Whether it is written or not, the fleet is at its position a tick later.
Placed(w, x, a, f) ==
  /\ Shape(x) /\ Kept(x, DOMAIN x.fleet) /\ DOMAIN x.fleet = DOMAIN w.fleet /\ Len(x.fleet) = Len(w.fleet)
  /\ \A i \in DOMAIN w.fleet : x.fleet[i] = IF i = a THEN f ELSE w.fleet[i]

LEMMA AgedSet ==
  ASSUME NEW w, Shape(w), Sound(w), NEW a \in DOMAIN w.fleet, NEW dead, NEW c, c = w.fleet[a],
         NEW f, f = Aged(c, dead), NEW x, x = Onward(w, a, c, dead)
  PROVE  Placed(w, x, a, f)
<1> DEFINE w1 == Destroy(w, c.ships \cap dead)
<1>1. c \in Fleet /\ c.ships \in SUBSET Ship /\ a \in Nat \ {0} /\ (c.order = "main" <=> a = 1) /\ w \in World
  BY Holds DEF Shape
<1>2. /\ f \in Fleet /\ f.ships = c.ships \ dead /\ f.order = c.order
      /\ c.ships \cap dead = {} /\ ~(c.time > 0) => f = c
  BY <1>1, AgedIs
<1>3. c.ships \cap dead \in SUBSET Ship
  BY <1>1
<1>4. Shape(w1) /\ w1 \in World /\ w1.fleet = w.fleet /\ w1.planet = w.planet /\ w1.gone = w.gone \cup (c.ships \cap dead)
  BY <1>1, <1>3, ShapeDestroy, DestroyIs
<1>5. Kept(w, DOMAIN w.fleet)
  BY DEF Sound
<1>6. CASE c.time > 0 \/ c.ships \cap dead # {}
  <2>1. x = FleetSet(w1, a, f)
    BY <1>6 DEF Onward
  <2>2. Kept(FleetSet(w1, a, f), DOMAIN w.fleet)
    BY <1>2, <1>5, KeptLost
  <2> HIDE DEF w1
  <2>3. f.order = "main" <=> a = 1
    BY <1>1, <1>2
  <2>4. Shape(FleetSet(w1, a, f))
    BY <1>1, <1>2, <1>4, <2>3, ShapeSet
  <2> DEFINE y == FleetSet(w1, a, f)
  <2>5. /\ Len(y.fleet) = Len(w1.fleet) /\ DOMAIN y.fleet = DOMAIN w1.fleet
        /\ \A i \in DOMAIN w1.fleet : y.fleet[i] = IF i = a THEN f ELSE w1.fleet[i]
    <3>1. w1 \in World /\ a \in Nat \ {0} /\ f \in Fleet
      BY <1>1, <1>2, <1>4
    <3> QED BY <3>1, SetIs
  <2> HIDE DEF y
  <2>6. /\ Shape(x) /\ Kept(x, DOMAIN x.fleet) /\ DOMAIN x.fleet = DOMAIN w.fleet /\ Len(x.fleet) = Len(w.fleet)
        /\ \A i \in DOMAIN w.fleet : x.fleet[i] = IF i = a THEN f ELSE w.fleet[i]
    BY <1>4, <2>1, <2>2, <2>4, <2>5 DEF y
  <2> QED BY <2>6 DEF Placed
<1>7. CASE ~(c.time > 0 \/ c.ships \cap dead # {})
  <2>1. x = w1 /\ f = c /\ c.ships \cap dead = {}
    BY <1>2, <1>7 DEF Onward
  <2>2. w1.gone = w.gone
    BY <1>4, <2>1
  <2>3. Kept(w1, DOMAIN w.fleet)
    BY <1>4, <1>5, <2>2, KeptLike
  <2>4. \A i \in DOMAIN w.fleet : w1.fleet[i] = IF i = a THEN c ELSE w.fleet[i]
    BY <1>4
  <2> HIDE DEF w1
  <2>6. /\ Shape(x) /\ Kept(x, DOMAIN x.fleet) /\ DOMAIN x.fleet = DOMAIN w.fleet /\ Len(x.fleet) = Len(w.fleet)
        /\ \A i \in DOMAIN w.fleet : x.fleet[i] = IF i = a THEN f ELSE w.fleet[i]
    BY <1>4, <2>1, <2>3, <2>4
  <2> QED BY <2>6 DEF Placed
<1> QED BY <1>6, <1>7

\* What the visit of a fleet that is still at its position a does to the list.
Visited(w, v, a, f, luck) ==
  /\ Len(v.fleet) \in Nat /\ Len(v.fleet) + 1 >= Len(w.fleet)
  /\ \A i \in 2 .. a - 1 : v.fleet[i] = w.fleet[i] \/ (f.order = "merge" /\ f.time = 0 /\ Waits(w.fleet[i]))
  /\ \A i \in 2 .. Len(w.fleet) : i # a /\ ~Waits(w.fleet[i]) =>
       \E n \in 2 .. Len(v.fleet) : v.fleet[n] = w.fleet[i]
  /\ \A n \in 2 .. Len(v.fleet) :
       \/ \E i \in 2 .. Len(w.fleet) : i # a /\ v.fleet[n] = w.fleet[i]
       \/ Result(v.fleet[n], f, luck)
       \/ f.time # 0 /\ n = a /\ v.fleet[n] = f
  /\ f.ships # {} /\ f.time # 0 => a <= Len(v.fleet) /\ v.fleet[a] = f

LEMMA VisitKeeps ==
  ASSUME NEW copy, NEW dead, NEW luck \in Luck, NEW w, Shape(w), Sound(w), NEW a \in 2 .. Len(w.fleet),
         w.fleet[a] = copy[a]
  PROVE  LET v == Visit(copy, dead, luck, w, a)
         IN Sound(v) /\ Visited(w, v, a, Aged(copy[a], dead), luck)
<1> DEFINE c  == w.fleet[a]
           f  == Aged(c, dead)
           w1 == Destroy(w, c.ships \cap dead)
           w2 == Onward(w, a, c, dead)
           v  == Visit(copy, dead, luck, w, a)
<1>1. /\ c \in Fleet /\ c.ships \in SUBSET Ship /\ a \in Nat \ {0} /\ a \in DOMAIN w.fleet /\ a # 1 /\ w \in World
      /\ DOMAIN w.fleet = 1 .. Len(w.fleet) /\ Len(w.fleet) \in Nat /\ c.time \in -1 .. MaxTime
  BY Holds DEF Fleet
<1>2. /\ f \in Fleet /\ f.ships = c.ships \ dead /\ f.order = c.order
      /\ f.time = IF c.time > 0 THEN c.time - 1 ELSE c.time
  BY <1>1, AgedIs
<1>3. v = IF f.ships = {} THEN FleetRemove(w1, a)
          ELSE IF f.time = 0 THEN FleetAction(w2, a, f, luck) ELSE w2
  BY <1>1, VisitIs
<1>4. /\ Shape(w2) /\ Kept(w2, DOMAIN w2.fleet) /\ DOMAIN w2.fleet = DOMAIN w.fleet /\ Len(w2.fleet) = Len(w.fleet)
      /\ \A i \in DOMAIN w.fleet : w2.fleet[i] = IF i = a THEN f ELSE w.fleet[i]
  <2>1. c = w.fleet[a] /\ f = Aged(c, dead) /\ w2 = Onward(w, a, c, dead)
    OBVIOUS
  <2> HIDE DEF f, w2, c
  <2>2. Placed(w, w2, a, f)
    BY <1>1, <2>1, AgedSet
  <2> QED BY <2>2 DEF Placed
<1>5. (\A i \in DOMAIN w.fleet : Timed(w.fleet[i])) /\ Kept(w, DOMAIN w.fleet)
  BY DEF Sound
<1>6. (f.order = "op" => f.time >= 0) /\ (f.time # 0 => Timed(f))
  <2>1. Timed(c) /\ MaxTime \in Nat
    BY <1>1, <1>5, Times
  <2> HIDE DEF f, c
  <2> QED BY <1>1, <1>2, <2>1 DEF Timed
<1> HIDE DEF v, w2
<1>7. CASE f.ships = {}
  <2> DEFINE f2 == [order |-> "move"]
  <2>1. c.ships \cap dead = c.ships
    BY <1>2, <1>7
  <2>2. Shape(w1) /\ w1.fleet = w.fleet /\ w1 \in World
    BY <1>1, <2>1, ShapeDestroy, DestroyIs
  <2>3. Kept(w1, DOMAIN w.fleet \ {a})
    BY <1>1, <1>5, <2>1, KeptDestroyed
  <2> HIDE DEF w1
  <2>4. Besides(w, w1, a) /\ a \in 2 .. Len(w1.fleet)
    BY <2>2 DEF Besides
  <2>5. v = FleetRemove(w1, a)
    BY <1>3, <1>7
  <2>6. Sound(v)
    BY <1>5, <2>2, <2>3, <2>4, <2>5, RemoveSound
  <2>7. Acted(w, v, a, f2, luck)
    BY <2>4, <2>5, RemoveActs
  <2>8. \A g : Result(g, f2, luck) => Result(g, f, luck)
    BY DEF Result
  <2>9. f2.order # "merge"
    OBVIOUS
  <2> HIDE DEF f2, f, c
  <2>10. Visited(w, v, a, f, luck)
    BY <1>7, <2>7, <2>8, <2>9 DEF Acted, Visited
  <2> QED BY <2>6, <2>10 DEF f, c, v
<1>8. CASE f.ships # {} /\ f.time = 0
  <2>1. v = FleetAction(w2, a, f, luck) /\ w2.fleet[a] = f /\ a \in 2 .. Len(w2.fleet) /\ a \in Nat /\ a >= 2 /\ f.order # "main"
    BY <1>1, <1>2, <1>3, <1>4, <1>8 DEF Shape
  <2> HIDE DEF f, c
  <2>2. Kept(v, DOMAIN v.fleet) /\ Acted(w2, v, a, f, luck)
    BY <1>4, <1>6, <2>1, ActionKeeps
  <2>3. Shape(v)
    BY <1>2, <1>4, <2>1, ActionShape
  <2>4. \A n \in DOMAIN v.fleet : Timed(v.fleet[n])
    BY <1>4, <1>5, <2>2, <2>3, ActedTimed
  <2>5. Visited(w, v, a, f, luck)
    <3>1. \A i \in 2 .. Len(w.fleet) : i # a => w2.fleet[i] = w.fleet[i]
      BY <1>1, <1>4
    <3>2. \A i \in 2 .. a - 1 : i \in 2 .. Len(w.fleet) /\ i # a
      BY <1>1
    <3>3. Len(w2.fleet) = Len(w.fleet)
      BY <1>4
    <3>4. Len(v.fleet) \in Nat /\ Len(v.fleet) + 1 >= Len(w.fleet)
      BY <2>2, <3>3 DEF Acted
    <3>5. \A i \in 2 .. a - 1 : v.fleet[i] = w.fleet[i] \/ (f.order = "merge" /\ f.time = 0 /\ Waits(w.fleet[i]))
      BY <1>8, <2>2, <3>1, <3>2 DEF Acted
    <3>6. \A i \in 2 .. Len(w.fleet) : i # a /\ ~Waits(w.fleet[i]) =>
            \E n \in 2 .. Len(v.fleet) : v.fleet[n] = w.fleet[i]
      BY <2>2, <3>1, <3>3 DEF Acted
    <3>7. \A n \in 2 .. Len(v.fleet) : \/ \E i \in 2 .. Len(w.fleet) : i # a /\ v.fleet[n] = w.fleet[i]
                                      \/ Result(v.fleet[n], f, luck)
      BY <2>2, <3>1, <3>3 DEF Acted
    <3> QED BY <1>8, <3>4, <3>5, <3>6, <3>7 DEF Visited
  <2> QED BY <2>2, <2>4, <2>5 DEF Sound, f, c, v
<1>9. CASE f.ships # {} /\ f.time # 0
  <2>1. v = w2
    BY <1>3, <1>9
  <2> HIDE DEF f, c
  <2>2. \A n \in DOMAIN v.fleet : Timed(v.fleet[n])
    BY <1>4, <1>5, <1>6, <1>9, <2>1
  <2>3. Sound(v)
    BY <1>4, <2>1, <2>2 DEF Sound
  <2>4. Visited(w, v, a, f, luck)
    <3>1. \A i \in 2 .. Len(w.fleet) : v.fleet[i] = IF i = a THEN f ELSE w.fleet[i]
      BY <1>1, <1>4, <2>1
    <3>2. Len(v.fleet) = Len(w.fleet)
      BY <1>4, <2>1
    <3>3. \A i \in 2 .. a - 1 : i \in 2 .. Len(w.fleet) /\ i # a
      BY <1>1
    <3>4. \A i \in 2 .. a - 1 : v.fleet[i] = w.fleet[i]
      BY <3>1, <3>3
    <3>5. Len(v.fleet) + 1 >= Len(w.fleet) /\ a <= Len(v.fleet) /\ v.fleet[a] = f /\ Len(v.fleet) \in Nat
      BY <1>1, <3>1, <3>2
    <3>6. \A i \in 2 .. Len(w.fleet) : i # a /\ ~Waits(w.fleet[i]) =>
            \E n \in 2 .. Len(v.fleet) : v.fleet[n] = w.fleet[i]
      BY <3>1, <3>2
    <3>7. \A n \in 2 .. Len(v.fleet) : \/ \E i \in 2 .. Len(w.fleet) : i # a /\ v.fleet[n] = w.fleet[i]
                                       \/ f.time # 0 /\ n = a /\ v.fleet[n] = f
      <4> TAKE n \in 2 .. Len(v.fleet)
      <4>1. n \in 2 .. Len(w.fleet)
        BY <3>2
      <4>2. CASE n = a
        BY <1>9, <3>1, <4>1, <4>2
      <4>3. CASE n # a
        <5>1. v.fleet[n] = w.fleet[n]
          BY <3>1, <4>1, <4>3
        <5>2. \E i \in 2 .. Len(w.fleet) : i # a /\ v.fleet[n] = w.fleet[i]
          BY <4>1, <4>3, <5>1
        <5> QED BY <5>2
      <4> QED BY <4>2, <4>3
    <3> QED BY <3>4, <3>5, <3>6, <3>7 DEF Visited
  <2> QED BY <2>3, <2>4 DEF f, c, v
<1> QED BY <1>7, <1>8, <1>9

-----------------------------------------------------------------------------
(* The walk keeps its invariant: whatever is still to be visited is what    *)
(* the copy says or has nothing to do.                                      *)

Walking(copy, dead, w, a) ==
  /\ Shape(w) /\ Sound(w) /\ a <= Len(w.fleet)
  /\ \A i \in 2 .. a : w.fleet[i] = copy[i] \/ Still(copy[i], dead)

LEMMA Met ==
  ASSUME IInv, Sound(Now), ~Crossing, NEW dead, dead \subseteq Phantom, NEW i \in 2 .. Len(fleet), NEW k \in 2 .. Len(fleet),
         i < k, fleet[k].order = "merge", Aged(fleet[k], dead).time = 0, Waits(fleet[i])
  PROVE  Still(fleet[i], dead)
<1>1. /\ fleet[i] \in Fleet /\ fleet[k] \in Fleet /\ Timed(fleet[i]) /\ Timed(fleet[k])
      /\ MaxTime \in Nat
  BY NowIs, Times DEF Sound
<1>2. fleet[i].time \in -1 .. MaxTime /\ fleet[k].time \in -1 .. MaxTime
  BY <1>1 DEF Fleet
<1>3. fleet[k].time # 0 /\ fleet[i].time # 0
  BY <1>1 DEF Timed, Waits
<1>4. Aged(fleet[k], dead).time = IF fleet[k].time > 0 THEN fleet[k].time - 1 ELSE fleet[k].time
  BY <1>1, AgedIs
<1>5. fleet[k].time = 1
  BY <1>1, <1>2, <1>3, <1>4
<1>6. ~(fleet[i].time > 0 \/ fleet[i].ships \cap Phantom # {} \/ fleet[i].ships = {})
  BY <1>5 DEF Crossing, Waits
<1>7. fleet[i].time = -1
  BY <1>1, <1>2, <1>3, <1>6
<1> QED BY <1>6, <1>7 DEF Still

LEMMA WalkStep ==
  ASSUME IInv, Sound(Now), ~Crossing, NEW dead, dead \subseteq Phantom, NEW luck \in Luck,
         NEW a \in 2 .. Len(fleet), NEW w, Walking(fleet, dead, w, a)
  PROVE  LET v == Visit(fleet, dead, luck, w, a) IN
         /\ Walking(fleet, dead, v, a - 1)
         /\ \/ Still(fleet[a], dead) /\ v = w
            \/ w.fleet[a] = fleet[a] /\ Visited(w, v, a, Aged(fleet[a], dead), luck)
<1> DEFINE v == Visit(fleet, dead, luck, w, a)
           f == Aged(fleet[a], dead)
<1>1. /\ a \in Nat /\ a >= 2 /\ fleet[a] \in Fleet /\ fleet[a].order # "main" /\ w \in World /\ Shape(w) /\ Sound(w)
      /\ Len(w.fleet) \in Nat /\ a <= Len(w.fleet) /\ Len(fleet) \in Nat
      /\ \A i \in 2 .. a : w.fleet[i] = fleet[i] \/ Still(fleet[i], dead)
  BY NowIs, Holds DEF Walking
<1>2. a \in 2 .. a /\ a \in 2 .. Len(w.fleet) /\ 2 .. a - 1 \subseteq 2 .. a
  BY <1>1
<1>3. CASE Still(fleet[a], dead)
  <2>1. v = w
    BY <1>1, <1>3, StillVisit
  <2> HIDE DEF v
  <2>2. Walking(fleet, dead, v, a - 1)
    BY <1>1, <1>2, <2>1 DEF Walking
  <2> QED BY <1>3, <2>1, <2>2 DEF v
<1>4. CASE ~Still(fleet[a], dead)
  <2>1. w.fleet[a] = fleet[a]
    BY <1>1, <1>2, <1>4
  <2>2. Sound(v) /\ Visited(w, v, a, f, luck)
    BY <1>1, <1>2, <2>1, VisitKeeps
  <2>3. Shape(v)
    BY <1>1, VisitShape
  <2>4. f.order = fleet[a].order
    BY <1>1, AgedIs
  <2> HIDE DEF v
  <2>5. ASSUME NEW i \in 2 .. a - 1 PROVE v.fleet[i] = fleet[i] \/ Still(fleet[i], dead)
    <3>1. i \in 2 .. a /\ i < a /\ i \in 2 .. Len(fleet)
      BY <1>1
    <3>2. CASE v.fleet[i] = w.fleet[i]
      BY <1>1, <3>1, <3>2
    <3>3. CASE f.order = "merge" /\ f.time = 0 /\ Waits(w.fleet[i])
      <4>1. CASE w.fleet[i] = fleet[i]
        BY <2>4, <3>1, <3>3, <4>1, Met
      <4>2. CASE Still(fleet[i], dead)
        BY <4>2
      <4> QED BY <1>1, <3>1, <4>1, <4>2
    <3> QED BY <2>2, <3>2, <3>3 DEF Visited
  <2>6. a - 1 <= Len(v.fleet)
    BY <1>1, <2>2 DEF Visited
  <2>7. Walking(fleet, dead, v, a - 1)
    BY <2>2, <2>3, <2>5, <2>6 DEF Walking
  <2> QED BY <2>1, <2>2, <2>7 DEF v
<1> QED BY <1>3, <1>4

(* The last position is the main fleet's. *)
LEMMA MainStep ==
  ASSUME NEW copy, NEW dead, NEW luck, NEW w, Shape(w), Sound(w)
  PROVE  LET v == Visit(copy, dead, luck, w, 1) IN
         /\ Shape(v) /\ Sound(v) /\ Len(v.fleet) = Len(w.fleet)
         /\ \A i \in 2 .. Len(w.fleet) : v.fleet[i] = w.fleet[i]
<1> DEFINE v == Visit(copy, dead, luck, w, 1)
           c == w.fleet[1]
           f == Aged(c, dead)
           x == Onward(w, 1, c, dead)
<1>1. v = x
  BY VisitIs
<1>2. 1 \in DOMAIN w.fleet /\ DOMAIN w.fleet = 1 .. Len(w.fleet) /\ Len(w.fleet) \in Nat
  BY Holds
<1>3. /\ Shape(x) /\ Kept(x, DOMAIN x.fleet) /\ DOMAIN x.fleet = DOMAIN w.fleet /\ Len(x.fleet) = Len(w.fleet)
      /\ \A i \in DOMAIN w.fleet : x.fleet[i] = IF i = 1 THEN f ELSE w.fleet[i]
  <2>1. c = w.fleet[1] /\ f = Aged(c, dead) /\ x = Onward(w, 1, c, dead)
    OBVIOUS
  <2> HIDE DEF f, x, c
  <2>2. Placed(w, x, 1, f)
    BY <1>2, <2>1, AgedSet
  <2> QED BY <2>2 DEF Placed
<1> HIDE DEF x, v
<1>4. \A i \in DOMAIN x.fleet : Timed(x.fleet[i])
  <2> TAKE i \in DOMAIN x.fleet
  <2>1. CASE i = 1
    BY <1>3, <2>1, Holds DEF Timed
  <2>2. CASE i # 1
    BY <1>3, <2>2 DEF Sound
  <2> QED BY <2>1, <2>2
<1>5. Sound(x)
  BY <1>3, <1>4 DEF Sound
<1>6. \A i \in 2 .. Len(w.fleet) : i \in DOMAIN w.fleet /\ i # 1
  BY <1>2
<1> QED BY <1>1, <1>3, <1>5, <1>6 DEF v

LEMMA WalkShape ==
  ASSUME IInv, NEW dead, NEW luck \in Luck
  PROVE  Shape(Walk(Now, dead, luck))
<1> DEFINE n == Len(fleet)
<1>1. /\ Shape(Now) /\ Now.fleet = fleet /\ n \in Nat /\ DOMAIN fleet = 1 .. n
      /\ \A k \in DOMAIN fleet : fleet[k] \in Fleet /\ (fleet[k].order = "main" <=> k = 1)
  BY NowIs
<1>2. PICK at : /\ at[n] = Now /\ at[0] = Walk(Now, dead, luck)
                /\ \A a \in 0 .. n - 1 : at[a] = Visit(fleet, dead, luck, at[a + 1], a + 1)
  <2>1. Len(Now.fleet) \in Nat
    BY <1>1
  <2>2. PICK at : /\ at[Len(Now.fleet)] = Now
                  /\ \A a \in 0 .. Len(Now.fleet) - 1 : at[a] = Visit(Now.fleet, dead, luck, at[a + 1], a + 1)
                  /\ at[0] = Walk(Now, dead, luck)
    BY <2>1, WalkIs
  <2> QED BY <1>1, <2>2
<1> HIDE DEF n
<1> DEFINE S == {a \in 0 .. n : Shape(at[a])}
<1>3. n \in S
  BY <1>1, <1>2
<1>4. ASSUME NEW a \in 0 .. n - 1, a + 1 \in S PROVE a \in S
  <2>1. a + 1 \in Nat \ {0} /\ a + 1 \in DOMAIN fleet /\ Shape(at[a + 1])
    BY <1>1, <1>4
  <2>2. a + 1 # 1 => fleet[a + 1] \in Fleet /\ fleet[a + 1].order # "main"
    BY <1>1, <2>1
  <2>3. Shape(Visit(fleet, dead, luck, at[a + 1], a + 1))
    BY <2>1, <2>2, VisitShape
  <2>4. a \in 0 .. n /\ at[a] = Visit(fleet, dead, luck, at[a + 1], a + 1)
    BY <1>1, <1>2
  <2> QED BY <2>3, <2>4
<1> HIDE DEF S
<1>5. \A a \in 0 .. n : a \in S
  BY <1>1, <1>3, <1>4, Down
<1>6. 0 \in S
  BY <1>1, <1>5
<1> QED BY <1>2, <1>6 DEF S

\* What the walk has made of the files at each position, at[a] before a is visited.
Path(at, dead, luck) ==
  /\ at[Len(fleet)] = Now
  /\ \A a \in 1 .. Len(fleet) : Walking(fleet, dead, at[a], a)
  /\ \A a \in 2 .. Len(fleet) :
       \/ Still(fleet[a], dead) /\ at[a - 1] = at[a]
       \/ at[a].fleet[a] = fleet[a] /\ Visited(at[a], at[a - 1], a, Aged(fleet[a], dead), luck)
  /\ Shape(at[0]) /\ Sound(at[0]) /\ Len(at[0].fleet) = Len(at[1].fleet)
  /\ \A i \in 2 .. Len(at[1].fleet) : at[0].fleet[i] = at[1].fleet[i]

LEMMA WalkPath ==
  ASSUME IInv, Sound(Now), ~Crossing, NEW dead, dead \subseteq Phantom, NEW luck \in Luck
  PROVE  \E at : Path(at, dead, luck) /\ at[0] = Walk(Now, dead, luck)
<1> DEFINE n == Len(fleet)
<1>1. /\ Shape(Now) /\ Now.fleet = fleet /\ n \in Nat /\ 1 \in 1 .. n
  BY NowIs
<1>2. PICK at : /\ at[n] = Now /\ at[0] = Walk(Now, dead, luck)
                /\ \A a \in 0 .. n - 1 : at[a] = Visit(fleet, dead, luck, at[a + 1], a + 1)
  <2>1. Len(Now.fleet) \in Nat
    BY <1>1
  <2>2. PICK at : /\ at[Len(Now.fleet)] = Now
                  /\ \A a \in 0 .. Len(Now.fleet) - 1 : at[a] = Visit(Now.fleet, dead, luck, at[a + 1], a + 1)
                  /\ at[0] = Walk(Now, dead, luck)
    BY <2>1, WalkIs
  <2> QED BY <1>1, <2>2
<1>3. ASSUME NEW a \in 2 .. n, Walking(fleet, dead, at[a], a)
      PROVE  /\ Walking(fleet, dead, at[a - 1], a - 1)
             /\ \/ Still(fleet[a], dead) /\ at[a - 1] = at[a]
                \/ at[a].fleet[a] = fleet[a] /\ Visited(at[a], at[a - 1], a, Aged(fleet[a], dead), luck)
  <2>1. a - 1 \in 0 .. n - 1 /\ (a - 1) + 1 = a
    BY <1>1
  <2>2. at[a - 1] = Visit(fleet, dead, luck, at[a], a)
    BY <1>2, <2>1
  <2> QED BY <1>3, <2>2, WalkStep
<1>4. Walking(fleet, dead, at[n], n)
  BY <1>1, <1>2 DEF Walking
<1> HIDE DEF n
<1> DEFINE S == {a \in 0 .. n : a >= 1 => Walking(fleet, dead, at[a], a)}
<1>5. ASSUME NEW a \in 0 .. n - 1, a + 1 \in S PROVE a \in S
  <2>1. a \in 0 .. n
    BY <1>1
  <2>2. CASE a >= 1
    <3>1. a + 1 \in 2 .. n /\ (a + 1) - 1 = a /\ a + 1 >= 1
      BY <1>1, <2>2
    <3>2. Walking(fleet, dead, at[a + 1], a + 1)
      BY <1>5, <3>1
    <3>3. Walking(fleet, dead, at[a], a)
      BY <1>3, <3>1, <3>2
    <3> QED BY <2>1, <3>3
  <2> QED BY <2>1, <2>2
<1>6. n \in S
  BY <1>1, <1>4
<1> HIDE DEF S
<1>7. \A a \in 0 .. n : a \in S
  BY <1>1, <1>5, <1>6, Down
<1>8. \A a \in 1 .. n : Walking(fleet, dead, at[a], a)
  <2> TAKE a \in 1 .. n
  <2>1. a \in 0 .. n /\ a >= 1
    BY <1>1
  <2> QED BY <1>7, <2>1 DEF S
<1>9. /\ Shape(at[0]) /\ Sound(at[0]) /\ Len(at[0].fleet) = Len(at[1].fleet)
      /\ \A i \in 2 .. Len(at[1].fleet) : at[0].fleet[i] = at[1].fleet[i]
  <2>1. Shape(at[1]) /\ Sound(at[1])
    BY <1>1, <1>8 DEF Walking
  <2>2. at[0] = Visit(fleet, dead, luck, at[1], 1)
    <3>1. 0 \in 0 .. n - 1 /\ 0 + 1 = 1
      BY <1>1
    <3> QED BY <1>2, <3>1
  <2> QED BY <2>1, <2>2, MainStep
<1>10. \A a \in 2 .. n : a \in 1 .. n
  BY <1>1
<1>11. \A a \in 2 .. n : \/ Still(fleet[a], dead) /\ at[a - 1] = at[a]
                         \/ at[a].fleet[a] = fleet[a] /\ Visited(at[a], at[a - 1], a, Aged(fleet[a], dead), luck)
  BY <1>3, <1>8, <1>10
<1>12. Path(at, dead, luck)
  BY <1>2, <1>8, <1>9, <1>11 DEF Path, n
<1> QED BY <1>2, <1>12

LEMMA RottedKeeps ==
  ASSUME NEW w, Shape(w), NEW rot \in SUBSET Ship
  PROVE  LET x == Rotted(w, rot) IN Shape(x) /\ (Sound(w) => Sound(x))
<1> DEFINE x == Rotted(w, rot)
           d == rot \cap UNION {w.planet[p].ships : p \in Planet}
           P(p) == [w.planet[p] EXCEPT !.ships = w.planet[p].ships \ rot]
<1>1. w \in World /\ w.planet \in [Planet -> Place] /\ \A p \in Planet : w.planet[p] \in Place
  BY Holds
<1>2. \A p \in Planet : P(p) \in Place /\ P(p).ships = w.planet[p].ships \ rot /\ P(p).owner = w.planet[p].owner
  BY <1>1 DEF Place
<1> HIDE DEF P
<1>3. /\ x.fleet = w.fleet /\ x.gone = w.gone \cup d /\ x.planet = [p \in Planet |-> P(p)]
      /\ x \in World
  <2>1. d \in SUBSET Ship /\ [p \in Planet |-> P(p)] \in [Planet -> Place]
    BY <1>2
  <2>2. x = [w EXCEPT !.gone = w.gone \cup d, !.planet = [p \in Planet |-> P(p)]]
    BY DEF Rotted, P
  <2> HIDE DEF d, x
  <2> QED BY <1>1, <2>1, <2>2 DEF World
<1> HIDE DEF x
<1>4. Shape(x)
  BY <1>2, <1>3 DEF Shape
<1>5. ASSUME Sound(w) PROVE Sound(x)
  <2> DEFINE D == DOMAIN w.fleet
  <2>1. Kept(w, D) /\ \A i \in D : Timed(w.fleet[i])
    BY <1>5 DEF Sound
  <2> HIDE DEF D
  <2>2. \A i \in D : x.fleet[i].ships = w.fleet[i].ships \ d
    <3>1. \A i \in D, s \in d : s \notin w.fleet[i].ships
      BY <2>1 DEF Kept
    <3> HIDE DEF d
    <3> QED BY <1>3, <3>1
  <2>3. \A p \in Planet : x.planet[p].ships = w.planet[p].ships \ d
    BY <1>2, <1>3
  <2>4. Less(w, D, d, x) /\ d \in SUBSET Ship
    BY <1>3, <2>2, <2>3 DEF Less
  <2>5. Kept(x, D)
    BY <2>1, <2>4, KeptLess
  <2> QED BY <1>3, <2>1, <2>5 DEF Sound, D
<1> QED BY <1>4, <1>5 DEF x

LEMMA Lost ==
  /\ \A dead \in Decaying : dead \subseteq Phantom /\ dead \in SUBSET Ship
  /\ \A w : \A rot \in Rotting(w) : rot \in SUBSET Ship
BY FleetConstants DEF Decaying, Rotting, Lessened

LEMMA TickKeeps == IInv /\ Tick => IInv'
<1> SUFFICES ASSUME IInv, Tick PROVE IInv'
  OBVIOUS
<1>1. PICK luck \in Luck, dead \in Decaying : LET w == Walk(Now, dead, luck) IN \E rot \in Rotting(w) : Written(Rotted(w, rot))
  BY DEF Tick
<1>2. crossed' = (crossed \/ Crossing)
  BY DEF Tick
<1> DEFINE w == Walk(Now, dead, luck)
<1>3. PICK rot \in Rotting(w) : Written(Rotted(w, rot))
  BY <1>1
<1> DEFINE x == Rotted(w, rot)
<1>4. Shape(w) /\ rot \in SUBSET Ship /\ dead \subseteq Phantom
  BY Lost, WalkShape
<1>5. ASSUME ~crossed, ~Crossing PROVE Sound(w)
  <2>1. Sound(Now)
    BY <1>5 DEF IInv
  <2>2. PICK at : Path(at, dead, luck) /\ at[0] = w
    BY <1>4, <1>5, <2>1, WalkPath
  <2> QED BY <2>2 DEF Path
<1>6. Shape(x) /\ (Sound(w) => Sound(x))
  BY <1>4, RottedKeeps
<1>7. fleet' = x.fleet /\ planet' = x.planet /\ gone' = x.gone
  BY <1>3 DEF Written
<1> HIDE DEF w, x
<1>8. x = [fleet |-> x.fleet, planet |-> x.planet, gone |-> x.gone]
  BY <1>6 DEF Shape, World
<1>9. [fleet |-> fleet', planet |-> planet', gone |-> gone'] = x
  BY <1>7, <1>8
<1>10. crossed \in BOOLEAN /\ crossed' \in BOOLEAN /\ (~crossed' => ~crossed /\ ~Crossing)
  BY <1>2 DEF IInv
<1> QED BY <1>5, <1>6, <1>9, <1>10 DEF IInv, Now

LEMMA InitHolds == Init => IInv
<1> SUFFICES ASSUME Init PROVE IInv
  OBVIOUS
<1>1. PICK p \in Planet :
        /\ fleet = << [order |-> "main", dest |-> p, time |-> 0, waits |-> FALSE, ships |-> Ship] >>
        /\ planet = [q \in Planet |-> [owner |-> "none", ships |-> {}]] /\ gone = {} /\ crossed = FALSE
  BY DEF Init
<1> DEFINE f == [order |-> "main", dest |-> p, time |-> 0, waits |-> FALSE, ships |-> Ship]
<1>2. f \in Fleet /\ f.order = "main" /\ f.ships = Ship /\ f.time = 0
  BY Times DEF Fleet
<1>3. Now = [fleet |-> <<f>>, planet |-> planet, gone |-> gone]
  BY <1>1 DEF Now
<1> HIDE DEF f
<1>4. <<f>> \in Seq(Fleet) /\ Len(<<f>>) = 1 /\ DOMAIN <<f>> = {1} /\ <<f>>[1] = f
  BY <1>2
<1>5. planet \in [Planet -> Place] /\ \A q \in Planet : planet[q].ships = {}
  BY <1>1 DEF Place
<1>6. Now \in World /\ Now.fleet = <<f>> /\ Now.planet = planet /\ Now.gone = {}
  BY <1>1, <1>3, <1>4, <1>5 DEF World
<1>7. 1 \in 1 .. MaxFleets + 1
  BY FleetConstants
<1>8. Shape(Now)
  BY <1>2, <1>4, <1>5, <1>6, <1>7 DEF Shape
<1>9. Kept(Now, {1})
  BY <1>2, <1>4, <1>5, <1>6 DEF Kept
<1>10. Timed(f)
  BY <1>2 DEF Timed
<1>11. Sound(Now)
  BY <1>4, <1>6, <1>9, <1>10 DEF Sound
<1> QED BY <1>1, <1>8, <1>11 DEF IInv

LEMMA Invariance == Spec => []IInv
<1>1. IInv /\ [Next]_vars => IInv'
  <2> SUFFICES ASSUME IInv, [Next]_vars PROVE IInv'
    OBVIOUS
  <2>1. CASE SendFleet
    BY <2>1, SendFleetKeeps
  <2>2. CASE SendAgents
    BY <2>2, SendAgentsKeeps
  <2>3. CASE Explore
    BY <2>3, ExploreSent
  <2>4. ASSUME NEW k \in 2 .. Len(fleet), ChangeFleet(k) PROVE IInv'
    BY <2>4, ChangeFleetKeeps
  <2>5. ASSUME NEW k \in 2 .. Len(fleet), FleetsSplit(k) PROVE IInv'
    BY <2>5, FleetsSplitKeeps
  <2>6. ASSUME NEW k \in 2 .. Len(fleet), AttackPlanet(k) PROVE IInv'
    BY <2>6, AttackPlanetKeeps
  <2>7. ASSUME NEW i \in 2 .. Len(fleet), NEW k \in 2 .. Len(fleet), FleetsMerge(i, k) PROVE IInv'
    BY <2>7, FleetsMergeKeeps
  <2>8. ASSUME NEW k \in DOMAIN fleet, Disband(k) PROVE IInv'
    BY <2>8, DisbandKeeps
  <2>9. ASSUME NEW p \in Planet, Unstation(p) PROVE IInv'
    BY <2>9, UnstationKeeps
  <2>10. ASSUME NEW p \in Planet, Attacked(p) PROVE IInv'
    BY <2>10, AttackedKeeps
  <2>11. ASSUME NEW p \in Planet, Settled(p) PROVE IInv'
    BY <2>11, SettledKeeps
  <2>12. CASE Built
    BY <2>12, BuiltKeeps
  <2>13. CASE Tick
    BY <2>13, TickKeeps
  <2>14. CASE UNCHANGED vars
    BY <2>14 DEF IInv, Now, vars
  <2> QED BY <2>1, <2>2, <2>3, <2>4, <2>5, <2>6, <2>7, <2>8, <2>9, <2>10, <2>11, <2>12, <2>13, <2>14 DEF Next
<1> QED BY <1>1, InitHolds, PTL DEF Spec

-----------------------------------------------------------------------------
(* Every ship is accounted for. *)

LEMMA Counted ==
  ASSUME NEW S, \A x, y \in S : x = y
  PROVE  Cardinality(S) = IF S = {} THEN 0 ELSE 1
<1>1. CASE S = {}
  BY <1>1, FS_EmptySet
<1>2. CASE S # {}
  <2>1. PICK x : x \in S
    BY <1>2
  <2>2. S = {x}
    BY <2>1
  <2>3. Cardinality({x}) = 1
    BY FS_Singleton
  <2> QED BY <1>2, <2>2, <2>3
<1> QED BY <1>1, <1>2

LEMMA AllKept == IInv => ShipsKept
<1> SUFFICES ASSUME IInv, ~crossed, NEW s \in Ship
             PROVE  Cardinality({k \in DOMAIN fleet : s \in fleet[k].ships})
                      + Cardinality({p \in Planet : s \in planet[p].ships}) = IF s \in gone THEN 0 ELSE 1
  BY DEF ShipsKept
<1> DEFINE F == {k \in DOMAIN fleet : s \in fleet[k].ships}
           P == {p \in Planet : s \in planet[p].ships}
<1>1. Kept(Now, DOMAIN fleet) /\ Now.fleet = fleet /\ Now.planet = planet /\ Now.gone = gone
  BY NowIs DEF IInv, Sound
<1>2. (\A i, j \in F : i = j) /\ (\A p, q \in P : p = q)
  BY <1>1 DEF Kept
<1>3. F = {} \/ P = {}
  BY <1>1 DEF Kept
<1>4. s \in gone <=> F = {} /\ P = {}
  BY <1>1 DEF Kept
<1> HIDE DEF F, P
<1>5. Cardinality(F) = (IF F = {} THEN 0 ELSE 1) /\ Cardinality(P) = IF P = {} THEN 0 ELSE 1
  BY <1>2, Counted
<1>6. Cardinality(F) + Cardinality(P) = IF s \in gone THEN 0 ELSE 1
  BY <1>3, <1>4, <1>5
<1> QED BY <1>6 DEF F, P

\* The pages, the battles and the ticks neither lose a ship nor copy one, unless
\* merging fleets cross in the walk of a tick; the list has one main fleet, its
\* first, and no more than the most a player may have; and ships are stationed
\* only on the player's own planets.
THEOREM ShipsAreAccounted == Spec => []ShipsAccounted
<1>1. IInv => TypeOK
  <2> SUFFICES ASSUME IInv PROVE TypeOK
    OBVIOUS
  <2>1. crossed \in BOOLEAN /\ Len(fleet) \in 1 .. MaxFleets + 1
    BY NowIs DEF IInv, Shape
  <2>2. planet \in [Planet -> [owner: {"none", "me", "foe"}, ships: SUBSET Ship]]
    BY NowIs DEF Place
  <2> QED BY <2>1, <2>2, NowIs DEF TypeOK
<1>2. IInv => StationedAtHome
  <2> SUFFICES ASSUME IInv PROVE StationedAtHome
    OBVIOUS
  <2>1. Shape(Now) /\ Now.planet = planet
    BY NowIs
  <2> QED BY <2>1 DEF Shape, StationedAtHome
<1>3. IInv => ShipsAccounted
  BY <1>1, <1>2, AllKept DEF ShipsAccounted
<1> QED BY <1>3, Invariance, PTL

-----------------------------------------------------------------------------
(* A battle is one fleet's.                                                 *)

\* Every fleet but the one at k is still in the list of w.
Unhurt(w, k) == \A i \in (2 .. Len(fleet)) \ {k} : \E n \in DOMAIN w.fleet : w.fleet[n] = fleet[i]

LEMMA RemoveUnhurt ==
  ASSUME IInv, NEW k \in 2 .. Len(fleet), NEW u, Besides(Now, u, k)
  PROVE  Unhurt(u, k) /\ Unhurt(FleetRemove(u, k), k)
<1> DEFINE n == Len(fleet)
           v == FleetRemove(u, k)
<1>1. /\ n \in Nat /\ u \in World /\ Len(u.fleet) = n /\ k \in 1 .. Len(u.fleet)
      /\ \A i \in 2 .. n : i # k => u.fleet[i] = fleet[i]
  BY NowIs DEF Besides
<1>2. DOMAIN u.fleet = 1 .. n
  BY <1>1 DEF World
<1>3. /\ DOMAIN v.fleet = 1 .. n - 1
      /\ \A i \in DOMAIN v.fleet : v.fleet[i] = u.fleet[IF i = k THEN n ELSE i]
  BY <1>1, RemoveIs
<1> HIDE DEF v, n
<1>4. ASSUME NEW i \in (2 .. n) \ {k}
      PROVE  /\ \E m \in DOMAIN u.fleet : u.fleet[m] = fleet[i]
             /\ \E m \in DOMAIN v.fleet : v.fleet[m] = fleet[i]
  <2>1. u.fleet[i] = fleet[i] /\ i \in 1 .. n
    BY <1>1
  <2>2. CASE i = n
    <3>1. k \in DOMAIN v.fleet
      BY <1>1, <1>3, <1>4, <2>2 DEF n
    <3>2. v.fleet[k] = u.fleet[i]
      BY <1>3, <2>2, <3>1
    <3> QED BY <1>2, <2>1, <3>1, <3>2
  <2>3. CASE i # n
    <3>1. i \in DOMAIN v.fleet /\ i # k
      BY <1>1, <1>3, <1>4, <2>1, <2>3
    <3> QED BY <1>2, <1>3, <2>1, <3>1
  <2> QED BY <2>2, <2>3
<1> QED BY <1>4 DEF Unhurt, n, v

LEMMA RecallUnhurt ==
  ASSUME IInv, NEW k \in 2 .. Len(fleet), NEW u, Shape(u), Besides(Now, u, k), NEW back \in Back
  PROVE  Unhurt(Recall(u, k, back), k)
<1>1. CASE k > Len(u.fleet) \/ back = NoPortal
  BY <1>1, RemoveUnhurt DEF Recall
<1>2. CASE ~(k > Len(u.fleet) \/ back = NoPortal)
  <2> DEFINE f == [u.fleet[k] EXCEPT !.order = "recall", !.time = back]
             x == FleetSet(u, k, f)
             ships == x.fleet[1].ships \cup f.ships
             y == [x EXCEPT !.fleet[1].ships = ships]
             h == [x.fleet[1] EXCEPT !.ships = ships]
  <2>1. k \in DOMAIN u.fleet /\ k \in Nat \ {0} /\ u.fleet[k] \in Fleet /\ Len(fleet) \in Nat /\ Now.fleet = fleet
    BY <1>2, Holds, NowIs
  <2>2. f \in Fleet /\ f.order # "main"
    <3>1. u.fleet[k] \in Fleet /\ "recall" \in Away /\ back \in -1 .. MaxTime
      BY <1>2, <2>1, Times DEF Away, Back, NoPortal
    <3> QED BY <3>1, GivenOrder, Zenon
  <2>3. Recall(u, k, back) = IF back = 0 THEN FleetRemove(y, k) ELSE x
    BY <1>2 DEF Recall, DoRecall
  <2> HIDE DEF f
  <2>4. Shape(x) /\ x \in World /\ Len(x.fleet) = Len(u.fleet) /\ DOMAIN x.fleet = DOMAIN u.fleet
        /\ \A i \in DOMAIN u.fleet : x.fleet[i] = IF i = k THEN f ELSE u.fleet[i]
    <3>1. f.order = "main" <=> k = 1
      BY <2>2
    <3>2. u \in World /\ k \in Nat \ {0} /\ f \in Fleet
      BY <2>1, <2>2 DEF Besides
    <3>3. Shape(x)
      BY <3>1, <3>2, ShapeSet
    <3>4. x = FleetSet(u, k, f)
      OBVIOUS
    <3> HIDE DEF x
    <3>5. /\ x \in World /\ Len(x.fleet) = Len(u.fleet) /\ DOMAIN x.fleet = DOMAIN u.fleet
          /\ \A i \in DOMAIN u.fleet : x.fleet[i] = IF i = k THEN f ELSE u.fleet[i]
      BY <3>2, <3>4, IsSet
    <3> QED BY <3>3, <3>5
  <2> HIDE DEF x
  <2>5. \A i \in 2 .. Len(fleet) : i \in DOMAIN u.fleet /\ i # 1
    BY <2>1, Holds DEF Besides
  <2>6. Besides(Now, x, k)
    BY <2>1, <2>4, <2>5 DEF Besides
  <2>7. ships \in SUBSET Ship /\ x.fleet[1] \in Fleet
    BY <2>2, <2>4, Holds DEF Fleet
  <2> HIDE DEF ships
  <2>8. h \in Fleet /\ y = FleetSet(x, 1, h) /\ Shape(y)
    BY <2>4, <2>7, MainIs DEF Fleet
  <2> HIDE DEF y, h
  <2>9. y \in World /\ Len(y.fleet) = Len(x.fleet)
        /\ \A i \in DOMAIN x.fleet : y.fleet[i] = IF i = 1 THEN h ELSE x.fleet[i]
    <3>1. x \in World /\ 1 \in Nat \ {0} /\ h \in Fleet /\ y = FleetSet(x, 1, h)
      BY <2>4, <2>8
    <3> QED BY <3>1, IsSet
  <2>10. Besides(Now, y, k)
    BY <2>1, <2>4, <2>5, <2>6, <2>9 DEF Besides
  <2> QED BY <2>3, <2>6, <2>10, RemoveUnhurt
<1> QED BY <1>1, <1>2

LEMMA BattleUnhurt ==
  ASSUME IInv, NEW k \in 2 .. Len(fleet), NEW after \in Standing, NEW back \in Back,
         NEW left \in SUBSET fleet[k].ships, NEW won \in BOOLEAN,
         won => left # {}, left # {} \/ after # "recall"
  PROVE  Unhurt(Battle(k, left, won, after, back), k)
<1> DEFINE f == [fleet[k] EXCEPT !.ships = left]
           d == Destroy(Now, fleet[k].ships \ left)
           u == Fought(k, left)
           w == After(u, k, f, won, after, back)
<1>1. Battle(k, left, won, after, back) = w
  BY DEF Battle, Fought
<1>2. Shape(u) /\ f \in Fleet /\ f.dest \in Planet /\ f.ships = left /\ f.order = fleet[k].order
      /\ (left # {} => k \in 2 .. Len(u.fleet) /\ u.fleet[k] = f)
  <2>1. f \in Fleet /\ Shape(u) /\ f.ships = left /\ f.order = fleet[k].order
        /\ (left # {} => k \in 2 .. Len(u.fleet) /\ u.fleet[k] = f)
    BY FoughtKeeps
  <2> HIDE DEF f
  <2> QED BY <2>1 DEF Fleet
<1>3. /\ Now \in World /\ k \in DOMAIN fleet /\ k \in Nat \ {0} /\ Now.fleet = fleet /\ Len(fleet) \in Nat
      /\ DOMAIN fleet = 1 .. Len(fleet) /\ fleet[k].ships \in SUBSET Ship /\ fleet[k].order # "main"
  BY NowIs, Holds
<1>4. u = IF left = {} THEN FleetRemove(d, k) ELSE FleetSet(d, k, f)
  BY DEF Fought
<1>5. Besides(Now, d, k) /\ d \in World /\ d.fleet = fleet
  <2>1. fleet[k].ships \ left \in SUBSET Ship
    BY <1>3
  <2>2. d \in World /\ d.fleet = fleet
    BY <1>3, <2>1, DestroyIs
  <2> QED BY <1>3, <2>2 DEF Besides
<1> HIDE DEF d, f, u
<1>6. CASE left = {}
  <2>1. w = u
    BY <1>6 DEF After
  <2> QED BY <1>1, <1>4, <1>5, <1>6, <2>1, RemoveUnhurt
<1>7. CASE left # {}
  <2>1. Besides(Now, u, k)
    <3>1. /\ u \in World /\ Len(u.fleet) = Len(fleet)
          /\ \A i \in DOMAIN fleet : u.fleet[i] = IF i = k THEN f ELSE fleet[i]
      <4>1. d \in World /\ k \in Nat \ {0} /\ f \in Fleet /\ u = FleetSet(d, k, f)
        BY <1>2, <1>3, <1>4, <1>5, <1>7
      <4>2. /\ u \in World /\ Len(u.fleet) = Len(d.fleet)
            /\ \A i \in DOMAIN d.fleet : u.fleet[i] = IF i = k THEN f ELSE d.fleet[i]
        BY <4>1, IsSet
      <4> QED BY <1>5, <4>2
    <3> QED BY <1>3, <3>1 DEF Besides
  <2>2. ASSUME NEW v, Shape(v), v.fleet = u.fleet PROVE Besides(Now, v, k)
    BY <2>1, <2>2, Holds DEF Besides
  <2>3. CASE ~won
    <3>1. w = IF after = "recall" THEN Recall(u, k, back) ELSE u
      BY <2>3 DEF After
    <3> HIDE DEF w
    <3> QED BY <1>1, <1>2, <2>1, <3>1, RecallUnhurt, RemoveUnhurt
  <2>4. CASE won
    <3> DEFINE p == f.dest
               x == [owner |-> "me", ships |-> {}]
               v == [u EXCEPT !.planet[p] = x]
               y == [v.planet[p] EXCEPT !.ships = left]
               z == [v EXCEPT !.planet[p] = y]
               h == [f EXCEPT !.order = "canceled", !.waits = FALSE]
    <3>1. x \in Place /\ x.owner = "me" /\ x.ships = {} /\ p \in Planet /\ left \in SUBSET Ship
      BY <1>2, <1>3 DEF Place
    <3>2. w = CASE after = "station" -> FleetRemove(z, k)
                [] after = "wait"    -> FleetSet(v, k, h)
                [] after = "recall"  -> Recall(v, k, back)
      BY <1>2, <2>4 DEF After
    <3>3. Shape(v) /\ v.fleet = u.fleet /\ v \in World /\ v.planet = [u.planet EXCEPT ![p] = x]
          /\ u.planet \in [Planet -> Place]
      <4> HIDE DEF x
      <4>1. u \in World /\ u.planet \in [Planet -> Place]
        BY <1>2, Holds
      <4> QED BY <1>2, <3>1, <4>1, ShapePlanet, PlanetIs
    <3>4. h \in Fleet
      <4>1. "canceled" \in Away \cup {"main"}
        BY DEF Away
      <4> QED BY <1>2, <4>1 DEF Fleet
    <3>5. v.planet[p] = x
      BY <3>1, <3>3
    <3> HIDE DEF v
    <3>6. y \in Place /\ y.owner = "me"
      BY <3>1, <3>5 DEF Place
    <3> HIDE DEF x, p, y, h
    <3>7. Shape(z) /\ z.fleet = v.fleet
      BY <3>1, <3>3, <3>6, ShapePlanet, PlanetIs
    <3> HIDE DEF z, w
    <3>8. Besides(Now, v, k) /\ Besides(Now, z, k)
      BY <2>2, <3>3, <3>7
    <3>9. CASE after = "station"
      BY <1>1, <3>2, <3>8, <3>9, RemoveUnhurt
    <3>10. CASE after = "wait"
      <4>1. w = FleetSet(v, k, h)
        BY <3>2, <3>10
      <4>2. w \in World /\ Len(w.fleet) = Len(v.fleet) /\ \A i \in DOMAIN v.fleet : w.fleet[i] = IF i = k THEN h ELSE v.fleet[i]
        <5>1. v \in World /\ k \in Nat \ {0} /\ h \in Fleet
          BY <1>3, <3>3, <3>4
        <5> QED BY <4>1, <5>1, IsSet
      <4>3. Besides(Now, w, k)
        <5>1. \A i \in 2 .. Len(fleet) : i \in DOMAIN v.fleet
          BY <1>3, <3>3, <3>8, Holds DEF Besides
        <5> QED BY <1>3, <3>8, <4>2, <5>1 DEF Besides
      <4> QED BY <1>1, <4>3, RemoveUnhurt
    <3>11. CASE after = "recall"
      <4>1. w = Recall(v, k, back)
        BY <3>2, <3>11
      <4> QED BY <1>1, <3>3, <3>8, <4>1, RecallUnhurt
    <3> QED BY <3>9, <3>10, <3>11 DEF Standing
  <2> QED BY <2>3, <2>4
<1> QED BY <1>6, <1>7

\* A battle and the standing order that follows it leave every other fleet of the
\* player as it is, wherever the order to remove or to recall finds the list.
THEOREM BattlesStayAlone == Spec => []BattleAlone
<1>1. IInv => BattleAlone
  <2> SUFFICES ASSUME IInv, NEW k \in 2 .. Len(fleet), NEW after \in Standing, NEW back \in {NoPortal} \cup 0 .. MaxTime,
                      NEW left \in SUBSET fleet[k].ships, NEW won \in BOOLEAN,
                      won => left # {}, left # {} \/ after # "recall"
               PROVE  Unhurt(Battle(k, left, won, after, back), k)
    BY DEF BattleAlone, Unhurt
  <2>1. back \in Back
    BY DEF Back
  <2> QED BY <2>1, BattleUnhurt
<1> QED BY <1>1, Invariance, PTL

-----------------------------------------------------------------------------
(* Where a ship is in the course of the walk. *)

\* A fleet in the list w holds the ship s and is one tick nearer than c.
Ahead(w, s, c) == \E m \in 2 .. Len(w.fleet) :
  /\ s \in w.fleet[m].ships /\ w.fleet[m].order = c.order /\ w.fleet[m].time = c.time - 1
  /\ ~w.fleet[m].waits

LEMMA NearerStep ==
  ASSUME IInv, Sound(Now), NEW k \in 2 .. Len(fleet), fleet[k].time > 1, ~fleet[k].waits,
         NEW dead, NEW s \in fleet[k].ships \ dead, NEW luck, NEW at, Path(at, dead, luck),
         NEW b \in 2 .. Len(fleet), b <= k, b < k => Ahead(at[b], s, fleet[k])
  PROVE  Ahead(at[b - 1], s, fleet[k])
<1> DEFINE w == at[b]
           v == at[b - 1]
           c == fleet[k]
           f == Aged(fleet[b], dead)
<1>1. /\ k \in DOMAIN fleet /\ b \in DOMAIN fleet /\ c \in Fleet /\ Kept(Now, DOMAIN fleet)
      /\ s \in Ship /\ b \in 1 .. Len(fleet) /\ Now.fleet = fleet
  BY NowIs DEF Sound
<1>2. \/ Still(fleet[b], dead) /\ v = w
      \/ w.fleet[b] = fleet[b] /\ Visited(w, v, b, f, luck)
  BY DEF Path
<1>3. Shape(w) /\ Len(w.fleet) \in Nat
  BY <1>1, Holds DEF Path, Walking
<1> HIDE DEF w, v
<1>4. CASE b = k
  <2>1. ~Still(fleet[b], dead) /\ c.time # 0 /\ c.time - 1 # 0 /\ c.time \in Int
    <3>1. c.time \in -1 .. MaxTime /\ MaxTime \in Nat
      BY <1>1, Times DEF Fleet
    <3> QED BY <1>4, <3>1 DEF Still
  <2>2. /\ f.ships = c.ships \ dead /\ f.order = c.order /\ f.waits = c.waits /\ f.time = c.time - 1
    BY <1>1, <1>4, <2>1, AgedIs
  <2> HIDE DEF f
  <2>3. b <= Len(v.fleet) /\ v.fleet[b] = f /\ Len(v.fleet) \in Nat
    BY <1>2, <2>1, <2>2 DEF Visited
  <2>4. b \in 2 .. Len(v.fleet)
    BY <2>3
  <2>5. Ahead(v, s, c)
    BY <2>2, <2>3, <2>4 DEF Ahead
  <2> QED BY <2>5 DEF v
<1>5. CASE b # k
  <2>1. Ahead(w, s, c)
    BY <1>5 DEF w
  <2>2. CASE v = w
    BY <2>1, <2>2 DEF v
  <2>3. CASE w.fleet[b] = fleet[b] /\ Visited(w, v, b, f, luck)
    <3> HIDE DEF f, c
    <3>1. PICK m \in 2 .. Len(w.fleet) :
            /\ s \in w.fleet[m].ships /\ w.fleet[m].order = c.order /\ w.fleet[m].time = c.time - 1
            /\ ~w.fleet[m].waits
      BY <2>1 DEF Ahead
    <3>2. s \notin fleet[b].ships
      BY <1>1, <1>5 DEF Kept
    <3>3. m # b /\ ~Waits(w.fleet[m])
      BY <2>3, <3>1, <3>2 DEF Waits
    <3>4. PICK n \in 2 .. Len(v.fleet) : v.fleet[n] = w.fleet[m]
      BY <2>3, <3>3 DEF Visited
    <3>5. Ahead(v, s, c)
      BY <3>1, <3>4 DEF Ahead
    <3> QED BY <3>5 DEF v, c
  <2> QED BY <1>2, <2>2, <2>3
<1> QED BY <1>4, <1>5

LEMMA Nearer ==
  ASSUME IInv, Sound(Now), ~Crossing, NEW k \in 2 .. Len(fleet), fleet[k].time > 1, ~fleet[k].waits,
         NEW luck \in Luck, NEW dead \in Decaying, NEW s \in fleet[k].ships \ dead
  PROVE  Comes(Walk(Now, dead, luck), s, fleet[k].order, fleet[k].time - 1)
<1> DEFINE n == Len(fleet)
           c == fleet[k]
<1>1. dead \subseteq Phantom /\ n \in Nat /\ k \in 2 .. n
  BY Lost, NowIs
<1>2. PICK at : Path(at, dead, luck) /\ at[0] = Walk(Now, dead, luck)
  BY <1>1, WalkPath
<1> HIDE DEF n
<1> DEFINE S == {a \in 0 .. n : a >= 1 /\ a < k => Ahead(at[a], s, c)}
<1>3. n \in S
  BY <1>1
<1>4. ASSUME NEW a \in 0 .. n - 1, a + 1 \in S PROVE a \in S
  <2>1. a \in 0 .. n
    BY <1>1
  <2>2. CASE a >= 1 /\ a < k
    <3>1. a + 1 \in 2 .. n /\ a + 1 >= 1 /\ a + 1 <= k /\ (a + 1) - 1 = a
      BY <1>1, <2>2
    <3>2. a + 1 < k => Ahead(at[a + 1], s, c)
      BY <1>4, <3>1
    <3>3. Ahead(at[(a + 1) - 1], s, c)
      BY <1>2, <3>1, <3>2, NearerStep DEF n
    <3> QED BY <2>1, <3>1, <3>3
  <2> QED BY <2>1, <2>2
<1> HIDE DEF S
<1>5. 1 \in S
  <2>1. \A a \in 0 .. n : a \in S
    BY <1>1, <1>3, <1>4, Down
  <2> QED BY <1>1, <2>1
<1>6. Ahead(at[1], s, c)
  BY <1>1, <1>5 DEF S
<1>7. Shape(at[0]) /\ Len(at[0].fleet) = Len(at[1].fleet) /\ \A i \in 2 .. Len(at[1].fleet) : at[0].fleet[i] = at[1].fleet[i]
  BY <1>2 DEF Path
<1>8. \A i \in 2 .. Len(at[0].fleet) : i \in DOMAIN at[0].fleet
  BY <1>7, Holds
<1> HIDE DEF c
<1>9. Comes(at[0], s, c.order, c.time - 1)
  BY <1>6, <1>7, <1>8 DEF Ahead, Comes
<1> QED BY <1>2, <1>9 DEF c

\* Unless merging fleets cross, a tick brings every ship on its way one tick
\* nearer, whatever the fleets that arrive do to the positions of the list.
THEOREM JourneysGoOn == Spec => []JourneysShorten
<1>1. IInv => JourneysShorten
  <2> SUFFICES ASSUME IInv, ~crossed, ~Crossing, NEW k \in 2 .. Len(fleet), fleet[k].time > 1, ~fleet[k].waits,
                      NEW luck \in Luck, NEW dead \in Decaying, NEW s \in fleet[k].ships \ dead
               PROVE  Comes(Walk(Now, dead, luck), s, fleet[k].order, fleet[k].time - 1)
    BY DEF JourneysShorten
  <2>1. Sound(Now)
    BY DEF IInv
  <2> QED BY <2>1, Nearer
<1> QED BY <1>1, Invariance, PTL

\* Who of the list w is to operate with the ship s has not been visited yet.
Unvisited(w, s, a) == \A m \in 2 .. Len(w.fleet) :
  s \in w.fleet[m].ships /\ w.fleet[m].order = "op" => m <= a /\ w.fleet[m] = fleet[m]

LEMMA OnceStep ==
  ASSUME IInv, Sound(Now), NEW k \in 2 .. Len(fleet), fleet[k].order = "op", fleet[k].time <= 1,
         NEW dead, NEW s \in fleet[k].ships, NEW luck, luck.back # NoPortal, NEW at, Path(at, dead, luck),
         NEW b \in 2 .. Len(fleet), Unvisited(at[b], s, b)
  PROVE  Unvisited(at[b - 1], s, b - 1)
<1> DEFINE w == at[b]
           v == at[b - 1]
           c == fleet[b]
           f == Aged(c, dead)
<1>1. /\ k \in DOMAIN fleet /\ b \in DOMAIN fleet /\ c \in Fleet /\ Kept(Now, DOMAIN fleet) /\ Timed(c)
      /\ s \in Ship /\ b \in 1 .. Len(fleet) /\ b - 1 \in 1 .. Len(fleet) /\ b \in Nat /\ Now.fleet = fleet
  BY NowIs DEF Sound
<1>2. \/ Still(c, dead) /\ v = w
      \/ w.fleet[b] = c /\ Visited(w, v, b, f, luck)
  BY DEF Path
<1>3. Shape(v) /\ Sound(v) /\ b - 1 <= Len(v.fleet)
  BY <1>1 DEF Path, Walking
<1> HIDE DEF w, v
<1>4. SUFFICES ASSUME NEW m \in 2 .. Len(v.fleet), s \in v.fleet[m].ships, v.fleet[m].order = "op"
               PROVE  m <= b - 1 /\ v.fleet[m] = fleet[m]
  BY DEF Unvisited, v
<1>5. \A i \in 2 .. Len(w.fleet) : s \in w.fleet[i].ships /\ w.fleet[i].order = "op" => i <= b /\ w.fleet[i] = fleet[i]
  BY DEF Unvisited, w
<1>6. m \in Nat
  OBVIOUS
<1>7. CASE Still(c, dead) /\ v = w
  <2>1. m <= b /\ v.fleet[m] = fleet[m]
    BY <1>4, <1>5, <1>7
  <2>2. c.order # "op"
    BY <1>1, <1>7 DEF Still, Timed
  <2>3. m # b
    BY <1>4, <2>1, <2>2
  <2> QED BY <1>1, <1>6, <2>1, <2>3
<1>8. CASE w.fleet[b] = c /\ Visited(w, v, b, f, luck)
  <2>1. f.order = c.order /\ f.ships \subseteq c.ships /\ f.time = IF c.time > 0 THEN c.time - 1 ELSE c.time
    BY <1>1, AgedIs
  <2> HIDE DEF f
  <2>2. \/ \E i \in 2 .. Len(w.fleet) : i # b /\ v.fleet[m] = w.fleet[i]
        \/ Result(v.fleet[m], f, luck)
        \/ f.time # 0 /\ m = b /\ v.fleet[m] = f
    BY <1>8 DEF Visited
  <2>3. ~Result(v.fleet[m], f, luck)
    BY <1>4 DEF Result
  <2>4. ~(f.time # 0 /\ m = b /\ v.fleet[m] = f)
    <3> SUFFICES ASSUME f.time # 0, v.fleet[m] = f PROVE FALSE
      OBVIOUS
    <3>1. s \in c.ships /\ c.order = "op"
      BY <1>4, <2>1
    <3>2. b = k
      BY <1>1, <3>1 DEF Kept
    <3>3. c.time >= 0 /\ c.time <= 1 /\ c.time \in -1 .. MaxTime /\ MaxTime \in Nat
      BY <1>1, <3>1, <3>2, Times DEF Timed, Fleet
    <3> QED BY <2>1, <3>3
  <2>5. PICK i \in 2 .. Len(w.fleet) : i # b /\ v.fleet[m] = w.fleet[i]
    BY <2>2, <2>3, <2>4
  <2>6. i <= b /\ w.fleet[i] = fleet[i]
    BY <1>4, <1>5, <2>5
  <2>7. i \in 2 .. b - 1
    BY <1>1, <2>5, <2>6
  <2>8. v.fleet[i] = w.fleet[i]
    <3>1. v.fleet[i] = w.fleet[i] \/ Waits(w.fleet[i])
      BY <1>8, <2>7 DEF Visited
    <3> QED BY <1>4, <2>5, <3>1 DEF Waits
  <2>9. i = m
    <3>1. i \in DOMAIN v.fleet /\ m \in DOMAIN v.fleet
      BY <1>1, <1>3, <2>7, Holds
    <3>2. s \in v.fleet[i].ships
      BY <1>4, <2>5, <2>8
    <3>3. Kept(v, DOMAIN v.fleet)
      BY <1>3 DEF Sound
    <3> QED BY <1>1, <1>4, <3>1, <3>2, <3>3 DEF Kept
  <2> QED BY <2>6, <2>7, <2>8, <2>9
<1> QED BY <1>2, <1>7, <1>8

LEMMA Once ==
  ASSUME IInv, Sound(Now), ~Crossing, NEW k \in 2 .. Len(fleet), fleet[k].order = "op", fleet[k].time <= 1,
         NEW luck \in Luck, luck.back # NoPortal, NEW dead \in Decaying, NEW s \in fleet[k].ships
  PROVE  LET w == Walk(Now, dead, luck)
         IN ~(\E m \in DOMAIN w.fleet : s \in w.fleet[m].ships /\ w.fleet[m].order = "op")
<1> DEFINE n == Len(fleet)
<1>1. dead \subseteq Phantom /\ n \in Nat /\ k \in 2 .. n /\ Now.fleet = fleet
  BY Lost, NowIs
<1>2. PICK at : Path(at, dead, luck) /\ at[0] = Walk(Now, dead, luck)
  BY <1>1, WalkPath
<1>3. at[n] = Now
  BY <1>2 DEF Path
<1> HIDE DEF n
<1> DEFINE S == {a \in 0 .. n : a >= 1 => Unvisited(at[a], s, a)}
<1>4. n \in S
  <2>1. Unvisited(Now, s, n)
    BY <1>1 DEF Unvisited, n
  <2> QED BY <1>1, <1>3, <2>1
<1>5. ASSUME NEW a \in 0 .. n - 1, a + 1 \in S PROVE a \in S
  <2>1. a \in 0 .. n
    BY <1>1
  <2>2. CASE a >= 1
    <3>1. a + 1 \in 2 .. n /\ a + 1 >= 1 /\ (a + 1) - 1 = a
      BY <1>1, <2>2
    <3>2. Unvisited(at[a + 1], s, a + 1)
      BY <1>5, <3>1
    <3>3. Unvisited(at[(a + 1) - 1], s, (a + 1) - 1)
      BY <1>2, <3>1, <3>2, OnceStep DEF n
    <3> QED BY <2>1, <3>1, <3>3
  <2> QED BY <2>1, <2>2
<1> HIDE DEF S
<1>6. 1 \in S
  <2>1. \A a \in 0 .. n : a \in S
    BY <1>1, <1>4, <1>5, Down
  <2> QED BY <1>1, <2>1
<1>7. Unvisited(at[1], s, 1)
  BY <1>6 DEF S
<1>8. Shape(at[0]) /\ Len(at[0].fleet) = Len(at[1].fleet) /\ \A i \in 2 .. Len(at[1].fleet) : at[0].fleet[i] = at[1].fleet[i]
  BY <1>2 DEF Path
<1>9. ASSUME NEW m \in DOMAIN at[0].fleet, s \in at[0].fleet[m].ships, at[0].fleet[m].order = "op" PROVE FALSE
  <2>1. m # 1 /\ m \in 1 .. Len(at[0].fleet) /\ Len(at[0].fleet) \in Nat
    BY <1>8, <1>9, Holds
  <2>2. m \in 2 .. Len(at[1].fleet) /\ ~(m <= 1)
    BY <1>8, <2>1
  <2> QED BY <1>7, <1>8, <1>9, <2>2 DEF Unvisited
<1> QED BY <1>2, <1>9

\* Unless merging fleets cross, an operation that falls due in a tick is carried
\* out once: no ship of its fleet is left with the order, as long as a portal is
\* left to come back to.
THEOREM OperationsHappenOnce == Spec => []OperatesOnce
<1>1. IInv => OperatesOnce
  <2> SUFFICES ASSUME IInv, ~crossed, ~Crossing, NEW k \in 2 .. Len(fleet),
                      fleet[k].order = "op", fleet[k].time <= 1,
                      NEW luck \in Luck, NEW dead \in Decaying, luck.back # NoPortal, NEW s \in fleet[k].ships
               PROVE  LET w == Walk(Now, dead, luck)
                      IN ~(\E m \in DOMAIN w.fleet : s \in w.fleet[m].ships /\ w.fleet[m].order = "op")
    BY DEF OperatesOnce
  <2>1. Sound(Now)
    BY DEF IInv
  <2> QED BY <2>1, Once
<1> QED BY <1>1, Invariance, PTL

=============================================================================
