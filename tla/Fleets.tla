------------------------------- MODULE Fleets -------------------------------
(***************************************************************************)
(* The fleets of one player: the pages that send, split, merge, recall and *)
(* disband them, battles, the operations they carry, and the walk of the   *)
(* tick over the whole list.                                               *)
(*                                                                         *)
(* The list is a dense array in the player's file; element 1 is the main   *)
(* fleet, which stays at home.  The tick walks a COPY of the list from the *)
(* last position to the first and writes its copies back by position,      *)
(* while the orders it carries out merge and remove fleets in the file.    *)
(*                                                                         *)
(* Units are told apart ("Ship") so that a property can follow each one.   *)
(* Distances, losses and the luck of battles and operations are any the    *)
(* code can compute.  Left out: units that travel inside carriers, the     *)
(* decay of every kind when energy runs out, and what an ancient           *)
(* civilisation gives or takes besides the explorers.  Whose planet is     *)
(* whose is modelled in full in Planets.                                   *)
(***************************************************************************)
EXTENDS Naturals, Integers, Sequences, FiniteSets, SwapArrays

CONSTANTS
  Ship,       \* units of all kinds
  Probe,      \* exploration ships
  Agent,      \* agents and ghost ships
  Phantom,    \* units that decay at every tick
  Planet,
  MaxTime,    \* bound on the ticks a journey takes
  MaxFleets   \* bound on the fleets besides the main one

ASSUME FleetConstants ==
  /\ Probe \subseteq Ship /\ Agent \subseteq Ship /\ Phantom \subseteq Ship
  /\ Probe \cap Agent = {} /\ Phantom \cap (Probe \cup Agent) = {}
  /\ MaxTime \in Nat \ {0} /\ MaxFleets \in Nat

VARIABLES
  fleet,   \* the file of the player's fleets
  planet,  \* owner, and the player's ships stationed there
  gone,    \* history: ships that the rules of the game destroyed
  crossed  \* history: merging fleets crossed in the walk of a tick

vars == <<fleet, planet, gone, crossed>>

Away   == {"explore", "station", "move", "attack", "recall", "canceled", "merge", "op"}
Mover  == Ship \ (Probe \cup Agent)
Fleet  == [order: Away \cup {"main"}, dest: Planet, time: -1 .. MaxTime, waits: BOOLEAN, ships: SUBSET Ship]
Now    == [fleet |-> fleet, planet |-> planet, gone |-> gone]
Written(w) == fleet' = w.fleet /\ planet' = w.planet /\ gone' = w.gone
Become(w)  == Written(w) /\ UNCHANGED crossed

Init == \E p \in Planet :
  /\ fleet = << [order |-> "main", dest |-> p, time |-> 0, waits |-> FALSE, ships |-> Ship] >>
  /\ planet = [q \in Planet |-> [owner |-> "none", ships |-> {}]]
  /\ gone = {}
  /\ crossed = FALSE

-----------------------------------------------------------------------------
(* The file.  Positions past its end are refused. *)

FleetAdd(w, f)    == [w EXCEPT !.fleet = Append(w.fleet, f)]
FleetSet(w, k, f) == IF k > Len(w.fleet) THEN w ELSE [w EXCEPT !.fleet[k] = f]
FleetRemove(w, k) == IF k > Len(w.fleet) THEN w ELSE [w EXCEPT !.fleet = SwapRemove(w.fleet, k)]

-----------------------------------------------------------------------------
(* cmdFleetAction: a fleet that has arrived carries out its order.  "luck"  *)
(* is what chance decides: the agents lost, whether the explorers meet a    *)
(* hostile civilisation, whether a portal is left and how far it is.        *)

NoPortal == -1
Luck == [lost: SUBSET Agent, hostile: BOOLEAN, back: {NoPortal} \cup 0 .. MaxTime]
NoLuck == [lost |-> {}, hostile |-> FALSE, back |-> 0]

Destroy(w, ships) == [w EXCEPT !.gone = w.gone \cup ships]
Held(w, k, f, order) == FleetSet(w, k, [f EXCEPT !.order = order, !.time = -1])

DoExplore(w, k, f, luck) ==
  IF w.planet[f.dest].owner # "none" THEN Held(w, k, f, "canceled")
  ELSE LET v == FleetRemove(Destroy(w, f.ships), k)
       IN IF luck.hostile THEN v ELSE [v EXCEPT !.planet[f.dest] = [owner |-> "me", ships |-> {}]]

DoStation(w, k, f) ==
  IF w.planet[f.dest].owner # "me" THEN Held(w, k, f, "canceled")
  ELSE FleetRemove([w EXCEPT !.planet[f.dest].ships = w.planet[f.dest].ships \cup f.ships], k)

\* The first other fleet that merges and has the flag, wherever it is: the
\* planet compared in the code is -1 in every merging fleet.
Partners(w, k) ==
  {i \in 2 .. Len(w.fleet) : i # k /\ w.fleet[i].order = "merge" /\ w.fleet[i].waits}

DoMerge(w, k, f) ==
  IF Partners(w, k) = {} THEN FleetSet(w, k, [f EXCEPT !.waits = TRUE, !.time = -1])
  ELSE LET n == Min(Partners(w, k))
       IN FleetRemove(FleetSet(w, k, [f EXCEPT !.ships = f.ships \cup w.fleet[n].ships,
                                     !.order = "move", !.time = -1, !.waits = FALSE]), n)

DoRecall(w, k, f) ==
  FleetRemove([w EXCEPT !.fleet[1].ships = w.fleet[1].ships \cup f.ships], k)

\* cmdExecChangeFleet(RECALL) reads the fleet at its position again; without
\* a portal to come back to it fails and the order stands.
Recall(w, k, back) ==
  IF k > Len(w.fleet) \/ back = NoPortal THEN w
  ELSE LET f == [w.fleet[k] EXCEPT !.order = "recall", !.time = back]
       IN IF back = 0 THEN DoRecall(FleetSet(w, k, f), k, f) ELSE FleetSet(w, k, f)

Operated(w, k, f, lost) ==
  IF f.ships \cap lost = {} THEN w
  ELSE FleetSet(Destroy(w, f.ships \cap lost), k, [f EXCEPT !.ships = f.ships \ lost])
DoOpForgetting(w, k, f, luck) == Operated(w, k, f, luck.lost)   \* Mutant of DoOp
DoOp(w, k, f, luck) == Recall(Operated(w, k, f, luck.lost), k, luck.back)

FleetAction(w, k, f, luck) ==
  CASE f.order = "explore"          -> DoExplore(w, k, f, luck)
    [] f.order = "station"          -> DoStation(w, k, f)
    [] f.order = "merge"            -> DoMerge(w, k, f)
    [] f.order \in {"move", "attack"} -> FleetSet(w, k, [f EXCEPT !.time = -1])
    [] f.order = "recall"           -> DoRecall(w, k, f)
    [] f.order = "op"               -> DoOp(w, k, f, luck)
    [] f.order \in {"canceled", "main"} -> w

-----------------------------------------------------------------------------
(* The player's pages.  Ships leave the main fleet, a fleet is added, and   *)
(* one that has no way to go acts at once.                                  *)

Depart(order, p, ships, time, luck) ==
  LET f == [order |-> order, dest |-> p, time |-> time, waits |-> FALSE, ships |-> ships]
      w == FleetAdd([Now EXCEPT !.fleet[1].ships = fleet[1].ships \ ships], f)
  IN /\ Len(fleet) <= MaxFleets
     /\ ships # {} /\ ships \subseteq fleet[1].ships
     /\ Become(IF time = 0 THEN FleetAction(w, Len(w.fleet), f, luck) ELSE w)

SendFleet == \E p \in Planet, order \in {"move", "station", "attack"}, time \in 0 .. MaxTime,
                ships \in SUBSET Mover :
  Depart(order, p, ships, time, NoLuck)

\* Agents to operate on a planet, ghost ships to perform an incantation.
SendAgents == \E p \in Planet, time \in 0 .. MaxTime, ships \in SUBSET Agent :
  \E luck \in IF time = 0 THEN Luck ELSE {NoLuck} : Depart("op", p, ships, time, luck)

Explore == \E p \in Planet, time \in 1 .. MaxTime, s \in Probe :
  /\ planet[p].owner = "none"
  /\ Depart("explore", p, {s}, time, NoLuck)

\* A fleet that is given another order calls off every merge besides.
CallOff(w, k) ==
  LET Off(i) == IF i # 1 /\ i # k /\ w.fleet[i].order = "merge"
                THEN [w.fleet[i] EXCEPT !.order = "canceled", !.time = -1] ELSE w.fleet[i]
  IN [w EXCEPT !.fleet = SubSeq([i \in DOMAIN w.fleet |-> Off(i)], 1, Len(w.fleet))]

\* The orders the page offers, by what the fleet holds.
Offered(f) ==
  IF f.ships \cap Probe # {} THEN {"explore", "move", "recall"}
  ELSE IF f.ships \cap Agent # {} THEN {"recall"}
  ELSE {"attack", "station", "move", "recall"}

ChangeFleet(k) == \E order \in Offered(fleet[k]), p \in Planet, time \in {NoPortal} \cup 0 .. MaxTime :
  LET w == IF fleet[k].order = "merge" THEN CallOff(Now, k) ELSE Now
      f == [fleet[k] EXCEPT !.order = order, !.dest = p, !.time = time]
  IN \/ order = "recall" /\ Become(Recall(w, k, time))
     \/ order \in {"move", "explore"} /\ time >= 1 /\ Become(FleetSet(w, k, f))
     \/ order \in {"attack", "station"} /\ time >= 1 /\ Become(FleetSet(w, k, f))
     \/ order \in {"attack", "station"} /\ time = 0
        /\ Become(FleetAction(FleetSet(w, k, f), k, f, NoLuck))

\* Two fleets are sent to meet half way.
Mergeable(k) == fleet[k].ships \cap Mover # {}
CallOffFor(w, k) == IF w.fleet[k].order = "merge" THEN CallOff(w, k) ELSE w

FleetsMerge(i, k) == \E p \in Planet, t1, t2 \in 1 .. MaxTime :
  LET w      == CallOffFor(CallOffFor(Now, i), k)
      To(f, t) == [f EXCEPT !.order = "merge", !.dest = p, !.time = t]
  IN /\ i # k /\ Mergeable(i) /\ Mergeable(k)
     /\ Become([w EXCEPT !.fleet[i] = To(w.fleet[i], t1), !.fleet[k] = To(w.fleet[k], t2)])

FleetsSplit(k) == \E ships \in SUBSET (fleet[k].ships \cap Mover) :
  /\ Len(fleet) <= MaxFleets
  /\ ships # {} /\ ships # fleet[k].ships
  /\ Become(FleetSet(FleetAdd(Now, [fleet[k] EXCEPT !.ships = ships]), k,
                [fleet[k] EXCEPT !.ships = fleet[k].ships \ ships]))

Disband(k) == \E s \in fleet[k].ships :
  Become(Destroy(FleetSet(Now, k, [fleet[k] EXCEPT !.ships = fleet[k].ships \ {s}]), {s}))

Waiting(p, ships) ==
  [order |-> "canceled", dest |-> p, time |-> 0, waits |-> FALSE, ships |-> ships]

Unstation(p) ==
  /\ Len(fleet) <= MaxFleets
  /\ planet[p].owner = "me" /\ planet[p].ships # {}
  /\ Become(FleetAdd([Now EXCEPT !.planet[p].ships = {}], Waiting(p, planet[p].ships)))

-----------------------------------------------------------------------------
(* Battles.  The fleet is set or removed at its position first; then the    *)
(* player's standing order for fleets after an attack is followed there.    *)

Standing == {"station", "wait", "recall"}

AfterAnyway(w, k, f, won, after, back) ==   \* Mutant of After
  LET v == IF won THEN [w EXCEPT !.planet[f.dest] = [owner |-> "me", ships |-> {}]] ELSE w
  IN CASE after = "station" -> FleetRemove([v EXCEPT !.planet[f.dest].ships = f.ships], k)
       [] after = "wait"    -> FleetSet(v, k, [f EXCEPT !.order = "canceled", !.waits = FALSE])
       [] after = "recall"  -> Recall(v, k, back)
After(w, k, f, won, after, back) ==
  IF won
  THEN LET v == [w EXCEPT !.planet[f.dest] = [owner |-> "me", ships |-> {}]]
       IN CASE after = "station" -> FleetRemove([v EXCEPT !.planet[f.dest].ships = f.ships], k)
            [] after = "wait"    -> FleetSet(v, k, [f EXCEPT !.order = "canceled", !.waits = FALSE])
            [] after = "recall"  -> Recall(v, k, back)
  ELSE IF after = "recall" THEN Recall(w, k, back) ELSE w

Battle(k, left, won, after, back) ==
  LET f == [fleet[k] EXCEPT !.ships = left]
      w == Destroy(Now, fleet[k].ships \ left)
  IN After(IF left = {} THEN FleetRemove(w, k) ELSE FleetSet(w, k, f), k, f, won, after, back)

AttackPlanet(k) == \E left \in SUBSET fleet[k].ships, won \in BOOLEAN, after \in Standing,
                      back \in {NoPortal} \cup 0 .. MaxTime :
  /\ fleet[k].order = "attack" /\ fleet[k].time = -1
  /\ planet[fleet[k].dest].owner = "foe"
  /\ won => left # {}
  /\ Become(Battle(k, left, won, after, back))

\* Somebody attacks a planet of the player's: what is stationed there fights,
\* and the main fleet too.  Who is left when it falls becomes a fleet.
Attacked(p) ==
  \E dead \in SUBSET ((planet[p].ships \cup fleet[1].ships) \cap Mover), falls \in BOOLEAN :
  LET left == planet[p].ships \ dead
      w    == Destroy([Now EXCEPT !.fleet[1].ships = fleet[1].ships \ dead,
                                  !.planet[p] = IF falls THEN [owner |-> "foe", ships |-> {}]
                                                ELSE [owner |-> "me", ships |-> left]], dead)
  IN /\ planet[p].owner = "me"
     /\ falls /\ left # {} => Len(fleet) <= MaxFleets
     /\ Become(IF falls /\ left # {} THEN FleetAdd(w, Waiting(p, left)) ELSE w)

\* Somebody explores a planet.
Settled(p) ==
  /\ planet[p].owner = "none"
  /\ planet' = [planet EXCEPT ![p].owner = "foe"]
  /\ UNCHANGED <<fleet, gone, crossed>>

-----------------------------------------------------------------------------
(* The tick. *)

\* Units that are built join the main fleet.
Built == \E s \in gone :
  /\ fleet' = [fleet EXCEPT ![1].ships = fleet[1].ships \cup {s}]
  /\ gone' = gone \ {s}
  /\ UNCHANGED <<planet, crossed>>

\* One position of the walk: decay, an empty fleet is dropped, the journey
\* goes on, and the fleet that has arrived acts.  Only the main fleet is
\* read again.
VisitStale(copy, dead, luck, w, a) ==   \* Mutant of Visit
  LET f  == [copy[a] EXCEPT !.ships = copy[a].ships \ dead,
                            !.time = IF copy[a].time > 0 THEN copy[a].time - 1 ELSE copy[a].time]
      w1 == Destroy(w, copy[a].ships \cap dead)
      w2 == IF copy[a].time > 0 \/ copy[a].ships \cap dead # {} THEN FleetSet(w1, a, f) ELSE w1
  IN IF a # 1 /\ f.ships = {} THEN FleetRemove(w1, a)
     ELSE IF a # 1 /\ f.time = 0 THEN FleetAction(w2, a, f, luck) ELSE w2
VisitUnsaved(copy, dead, luck, w, a) ==   \* Mutant of Visit
  LET read == IF a = 1 THEN w.fleet[1] ELSE copy[a]
      f    == [read EXCEPT !.ships = read.ships \ dead,
                           !.time = IF read.time > 0 THEN read.time - 1 ELSE read.time]
      w1   == Destroy(w, read.ships \cap dead)
      w2   == IF f.time = 0 \/ read.ships \cap dead # {} THEN FleetSet(w1, a, f) ELSE w1
  IN IF a # 1 /\ f.ships = {} THEN FleetRemove(w1, a)
     ELSE IF a # 1 /\ f.time = 0 THEN FleetAction(w2, a, f, luck) ELSE w2
Visit(copy, dead, luck, w, a) ==
  LET read == IF a = 1 THEN w.fleet[1] ELSE copy[a]
      f    == [read EXCEPT !.ships = read.ships \ dead,
                           !.time = IF read.time > 0 THEN read.time - 1 ELSE read.time]
      w1   == Destroy(w, read.ships \cap dead)
      w2   == IF read.time > 0 \/ read.ships \cap dead # {} THEN FleetSet(w1, a, f) ELSE w1
  IN IF a # 1 /\ f.ships = {} THEN FleetRemove(w1, a)
     ELSE IF a # 1 /\ f.time = 0 THEN FleetAction(w2, a, f, luck) ELSE w2

\* at[a] is what the walk has made of it when every position above a is done.
Walk(w, dead, luck) ==
  LET n == Len(w.fleet)
      at[a \in 0 .. n] == IF a = n THEN w ELSE Visit(w.fleet, dead, luck, at[a + 1], a + 1)
  IN at[0]

\* Every fleet, and then every planet, with phantoms loses at least one of them.
Lessened(places) ==
  {dead \in SUBSET (Phantom \cap UNION places) :
     \A ships \in places : ships \cap Phantom # {} => ships \cap dead # {}}
Decaying   == Lessened({fleet[k].ships : k \in DOMAIN fleet})
Rotting(w) == Lessened({w.planet[p].ships : p \in Planet})

Rotted(w, dead) ==
  [w EXCEPT !.gone = w.gone \cup (dead \cap UNION {w.planet[p].ships : p \in Planet}),
            !.planet = [p \in Planet |-> [w.planet[p] EXCEPT !.ships = w.planet[p].ships \ dead]]]

\* A fleet about to merge finds one before it in the list whose position the
\* walk will still write or empty: that one is on its way again with an old
\* flag, decays, or has been disbanded down to nothing.
Crossing == \E i, k \in 2 .. Len(fleet) :
  /\ i < k
  /\ fleet[k].order = "merge" /\ fleet[k].time = 1
  /\ fleet[i].order = "merge" /\ fleet[i].waits
  /\ fleet[i].time > 0 \/ fleet[i].ships \cap Phantom # {} \/ fleet[i].ships = {}

Tick == \E luck \in Luck, dead \in Decaying :
  /\ LET w == Walk(Now, dead, luck) IN \E rot \in Rotting(w) : Written(Rotted(w, rot))
  /\ crossed' = (crossed \/ Crossing)

Next ==
  \/ SendFleet \/ SendAgents \/ Explore
  \/ \E k \in 2 .. Len(fleet) : ChangeFleet(k) \/ FleetsSplit(k) \/ AttackPlanet(k)
  \/ \E i, k \in 2 .. Len(fleet) : FleetsMerge(i, k)
  \/ \E k \in DOMAIN fleet : Disband(k)
  \/ \E p \in Planet : Unstation(p) \/ Attacked(p) \/ Settled(p)
  \/ Built \/ Tick

Spec == Init /\ [][Next]_vars

\* Bound: a run looks no further once ships were lost or copied.
BeforeCrossing == ~crossed

-----------------------------------------------------------------------------
(* Properties. *)

\* The first fleet is the main fleet and no other is; the rest by type.
TypeOK ==
  /\ fleet \in Seq(Fleet)
  /\ planet \in [Planet -> [owner: {"none", "me", "foe"}, ships: SUBSET Ship]]
  /\ gone \in SUBSET Ship /\ crossed \in BOOLEAN
  /\ Len(fleet) \in 1 .. MaxFleets + 1
  /\ \A k \in DOMAIN fleet : fleet[k].order = "main" <=> k = 1

\* Ships are stationed only on planets the player holds.
StationedAtHome == \A p \in Planet : planet[p].ships # {} => planet[p].owner = "me"

\* Unless merging fleets crossed in a tick, every ship is in one fleet, on one
\* planet or destroyed: the pages, battles and ticks neither lose nor copy any.
ShipsKept ==
  ~crossed => \A s \in Ship :
    Cardinality({k \in DOMAIN fleet : s \in fleet[k].ships})
      + Cardinality({p \in Planet : s \in planet[p].ships}) = IF s \in gone THEN 0 ELSE 1

\* Every ship is accounted for, and where it is stationed it belongs.
ShipsAccounted == TypeOK /\ StationedAtHome /\ ShipsKept

Comes(w, s, order, time) ==
  \E n \in DOMAIN w.fleet : s \in w.fleet[n].ships /\ w.fleet[n].order = order /\ w.fleet[n].time = time

\* A tick brings every ship on its way one tick nearer, whatever arrives,
\* merges or vanishes around it.
JourneysShorten ==
  ~crossed /\ ~Crossing =>
    \A k \in 2 .. Len(fleet) : fleet[k].time > 1 /\ ~fleet[k].waits =>
      \A luck \in Luck, dead \in Decaying : LET w == Walk(Now, dead, luck) IN
        \A s \in fleet[k].ships \ dead : Comes(w, s, fleet[k].order, fleet[k].time - 1)

\* An operation is carried out once, as long as a portal is left to come back to.
OperatesOnce ==
  ~crossed /\ ~Crossing =>
    \A k \in 2 .. Len(fleet) : fleet[k].order = "op" /\ fleet[k].time <= 1 =>
      \A luck \in Luck, dead \in Decaying : luck.back # NoPortal =>
        LET w == Walk(Now, dead, luck) IN
        \A s \in fleet[k].ships : ~(\E n \in DOMAIN w.fleet :
          s \in w.fleet[n].ships /\ w.fleet[n].order = "op")

\* A battle changes no other fleet, except when nobody survives it and the
\* standing order is to recall: then the fleet that took the place is recalled.
BattleAlone ==
  \A k \in 2 .. Len(fleet), after \in Standing, back \in {NoPortal} \cup 0 .. MaxTime :
    fleet[k].order = "attack" =>
      \A left \in SUBSET fleet[k].ships, won \in BOOLEAN :
        (won => left # {}) /\ (left # {} \/ after # "recall") =>
          LET w == Battle(k, left, won, after, back) IN
          \A i \in (2 .. Len(fleet)) \ {k} : \E n \in DOMAIN w.fleet : w.fleet[n] = fleet[i]
=============================================================================
