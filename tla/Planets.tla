------------------------------ MODULE Planets ------------------------------
(***************************************************************************)
(* Who owns which planet, and what is being built there.                   *)
(*                                                                         *)
(* The map file has a record per planet, with its owner, its portal flags  *)
(* and the number of buildings under construction.  Each player has a file *)
(* that lists his planets (dbUserPlanetAdd) and a file of builds           *)
(* (dbBuildAdd), and his record repeats the number of planets.  Exploring, *)
(* fighting, nuking, mind control, offers, razing, cancelling, leaving and *)
(* the tick each change some of these by hand.                             *)
(*                                                                         *)
(* Fleets, odds and costs are left out: an arrival is an action that may   *)
(* happen whenever the code lets a fleet of that kind arrive, with the     *)
(* checks its handler makes on the planet.                                 *)
(***************************************************************************)
EXTENDS SwapArrays, FiniteSets

CONSTANTS
  Player,     \* the accounts
  Order,      \* the list of users, which the tick walks
  Planet,     \* the planets; those that are no homes lie in one system
  Home,       \* the home planets
  Ancient,    \* the planets with an ancient civilisation
  Empire,     \* the empire of a player, or of the system of a home planet
  None,       \* -1: nobody
  Time,       \* ticks that a build takes
  MaxQty,     \* bound on the buildings of one build
  MaxQueue,   \* bound on the builds of a player
  MaxGift,    \* the planets an ancient civilisation gives at most
  MaxCount,   \* bound on the planets a record may count for another gain
  MaxLoss     \* bound on how far below nothing losses take that number

ASSUME PlanetsConstants ==
  /\ Order \in Seq(Player) /\ ToSet(Order) = Player /\ IsInjective(Order)
  /\ Home \subseteq Planet /\ IsFiniteSet(Planet) /\ None \notin Player
  /\ Ancient \subseteq Planet \ Home
  /\ Player \cup Home \subseteq DOMAIN Empire
  /\ Time \in Nat \ {0} /\ MaxQty \in Nat \ {0} /\ MaxQueue \in Nat /\ MaxGift \in Nat
  /\ MaxCount \in Nat /\ MaxLoss \in Nat

VARIABLES
  planet,       \* the map: a record per planet
  list,         \* player -> the file of his planets
  queue,        \* player -> the file of his builds
  counted,      \* player -> maind.planets
  active,       \* the players that are activated
  unexplored,   \* systemd.unexplored of the system of the plain planets
  serving,      \* the players the tick has yet to serve; the first one's
                \* planets are counted, his fleets are about to arrive
  ancient,      \* the planets whose ancient civilisation has not been met
  nuked         \* the planets such a civilisation has laid waste

\* What no file holds: the gift of a civilisation can list the planet that is
\* being explored a second time, and count it off a second time.
VARIABLES
  spare,        \* planet -> the player whose list has an entry too many for it
  short         \* how often the system has counted a planet off in vain

wonders == <<ancient, nuked>>
history == <<spare, short>>
vars == <<planet, list, queue, counted, active, unexplored, serving, wonders, history>>

Record == [owner: Player \cup {None}, portal: BOOLEAN, rising: BOOLEAN,
           construction: Nat, surrender: Player \cup {None}]
Entry  == [planet: Planet, portal: BOOLEAN]
Build  == [planet: Planet, portal: BOOLEAN, qty: 1 .. MaxQty, left: 1 .. Time]

\* mapgen, and accounts that have not been activated yet.
Init ==
  /\ planet = [p \in Planet |-> [owner |-> None, portal |-> FALSE, rising |-> FALSE,
                                 construction |-> 0, surrender |-> None]]
  /\ list = [u \in Player |-> <<>>]
  /\ queue = [u \in Player |-> <<>>]
  /\ counted = [u \in Player |-> 0]
  /\ active = {}
  /\ unexplored = Cardinality(Planet \ Home)
  /\ serving = <<>>
  /\ ancient = Ancient /\ nuked = {}
  /\ spare = [p \in Planet |-> None] /\ short = 0

----------------------------------------------------------------------------
(* The files.                                                              *)

\* Where a list has planet p first, 0 when it has not.
At(L, p) ==
  IF \E i \in DOMAIN L : L[i].planet = p
    THEN CHOOSE i \in DOMAIN L : L[i].planet = p /\ \A j \in 1 .. i - 1 : L[j].planet # p
    ELSE 0

\* Mutant of Unlisted: the last entry is not moved into the gap.
UnlistedByCutting(L, p) == IF At(L, p) = 0 THEN L ELSE Front(L)

\* dbUserPlanetRemove
Unlisted(L, p) == IF At(L, p) = 0 THEN L ELSE SwapRemove(L, At(L, p))

\* dbUserPlanetSetFlags, of the first entry.  Flags of a planet that is not listed go behind the
\* end of the list, where the next entry will overwrite them.
Flagged(L, p, portal) ==
  IF At(L, p) = 0 THEN L ELSE [L EXCEPT ![At(L, p)].portal = portal]

\* Mutant of Purged: the walk goes up, over positions that have moved.
PurgedUpwards(Q, p) ==
  FoldLeft(LAMBDA R, i : IF Q[i].planet = p /\ i <= Len(R) THEN SwapRemove(R, i) ELSE R,
           Q, [i \in DOMAIN Q |-> i])

\* The loop over a copy of the builds, from the last to the first, by which a
\* planet that is lost takes its builds along.  It is skipped when the map
\* says that nothing is under construction there.
Purged(Q, p) ==
  IF planet[p].construction = 0 THEN Q ELSE Swept(Q, {i \in DOMAIN Q : Q[i].planet = p})

\* A planet as its new owner, or nobody, gets it.
Owned(p, u) == [planet[p] EXCEPT !.owner = u, !.portal = FALSE, !.rising = FALSE,
                                 !.construction = 0]

\* A home planet after the battle for it: nobody's, its portal left standing.
Surrendered(p) == [planet[p] EXCEPT !.owner = None, !.construction = 0]

Qty(Q, S) == MapThenSumSet(LAMBDA i : Q[i].qty, S)

\* When the fleets of player u can do something: between the ticks, and in
\* his turn of a tick.
Moving(u) == u \in active /\ (serving # <<>> => Head(serving) = u)

----------------------------------------------------------------------------
(* Joining and leaving.                                                    *)

\* cmdExecNewUserEmpire: a free planet of the empire's home system.
Join(u, h) ==
  /\ serving = <<>> /\ u \notin active
  /\ h \in Home /\ Empire[h] = Empire[u] /\ planet[h].owner = None
  /\ planet' = [planet EXCEPT ![h].owner = u, ![h].portal = TRUE]
  /\ list' = [list EXCEPT ![u] = Append(@, [planet |-> h, portal |-> TRUE])]
  /\ counted' = [counted EXCEPT ![u] = Len(list[u]) + 1]
  /\ active' = active \cup {u}
  /\ UNCHANGED <<queue, unexplored, serving, wonders, history>>


\* dbBuildEmpty
Emptied(Q) == <<>>

\* cmdExecUserDeactivate and cmdUserDelete: the planets on the list are given
\* up, the builds go; what is on offer stays on offer.  The planets in "lost"
\* have just been taken from the list by a battle.
Leaves(u, lost) ==
  LET mine == {p \in Planet \ lost : At(list[u], p) # 0 /\ planet[p].owner = u}
  IN  /\ planet' = [p \in Planet |-> CASE p \in mine -> Owned(p, None)
                                       [] p \in lost -> Surrendered(p)
                                       [] OTHER      -> planet[p]]
      /\ unexplored' = unexplored + Cardinality(mine \ Home)
      /\ list' = [list EXCEPT ![u] = <<>>]
      /\ queue' = [queue EXCEPT ![u] = Emptied(@)]
      /\ active' = active \ {u}
      /\ spare' = [p \in Planet |-> IF spare[p] = u THEN None ELSE spare[p]]
      /\ UNCHANGED <<wonders, short>>

Leave(u) ==
  /\ serving = <<>> /\ u \in active
  /\ Leaves(u, {})
  /\ counted' = [counted EXCEPT ![u] = 0]
  /\ UNCHANGED serving

----------------------------------------------------------------------------
(* Building.                                                               *)

\* cmdExecAddBuild for a planet: a portal, or so many buildings as the player
\* can pay and the limit on overbuilding lets through.
AddBuild(u, p, portal, qty) ==
  /\ serving = <<>> /\ u \in active /\ planet[p].owner = u
  /\ portal => ~planet[p].portal /\ ~planet[p].rising /\ qty = 1
  /\ Len(queue[u]) < MaxQueue
  /\ planet' = [planet EXCEPT ![p].construction = @ + qty,
                              ![p].rising = @ \/ portal]
  /\ list' = IF portal THEN [list EXCEPT ![u] = Flagged(list[u], p, planet[p].portal)] ELSE list
  /\ queue' = [queue EXCEPT ![u] =
                 Append(@, [planet |-> p, portal |-> portal, qty |-> qty, left |-> Time])]
  /\ UNCHANGED <<counted, active, unexplored, serving, wonders, history>>

\* iohtmlFunc_cancelbuild: the builds that are ticked, from the last to the
\* first, and each planet's record as it is then.
CancelBuilds(u, S) ==
  LET Q == queue[u]
      On(p) == {i \in S : Q[i].planet = p}
      Portals(p) == {i \in On(p) : Q[i].portal}
  IN  /\ serving = <<>> /\ u \in active /\ S \subseteq DOMAIN Q
      /\ queue' = [queue EXCEPT ![u] = Swept(Q, S)]
      /\ planet' = [p \in Planet |->
                      [planet[p] EXCEPT !.construction = @ - Qty(Q, On(p)),
                                        !.rising = @ /\ Portals(p) = {}]]
      /\ list' = [list EXCEPT ![u] = [i \in DOMAIN list[u] |->
                    LET e == list[u][i]
                    IN  IF Portals(e.planet) = {} \/ At(list[u], e.planet) # i THEN e
                        ELSE [e EXCEPT !.portal = planet[e.planet].portal]]]
      /\ UNCHANGED <<counted, active, unexplored, serving, wonders, history>>

\* Mutant of RazePortal: the list is forgotten.
RazedOnTheMap(u, p) ==
  /\ serving = <<>> /\ u \in active /\ planet[p].owner = u
  /\ planet' = [planet EXCEPT ![p].portal = FALSE, ![p].rising = FALSE]
  /\ UNCHANGED <<list, queue, counted, active, unexplored, serving, wonders, history>>

\* CMD_RAZE_PORTAL: a portal, also one that is still being built.  Its build
\* stays in the queue.
RazePortal(u, p) ==
  /\ serving = <<>> /\ u \in active /\ planet[p].owner = u
  /\ planet' = [planet EXCEPT ![p].portal = FALSE, ![p].rising = FALSE]
  /\ list' = [list EXCEPT ![u] = Flagged(list[u], p, FALSE)]
  /\ UNCHANGED <<queue, counted, active, unexplored, serving, wonders, history>>

----------------------------------------------------------------------------
(* Planets that change hands.                                              *)

\* The planet leaves the list of its owner v, and its builds his queue.
Loses(v, p) ==
  /\ list' = [list EXCEPT ![v] = Unlisted(list[v], p)]
  /\ queue' = [queue EXCEPT ![v] = Purged(queue[v], p)]

\* The planet goes from player v to player u.
Passes(v, u, p) ==
  /\ planet' = [planet EXCEPT ![p] = Owned(p, u)]
  /\ list' = [list EXCEPT ![v] = Unlisted(list[v], p),
                          ![u] = Append(@, [planet |-> p, portal |-> FALSE])]
  /\ queue' = [queue EXCEPT ![v] = Purged(queue[v], p)]

\* What an exploration ship, and the gift of a civilisation, can take.
Vacant == {p \in Planet \ Home : planet[p].owner = None /\ p \notin nuked}

\* The planets that the civilisation of planet p gives away: none, or such as
\* the walk over the map finds near by, p not excepted.  Their order is that
\* of the map and left open, as is what it gives instead.
Gift(p, gift) == ToSet(gift) \subseteq Vacant /\ IsInjective(gift) /\ (gift # <<>> => p \in ancient)

\* cmdFleetAction for an exploration ship, which flies for a tick at least:
\* the planets of the gift, then the planet itself, whoever has it by then.
Explore(u, p, gift) ==
  LET new == Append(gift, p)
  IN  /\ serving # <<>> /\ Moving(u)
      /\ p \in Vacant /\ Gift(p, gift)
      /\ planet' = [q \in Planet |-> IF q \in ToSet(new) THEN Owned(q, u) ELSE planet[q]]
      /\ list' = [list EXCEPT ![u] = @ \o [i \in DOMAIN new |-> [planet |-> new[i], portal |-> FALSE]]]
      /\ unexplored' = unexplored - Len(new)
      /\ ancient' = ancient \ {p}
      /\ spare' = IF p \in ToSet(gift) THEN [spare EXCEPT ![p] = u] ELSE spare
      /\ short' = IF p \in ToSet(gift) THEN short + 1 ELSE short
      /\ UNCHANGED <<queue, counted, active, serving, nuked>>

\* A hostile civilisation: the ship is lost and the planet laid waste (or, to
\* some races, only the ship is lost).
LayWaste(u, p) ==
  /\ serving # <<>> /\ Moving(u)
  /\ p \in Vacant /\ p \in ancient
  /\ ancient' = ancient \ {p} /\ nuked' = nuked \cup {p}
  /\ UNCHANGED <<planet, list, queue, counted, active, unexplored, serving, history>>

\* battle, won, for a planet that is no home.
Conquer(u, p) ==
  LET v == planet[p].owner
  IN  /\ serving = <<>> /\ u \in active /\ p \notin Home /\ v \notin {None, u}
      /\ counted[u] < MaxCount /\ counted[v] > -MaxLoss
      /\ Passes(v, u, p)
      /\ counted' = [counted EXCEPT ![u] = @ + 1, ![v] = @ - 1]
      /\ UNCHANGED <<active, unexplored, serving, wonders, history>>

\* battle, won, for a home planet: its owner is out of the game if he has no
\* planet left, by the number in his record.  Whether he is independent and
\* his account is old enough is left open.
ConquerHome(u, h) ==
  LET v == planet[h].owner
  IN  /\ serving = <<>> /\ u \in active /\ h \in Home /\ v \notin {None, u}
      /\ counted[v] <= 1
      /\ counted[u] < MaxCount /\ counted[v] > -MaxLoss
      /\ IF counted[v] = 1
           THEN Leaves(v, {h})
           ELSE /\ planet' = [planet EXCEPT ![h] = Surrendered(h)]
                /\ Loses(v, h)
                /\ UNCHANGED <<active, unexplored, wonders, history>>
      /\ counted' = [counted EXCEPT ![u] = @ + 1, ![v] = @ - 1]
      /\ UNCHANGED serving

\* specopGhostsPerformOp: mind control.
MindControl(u, p) ==
  LET v == planet[p].owner
  IN  /\ Moving(u) /\ p \notin Home /\ v \notin {None, u}
      /\ Passes(v, u, p)
      /\ UNCHANGED <<counted, active, unexplored, serving, wonders, history>>

\* Mutant of NukePlanet: the system forgets that it has one more to explore.
NukedUnnoticed(u, p) ==
  LET v == planet[p].owner
  IN  /\ Moving(u) /\ p \notin Home /\ v # None
      /\ planet' = [planet EXCEPT ![p] = Owned(p, None)]
      /\ Loses(v, p)
      /\ UNCHANGED <<unexplored, counted, active, serving, wonders, history>>

\* specopAgentsPerformOp: nuking a planet, also one's own.
NukePlanet(u, p) ==
  LET v == planet[p].owner
  IN  /\ Moving(u) /\ p \notin Home /\ v # None
      /\ planet' = [planet EXCEPT ![p] = Owned(p, None)]
      /\ Loses(v, p)
      /\ unexplored' = unexplored + 1
      /\ UNCHANGED <<counted, active, serving, wonders, history>>

\* cmdExecOfferPlanet, by whoever posts it; None withdraws the offer.
OfferPlanet(u, v, p) ==
  /\ serving = <<>> /\ u \in active /\ p \notin Home /\ u # v
  /\ planet' = [planet EXCEPT ![p].surrender = v]
  /\ UNCHANGED <<list, queue, counted, active, unexplored, serving, wonders, history>>

\* cmdExecTakePlanet
TakePlanet(u, p) ==
  LET v == planet[p].owner
  IN  /\ serving = <<>> /\ u \in active /\ p \notin Home
      /\ v \notin {None, u} /\ planet[p].surrender = u /\ Empire[u] = Empire[v]
      /\ planet' = [planet EXCEPT ![p] = [Owned(p, u) EXCEPT !.surrender = None]]
      /\ list' = [list EXCEPT ![v] = Unlisted(list[v], p),
                              ![u] = Append(@, [planet |-> p, portal |-> FALSE])]
      /\ queue' = [queue EXCEPT ![v] = Purged(queue[v], p)]
      /\ UNCHANGED <<counted, active, unexplored, serving, wonders, history>>

----------------------------------------------------------------------------
(* The tick.                                                               *)


\* The builds whose time has come.
Done(Q) == {i \in DOMAIN Q : Q[i].left <= 0}

\* The turn of player u in the tick: his builds come closer, those that are
\* done are added to their planets, and his planets are counted.
Serve(u) ==
  LET Q == [i \in DOMAIN queue[u] |-> [queue[u][i] EXCEPT !.left = @ - 1]]
      done == Done(Q)
      On(p) == {i \in done : Q[i].planet = p}
      Portals(p) == {i \in On(p) : Q[i].portal}
  IN  /\ queue' = [queue EXCEPT ![u] = Swept(Q, done)]
      /\ planet' = [p \in Planet |->
                      [planet[p] EXCEPT !.construction = @ - Qty(Q, On(p)),
                                        !.rising = @ /\ Portals(p) = {},
                                        !.portal = @ \/ Portals(p) # {}]]
      /\ list' = [list EXCEPT ![u] = [i \in DOMAIN list[u] |->
                    LET e == list[u][i]
                    IN  [e EXCEPT !.portal = @ \/ (Portals(e.planet) # {} /\ At(list[u], e.planet) = i)]]]
      /\ counted' = [counted EXCEPT ![u] = Len(list[u])]

\* cmdTick goes on to the first player in the list that is activated.
ServeNext(rest) ==
  \E k \in 1 .. Len(rest) + 1 :
    /\ \A i \in 1 .. k - 1 : rest[i] \notin active
    /\ k <= Len(rest) => rest[k] \in active
    /\ serving' = SubSeq(rest, k, Len(rest))
    /\ IF k > Len(rest) THEN UNCHANGED <<planet, list, queue, counted>> ELSE Serve(rest[k])
    /\ UNCHANGED <<active, unexplored, wonders, history>>

Tick   == serving = <<>> /\ ServeNext(Order)
TickOn == serving # <<>> /\ ServeNext(Tail(serving))

Next ==
  \/ Tick \/ TickOn
  \/ \E u \in Player :
       \/ \E h \in Home : Join(u, h) \/ ConquerHome(u, h)
       \/ Leave(u)
       \/ \E S \in SUBSET (1 .. MaxQueue) : CancelBuilds(u, S)
       \/ \E p \in Planet :
            \/ \E portal \in BOOLEAN, qty \in 1 .. MaxQty : AddBuild(u, p, portal, qty)
            \/ RazePortal(u, p) \/ LayWaste(u, p) \/ Conquer(u, p)
            \/ \E n \in 0 .. MaxGift : \E gift \in [1 .. n -> Planet \ Home] :
                 Explore(u, p, gift)
            \/ MindControl(u, p) \/ NukePlanet(u, p) \/ TakePlanet(u, p)
            \/ \E v \in Player \cup {None} : OfferPlanet(u, v, p)

Spec == Init /\ [][Next]_vars

----------------------------------------------------------------------------
(* Properties.                                                             *)

TypeOK ==
  /\ planet \in [Planet -> Record]
  /\ \A u \in Player : list[u] \in Seq(Entry) /\ queue[u] \in Seq(Build)
  /\ counted \in [Player -> Int] /\ active \in SUBSET Player
  /\ unexplored \in Int /\ serving \in Seq(Player)
  /\ ancient \subseteq Planet \ Home /\ nuked \subseteq Planet \ Home
  /\ spare \in [Planet -> Player \cup {None}] /\ short \in Nat

\* How many entries a list has for planet p.
Entries(L, p) == Cardinality({i \in DOMAIN L : L[i].planet = p})

\* A planet is once in the list of its owner and in no other list, through
\* all the ways a planet can go.  A planet that came as a gift to the player
\* who was exploring it is once more in his list, for as long as he plays and
\* whoever has the planet then.
OwnerLists ==
  \A u \in Player, p \in Planet :
    Entries(list[u], p) = (IF planet[p].owner = u THEN 1 ELSE 0) + (IF spare[p] = u THEN 1 ELSE 0)

\* The portals from which a player's fleets leave are read from his list; the
\* ones that protect a planet are read from the map.  They are the same, but
\* for a planet that is in his list twice: only the first entry is written,
\* and which one is first changes.
PortalsAgree ==
  \A u \in Player : \A i \in DOMAIN list[u] :
    LET p == list[u][i].planet
    IN  planet[p].owner = u /\ spare[p] # u => list[u][i].portal = planet[p].portal

\* The number under construction on a planet is what its owner's queue has
\* for it, and no queue has anything for a planet of somebody else: a planet
\* that is lost relies on this number to take its builds along.
ConstructionCounts ==
  \A p \in Planet :
    /\ \A u \in Player : \A i \in DOMAIN queue[u] :
         queue[u][i].planet = p => planet[p].owner = u
    /\ planet[p].construction =
         IF planet[p].owner = None THEN 0
         ELSE LET Q == queue[planet[p].owner]
              IN  Qty(Q, {i \in DOMAIN Q : Q[i].planet = p})

\* A planet on which no portal can be built, because one is said to be under
\* construction, has a portal or will get one: razing, cancelling, joining
\* and every change of owner leave no planet without hope of a portal.
PortalWillCome ==
  \A p \in Planet :
    planet[p].rising /\ planet[p].owner # None =>
      \/ planet[p].portal
      \/ \E i \in DOMAIN queue[planet[p].owner] :
           LET b == queue[planet[p].owner][i] IN b.planet = p /\ b.portal

\* The queues of builds and what the map says of them agree.
QueuesAgree == ConstructionCounts /\ PortalWillCome

\* The number of planets a system has left to explore, which the map page
\* shows and only a moderator recounts, is that of the planets nobody has,
\* less one for each planet that was given to the player who was exploring it.
UnexploredExact ==
  unexplored = Cardinality({p \in Planet \ Home : planet[p].owner = None}) - short

\* A player that is out of the game owns, lists and builds nothing.
OutOwnsNothing ==
  \A u \in Player \ active :
    list[u] = <<>> /\ queue[u] = <<>> /\ \A p \in Planet : planet[p].owner # u /\ spare[p] # u

\* What is counted instead of read, and who counts as a player, stay right
\* through every way in which planets change hands.
MapSound == TypeOK /\ UnexploredExact /\ OutOwnsNothing
=============================================================================
