------------------------------- MODULE Victory -------------------------------
(***************************************************************************)
(* Artefacts, the rankings and the end of a round by victory.              *)
(*                                                                         *)
(* Every artefact lies on a planet.  A tick clears what the empires' records*)
(* say of artefacts ("bits") and walks over the players: each one's planets *)
(* are counted for his empire, then his fleets act.  The rankings that      *)
(* follow every turn of the clock go through the empires from the largest   *)
(* to the smallest, start a timer for one that holds every artefact, take   *)
(* it back from one that no longer does, and stop the game when it is due.  *)
(*                                                                         *)
(* Only planets with artefacts are modelled; how planets change hands is in *)
(* Planets, how ships travel in Fleets, the dates that start and stop time  *)
(* in Daemon.  The administrators' empire, which a setting leaves out of    *)
(* the rankings, is none of Empire.                                         *)
(***************************************************************************)
EXTENDS VictoryRecords, FiniteSets, SequencesExt

vars == <<owner, home, bits, left, holder, flows, locked, walk, ticking, kept, orphaned>>
game  == <<owner, home>>
timer == <<left, holder>>
tick  == <<walk, ticking>>
seen  == <<kept, orphaned>>

Init ==
  /\ owner = [a \in Artefact |-> Nobody]
  /\ home = [u \in Player |-> Nobody]
  /\ bits = [e \in Empire |-> {}]
  /\ left = NoTimer /\ holder = Nobody
  /\ flows = FALSE /\ locked = FALSE
  /\ walk = <<>> /\ ticking = FALSE
  /\ kept = [e \in Empire |-> 0] /\ orphaned = FALSE

-----------------------------------------------------------------------------
(* Between ticks. *)

Join(u, e) ==
  /\ ~ticking /\ ~Active(u)
  /\ home' = [home EXCEPT ![u] = e]
  /\ UNCHANGED <<owner, bits, timer, time, tick, seen>>

\* The player gives up, is removed, or has lost his last planet.
Leave(u) ==
  /\ ~ticking /\ Active(u)
  /\ home' = [home EXCEPT ![u] = Nobody]
  /\ owner' = [a \in Artefact |-> IF owner[a] = u THEN Nobody ELSE owner[a]]
  /\ UNCHANGED <<bits, timer, time, tick, seen>>

\* A battle is won, an offer is taken, or an incantation is cast next door.
Seize(u, a) ==
  /\ ~ticking /\ Active(u) /\ owner[a] \notin {Nobody, u}
  /\ owner' = [owner EXCEPT ![a] = u]
  /\ UNCHANGED <<home, bits, timer, time, tick, seen>>

\* Agents in the same system nuke the planet.
Nuke(a) ==
  /\ ~ticking /\ owner[a] # Nobody
  /\ owner' = [owner EXCEPT ![a] = Nobody]
  /\ UNCHANGED <<home, bits, timer, time, tick, seen>>

TimeFlow ==
  /\ ~ticking
  /\ locked' = flows /\ flows' = ~flows
  /\ UNCHANGED <<game, bits, timer, tick, seen>>

\* The map of the next round; everybody has been put out of the game.
NewRound ==
  /\ ~ticking
  /\ owner' = [a \in Artefact |-> Nobody] /\ home' = [u \in Player |-> Nobody]
  /\ bits' = [e \in Empire |-> {}]
  /\ left' = NoTimer /\ holder' = Nobody
  /\ flows' = FALSE /\ locked' = FALSE
  /\ kept' = [e \in Empire |-> 0] /\ orphaned' = FALSE
  /\ UNCHANGED tick

-----------------------------------------------------------------------------
(* The rankings. *)

Bigger(x, y) == x[1] > y[1] \/ (x[1] = y[1] /\ x[2] > y[2])

\* An empire goes before the first one it exceeds.
Inserted(chain, e, size) ==
  LET i == CHOOSE i \in 1 .. Len(chain) + 1 :
             /\ i > Len(chain) \/ Bigger(size[e], size[chain[i]])
             /\ \A k \in 1 .. i - 1 : ~Bigger(size[e], size[chain[k]])
  IN SubSeq(chain, 1, i - 1) \o <<e>> \o SubSeq(chain, i, Len(chain))

Ranked == {e \in Empire : Members(e) # {}}
Ranking(ranked, size) ==
  LET chain[n \in 0 .. Len(Empires)] ==
        IF n = 0 THEN <<>>
        ELSE IF Empires[n] \in ranked THEN Inserted(chain[n - 1], Empires[n], size)
        ELSE chain[n - 1]
  IN chain[Len(Empires)]
Rankings == [S \in SUBSET Empire |-> {Ranking(S, size) : size \in [Empire -> Size]}]

\* What the ranking does about the timer when it comes to an empire; "t" is
\* the timer, its empire, and whether the game was stopped for it.
TimerForAnyone(t, e) ==   \* Mutant of Timer
  IF bits[e] = Artefact
  THEN IF t.left = NoTimer THEN [t EXCEPT !.left = AutoVictory, !.holder = e]
       ELSE IF t.left <= 0 THEN [t EXCEPT !.won = TRUE] ELSE t
  ELSE IF t.holder = e THEN [t EXCEPT !.left = NoTimer, !.holder = Nobody] ELSE t
TimerKept(t, e) ==   \* Mutant of Timer
  IF bits[e] = Artefact
  THEN IF t.left = NoTimer THEN [t EXCEPT !.left = AutoVictory, !.holder = e]
       ELSE IF t.holder = e /\ t.left <= 0 THEN [t EXCEPT !.won = TRUE] ELSE t
  ELSE IF t.holder = e THEN [t EXCEPT !.left = NoTimer] ELSE t
TimerLost(t, e) ==   \* Mutant of Timer
  IF bits[e] = Artefact
  THEN IF t.left = NoTimer THEN [t EXCEPT !.left = AutoVictory, !.holder = e]
       ELSE IF t.holder = e /\ t.left <= 0 THEN [t EXCEPT !.won = TRUE] ELSE t
  ELSE [t EXCEPT !.left = NoTimer, !.holder = Nobody]
Timer(t, e) ==
  IF bits[e] = Artefact
  THEN IF t.left = NoTimer THEN [t EXCEPT !.left = AutoVictory, !.holder = e]
       ELSE IF t.holder = e /\ t.left <= 0 THEN [t EXCEPT !.won = TRUE] ELSE t
  ELSE IF t.holder = e THEN [t EXCEPT !.left = NoTimer, !.holder = Nobody] ELSE t

\* The walk over the ranked empires, with the ticks that are left when it begins.
Timed(r, togo) ==
  LET timed[n \in 0 .. Len(r)] ==
        IF n = 0 THEN [left |-> togo, holder |-> holder, won |-> FALSE] ELSE Timer(timed[n - 1], r[n])
  IN timed[Len(r)]

\* cmdTickGenRanks, with the ticks that are left and the status when it begins.
GenRanks(togo, status) == \E r \in Rankings[Ranked] :
  LET t == Timed(r, togo)
  IN /\ left' = t.left /\ holder' = t.holder
     /\ flows' = (status /\ ~t.won) /\ locked' = (locked \/ t.won)
     /\ orphaned' = (t.left # NoTimer /\ (orphaned \/ Members(t.holder) = {}))

-----------------------------------------------------------------------------
(* The loop. *)

\* The clock turns while time stands still: the rankings are made all the same.
Idle ==
  /\ ~ticking /\ (locked \/ ~flows)
  /\ GenRanks(left, FALSE)
  /\ UNCHANGED <<game, bits, tick, kept>>

Begin ==
  /\ ~ticking /\ flows /\ ~locked
  /\ bits' = [e \in Empire |-> {}]
  /\ walk' = Users /\ ticking' = TRUE
  /\ UNCHANGED <<game, timer, time, seen>>

\* What a player's fleets may do to planets when they arrive: explore, take by
\* mind control, or nuke.
Arrived(u) ==
  {o \in [Artefact -> Player \cup {Nobody}] :
     \A a \in Artefact : o[a] \in {owner[a], u} \/ (o[a] = Nobody /\ owner[a] # u)}

Counted(o, u) == [bits EXCEPT ![home[u]] = @ \cup {a \in Artefact : o[a] = u}]

VisitFleetsFirst ==   \* Mutant of Visit
  /\ ticking /\ walk # <<>>
  /\ LET u == Head(walk) IN
     IF Active(u)
     THEN /\ owner' \in Arrived(u)
          /\ bits' = Counted(owner', u)
     ELSE UNCHANGED <<owner, bits>>
  /\ walk' = Tail(walk)
  /\ UNCHANGED <<home, timer, time, ticking, seen>>
Visit ==
  /\ ticking /\ walk # <<>>
  /\ LET u == Head(walk) IN
     IF Active(u)
     THEN /\ bits' = Counted(owner, u)
          /\ owner' \in Arrived(u)
     ELSE UNCHANGED <<owner, bits>>
  /\ walk' = Tail(walk)
  /\ UNCHANGED <<home, timer, time, ticking, seen>>

Finish ==
  /\ ticking /\ walk = <<>>
  /\ GenRanks(IF left > 0 THEN left - 1 ELSE left, flows)
  /\ kept' = [e \in Empire |-> IF bits[e] # Artefact THEN 0
                               ELSE IF kept[e] > AutoVictory THEN kept[e] ELSE kept[e] + 1]
  /\ ticking' = FALSE
  /\ UNCHANGED <<game, bits, walk>>

Loop == Idle \/ Begin \/ Visit \/ Finish

Next ==
  \/ Loop
  \/ \E u \in Player : Leave(u)
  \/ \E u \in Player, e \in Empire : Join(u, e)
  \/ \E u \in Player, a \in Artefact : Seize(u, a)
  \/ \E a \in Artefact : Nuke(a)
  \/ TimeFlow \/ NewRound

Spec == Init /\ [][Next]_vars /\ WF_vars(Loop)

-----------------------------------------------------------------------------
(* Properties. *)

\* An empire wins if its members keep every artefact, each the ones he has,
\* while time flows: that cannot go on for ever, unless the timer runs for an
\* empire without members.
Keeps(e) == \A a \in Artefact : owner[a] # Nobody /\ home[owner[a]] = e
Abandoned == holder # Nobody /\ Members(holder) = {}
HolderWins ==
  \A e \in Empire :
    <>[](Keeps(e) /\ flows /\ ~Abandoned) => []<><<owner' # owner>>_vars
=============================================================================
