--------------------------- MODULE VictoryRecords ---------------------------
(***************************************************************************)
(* What is kept of artefacts and of the victory timer, and what has to     *)
(* hold of it.  How it comes about is in Victory.                          *)
(***************************************************************************)
EXTENDS Integers, Sequences

CONSTANTS
  Player, Empire, Artefact,
  Users,      \* the players in the order of dbUserList
  Empires,    \* the empires by number
  Nobody,
  AutoVictory,  \* the setting "Auto Victory": ticks to hold every artefact
  Size        \* what empires may measure, as pairs of planets and networth

ASSUME VictoryConstants ==
  /\ Nobody \notin Player \cup Empire
  /\ Users \in Seq(Player) /\ \A p \in Player : \E i \in DOMAIN Users : Users[i] = p
  /\ \A i, j \in DOMAIN Users : Users[i] = Users[j] => i = j
  /\ Empires \in Seq(Empire) /\ \A e \in Empire : \E i \in DOMAIN Empires : Empires[i] = e
  /\ Artefact # {} /\ AutoVictory \in Nat \ {0}
  /\ Size \subseteq Nat \X Nat

VARIABLES
  owner,     \* of the planet an artefact lies on
  home,      \* a player's empire
  bits,      \* the artefacts in the empires' records
  left,      \* ticks until the timer is due; -1 is no timer, as in the file
  holder,    \* the empire the timer runs for
  flows,     \* ticks.status
  locked,    \* ticks.locked
  walk,      \* players the tick under way has still to visit
  ticking,
  kept,      \* history: the rankings in a row at which an empire held all
  orphaned   \* history: the timer's empire was passed over by a ranking

time  == <<flows, locked>>

NoTimer == -1
Active(u) == home[u] # Nobody
Members(e) == {u \in Player : home[u] = e}

-----------------------------------------------------------------------------
(* Properties.                                                             *)

\* Types; and planets with artefacts belong to players who are in the game.
VictoryTypes ==
  /\ owner \in [Artefact -> Player \cup {Nobody}]
  /\ home \in [Player -> Empire \cup {Nobody}]
  /\ bits \in [Empire -> SUBSET Artefact]
  /\ left \in NoTimer .. AutoVictory /\ holder \in Empire \cup {Nobody}
  /\ flows \in BOOLEAN /\ locked \in BOOLEAN /\ ticking \in BOOLEAN
  /\ walk \in Seq(Player)
  /\ kept \in [Empire -> 0 .. AutoVictory + 1] /\ orphaned \in BOOLEAN
  /\ \A a \in Artefact : owner[a] # Nobody => Active(owner[a])

\* However planets change hands during a tick, no artefact is counted for two
\* empires: each player's planets are counted before his fleets act.
CountedOnce ==
  \A e, f \in Empire : e # f => bits[e] \cap bits[f] = {}

\* Between ticks the timer runs for the one empire that held every artefact at
\* the last ranking, unless that empire has been without members.
TimerNamesHolder ==
  ~ticking =>
    /\ left = NoTimer <=> holder = Nobody
    /\ left # NoTimer /\ ~orphaned => bits[holder] = Artefact

\* The timer and the planets it is about are those of players in the game.
TimerSound == VictoryTypes /\ TimerNamesHolder

\* The game is stopped only for an empire that held every artefact at each
\* tick since its timer was started.  An administrator stops time as well, but
\* between ticks and when it flows.
VictoryEarned ==
  [][locked' /\ ~locked /\ (ticking \/ ~flows) /\ ~orphaned
       => holder # Nobody /\ kept'[holder] > AutoVictory]_time
=============================================================================
