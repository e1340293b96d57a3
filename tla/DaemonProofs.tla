---------------------------- MODULE DaemonProofs ----------------------------
(***************************************************************************)
(* For any accounts, any number of threads that end rounds and any crashes:*)
(* players receive the ticks that are counted, and whoever waits for a new *)
(* round waits for a thread that is making one.  For one such thread: the  *)
(* map is always that of the round whose number the clock shows.           *)
(*                                                                         *)
(* Then for Accounts, what the process that comes up again reads: however  *)
(* many names and numbers there are, and wherever crashes cut the handlers *)
(* off, accounts that were promised are kept, deleted ones do not come     *)
(* back, and the next registration meets no directory.                     *)
(*                                                                         *)
(* Then for Victory, which ends a round: for any players, empires and      *)
(* artefacts no artefact is counted for two empires, however planets       *)
(* change hands while the tick walks over players.  The timer names the    *)
(* empire that held them all at the last ranking (TimerInv), and a round   *)
(* is locked only for one that held on to them.                            *)
(***************************************************************************)
EXTENDS Daemon, AccountFiles, VictoryRecords, SequenceTheorems, WellFoundedInduction, TLAPS

A == INSTANCE Accounts
V == INSTANCE Victory

Account == [round: Nat, since: Nat, ticks: Nat]

-----------------------------------------------------------------------------
(* Types. *)

Typed ==
  /\ main \in Main /\ reset \in [Reset -> Thread]
  /\ shutdown \in BOOLEAN /\ regen \in BOOLEAN /\ due \in BOOLEAN
  /\ ticks \in Ticks /\ ini \in Ticks
  /\ dates \in [start: BOOLEAN, stop: BOOLEAN]
  /\ todo \in [Reset \cup {"main"} -> SUBSET User]
  /\ account \in [User -> Account \cup {Out}]
  /\ map \in Nat /\ crashes \in Nat /\ starts \in Nat

-----------------------------------------------------------------------------
(* The invariant of the ticks. *)

Up == main \notin {"boot", "exited"}

\* A process that is not up has no threads and no flags.
Down == ~Up => ~shutdown /\ ~regen /\ \A t \in Reset : ~Running(t)

\* What u has received beyond what the clock c has counted for him.
Beyond(u, c) == account[u].ticks - (c.number - account[u].since)

\* The tick under way has been at u, and is not counted yet.
Visited(u) == main = "tick" /\ u \notin todo["main"]

\* By the process's clock, and by the one a restart would find.
CountedInMemory ==
  Up => \A u \in Activated : account[u].round = ticks.round =>
          IF Visited(u) THEN Beyond(u, ticks) \in 1 .. crashes + 1
                        ELSE Beyond(u, ticks) \in 0 .. crashes
CountedOnDisk ==
  \A u \in Activated : account[u].round = ini.round =>
    IF Visited(u) \/ main = "ranks" THEN Beyond(u, ini) \in 0 .. crashes + 1
                                    ELSE Beyond(u, ini) \in 0 .. crashes

\* The clock on the disk is behind by at most the tick under way, or by rounds.
ClockSaved ==
  Up => /\ ini.round <= ticks.round
        /\ ini.round = ticks.round /\ main # "ranks" => ini.number = ticks.number

\* Nobody plays in a round after r.
Past(u, r) == account[u] # Out => account[u].round <= r

\* Who has walked over the accounts has left none of a round to come, as a
\* process that crashed may have registered; so the next round begins empty.
WalksDone ==
  \A t \in Reset :
    /\ reset[t] = "users" => \A u \in User \ todo[t] : Past(u, ticks.round)
    /\ reset[t] \in {"raise", "await", "round", "map", "save"} =>
         \A u \in User : Past(u, ticks.round)

\* The clock that is read back after a round's end is behind no account.
WaitsSaved ==
  (main = "wait" /\ ~regen) \/ main = "load" => \A u \in User : Past(u, ini.round)

TickInv == /\ Typed /\ Down /\ CountedInMemory /\ CountedOnDisk
           /\ ClockSaved /\ WalksDone /\ WaitsSaved

-----------------------------------------------------------------------------
(* The invariant of the map, where one thread at most ends a round. *)

OneThread == \A s, t \in Reset : s = t

\* The clock in memory, and the one on the disk, show the round of the map.
MapMatches ==
  crashes = 0 =>
    /\ Up /\ (\A t \in Reset : reset[t] \notin {"map", "failed"}) => map = ticks.round
    /\ (\A t \in Reset : reset[t] \notin {"map", "save", "failed"}) => map = ini.round

\* Only a thread that has raised regen makes a round, it waits for the loop
\* no more than once, and nobody ends a round while the process waits for one.
OneRound ==
  /\ \A t \in Reset : reset[t] \in {"await", "round", "map", "save", "failed"} <=> regen
  /\ main = "wait" => \A t \in Reset : reset[t] \notin {"freeze", "users", "raise"}
  /\ main = "load" => \A t \in Reset : ~Running(t)

MapInv == Typed /\ Down /\ MapMatches /\ OneRound

-----------------------------------------------------------------------------
(* Types. *)

(* The clock with other flags, or another number, is a clock. *)
LEMMA ClockTyped ==
  ASSUME NEW t \in Ticks, NEW s \in BOOLEAN, NEW l \in BOOLEAN
  PROVE  /\ [t EXCEPT !.status = s, !.locked = l] \in Ticks
         /\ [t EXCEPT !.status = s] \in Ticks
         /\ [t EXCEPT !.locked = l] \in Ticks
         /\ [t EXCEPT !.number = @ + 1] \in Ticks
         /\ [t EXCEPT !.round = @ + 1, !.number = 0] \in Ticks
         /\ Zero \in Ticks
<1>1. [t EXCEPT !.status = s, !.locked = l] \in Ticks
  BY DEF Ticks
<1>2. [t EXCEPT !.status = s] \in Ticks /\ [t EXCEPT !.locked = l] \in Ticks
  BY DEF Ticks
<1>3. [t EXCEPT !.number = @ + 1] \in Ticks
  BY DEF Ticks
<1>4. [t EXCEPT !.round = @ + 1, !.number = 0] \in Ticks
  <2>1. \A r \in Nat : [t EXCEPT !.round = r, !.number = 0] \in Ticks
    BY DEF Ticks
  <2>2. t.round + 1 \in Nat
    BY DEF Ticks
  <2>3. [t EXCEPT !.round = @ + 1, !.number = 0] = [t EXCEPT !.round = t.round + 1, !.number = 0]
    OBVIOUS
  <2> QED BY <2>1, <2>2, <2>3
<1>5. Zero \in Ticks
  BY DEF Ticks, Zero
<1> QED BY <1>1, <1>2, <1>3, <1>4, <1>5

(* What a process leaves behind. *)
LEMMA GoneTyped ==
  ASSUME Typed, Gone, crashes' \in Nat, starts' = starts
  PROVE  Typed'
<1>1. todo' \in [Reset \cup {"main"} -> SUBSET User]
  BY DEF Typed, Gone
<1>2. reset' \in [Reset -> Thread]
  BY DEF Gone, Thread
<1> QED
  BY <1>1, <1>2, ClockTyped DEF Typed, Gone, Main

(* The types. *)
LEMMA TypesKept ==
  ASSUME Typed, [Next]_vars
  PROVE  Typed'
<1> USE DaemonConstants DEF Typed, vars, flags, outside, Main, Thread, Ticks, Zero, Account, Activated
<1>1. ASSUME NEW u \in User, Register(u) PROVE Typed'
  BY <1>1 DEF Register, Serving
<1>2. ASSUME NEW u \in User, Quit(u) PROVE Typed'
  BY <1>2 DEF Quit, Serving
<1>3. CASE TimeFlow
  BY <1>3 DEF TimeFlow, Serving
<1>4. ASSUME NEW t \in Reset, EndRound(t) PROVE Typed'
  BY <1>4 DEF EndRound, Serving
<1>5. CASE AskShutdown
  BY <1>5 DEF AskShutdown
<1>6. CASE Top
  BY <1>6 DEF Top, MainOnly
<1>7. CASE Judge
  BY <1>7 DEF Judge, MainOnly
<1>8. CASE Clock
  BY <1>8 DEF Clock, MainOnly
<1>9. CASE Begin
  BY <1>9 DEF Begin, MainOnly
<1>10. ASSUME NEW u \in User, TickUser(u) PROVE Typed'
  BY <1>10 DEF TickUser
<1>11. CASE TickDone
  BY <1>11 DEF TickDone, MainOnly
<1>12. CASE Ranks
  <2>1. ticks' \in Ticks
    <3>1. PICK won \in BOOLEAN :
            ticks' = IF won THEN [ticks EXCEPT !.status = FALSE, !.locked = TRUE] ELSE ticks
      BY <1>12 DEF Ranks
    <3>2. ticks \in Ticks /\ [ticks EXCEPT !.status = FALSE, !.locked = TRUE] \in Ticks
      BY ClockTyped DEF Typed
    <3> QED BY <3>1, <3>2
  <2> QED BY <1>12, <2>1 DEF Ranks, Saved, MainOnly
<1>13. CASE Stop
  BY <1>13 DEF Stop, MainOnly
<1>14. CASE Leave
  <2>1. CASE Gone /\ UNCHANGED outside
    BY <2>1, GoneTyped DEF Leave
  <2>2. CASE ~Gone
    BY <1>14, <2>2 DEF Leave, MainOnly
  <2> QED BY <1>14, <2>1, <2>2 DEF Leave, Gone
<1>15. CASE Wait
  BY <1>15 DEF Wait, MainOnly
<1>16. CASE Load
  BY <1>16 DEF Load, MainOnly
<1>17. ASSUME NEW t \in Reset, Freeze(t) PROVE Typed'
  <2>1. ticks' \in Ticks
    BY <1>17, ClockTyped DEF Freeze
  <2> QED BY <1>17, <2>1 DEF Freeze, Goes, ThreadOnly
<1>18. ASSUME NEW t \in Reset, Deactivate(t) PROVE Typed'
  BY <1>18 DEF Deactivate, ThreadOnly
<1>19. ASSUME NEW t \in Reset, Raise(t) PROVE Typed'
  BY <1>19 DEF Raise, Goes, ThreadOnly
<1>20. ASSUME NEW t \in Reset, Await(t) PROVE Typed'
  BY <1>20 DEF Await, Goes, ThreadOnly
<1>21. ASSUME NEW t \in Reset, NextRound(t) PROVE Typed'
  <2>1. ticks' \in Ticks
    BY <1>21, ClockTyped DEF NextRound
  <2>2. reset' \in [Reset -> Thread]
    BY <1>21 DEF NextRound, Goes
  <2>3. dates' \in [start: BOOLEAN, stop: BOOLEAN]
    BY <1>21 DEF NextRound
  <2> QED BY <1>21, <2>1, <2>2, <2>3 DEF NextRound, ThreadOnly
<1>22. ASSUME NEW t \in Reset, SpawnMap(t) PROVE Typed'
  BY <1>22 DEF SpawnMap, Goes, ThreadOnly
<1>23. ASSUME NEW t \in Reset, Finish(t) PROVE Typed'
  BY <1>23 DEF Finish, Goes, Saved, Lowered, ThreadOnly
<1>24. CASE TimePasses
  <2>1. due' \in BOOLEAN
    BY <1>24 DEF TimePasses
  <2>2. dates' = dates \/ \E d \in {"start", "stop"} : dates' = [dates EXCEPT ![d] = TRUE]
    BY <1>24 DEF TimePasses
  <2>3. dates' \in [start: BOOLEAN, stop: BOOLEAN]
    BY <2>2
  <2> QED BY <1>24, <2>1, <2>3 DEF TimePasses
<1>25. CASE Crash
  <2>1. crashes' \in Nat /\ starts' = starts
    BY <1>25 DEF Crash
  <2> QED BY <1>25, <2>1, GoneTyped DEF Crash
<1>26. CASE Start
  BY <1>26 DEF Start
<1>27. CASE UNCHANGED vars
  BY <1>27 DEF vars, flags, outside
<1> QED
  BY <1>1, <1>2, <1>3, <1>4, <1>5, <1>6, <1>7, <1>8, <1>9, <1>10, <1>11,
     <1>12, <1>13, <1>14, <1>15, <1>16, <1>17, <1>18, <1>19, <1>20, <1>21,
     <1>22, <1>23, <1>24, <1>25, <1>26, <1>27 DEF Next, Handlers, MainStep,
     EndofRound

-----------------------------------------------------------------------------
(* The ticks. *)

(* A process that ends takes everything with it. *)
LEMMA DownKept ==
  ASSUME Typed, Down, [Next]_vars
  PROVE  Down'
<1> USE DaemonConstants DEF Typed, Down, vars, flags, outside, Alive, Running, Up
<1>1. ASSUME NEW u \in User, Register(u) PROVE Down'
  BY <1>1 DEF Register, Serving
<1>2. ASSUME NEW u \in User, Quit(u) PROVE Down'
  BY <1>2 DEF Quit, Serving
<1>3. CASE TimeFlow
  BY <1>3 DEF TimeFlow, Serving
<1>4. ASSUME NEW t \in Reset, EndRound(t) PROVE Down'
  BY <1>4 DEF EndRound, Serving
<1>5. CASE AskShutdown
  BY <1>5 DEF AskShutdown
<1>6. CASE Top
  BY <1>6 DEF Top, MainOnly
<1>7. CASE Judge
  BY <1>7 DEF Judge, MainOnly
<1>8. CASE Clock
  BY <1>8 DEF Clock, MainOnly
<1>9. CASE Begin
  BY <1>9 DEF Begin, MainOnly
<1>10. ASSUME NEW u \in User, TickUser(u) PROVE Down'
  BY <1>10 DEF TickUser
<1>11. CASE TickDone
  BY <1>11 DEF TickDone, MainOnly
<1>12. CASE Ranks
  BY <1>12 DEF Ranks, Saved, MainOnly
<1>13. CASE Stop
  BY <1>13 DEF Stop, MainOnly
<1>14. CASE Leave
  BY <1>14 DEF Leave, Gone, MainOnly
<1>15. CASE Wait
  BY <1>15 DEF Wait, MainOnly
<1>16. CASE Load
  BY <1>16 DEF Load, MainOnly
<1>17. ASSUME NEW t \in Reset, Freeze(t) PROVE Down'
  BY <1>17 DEF Freeze, Goes, ThreadOnly
<1>18. ASSUME NEW t \in Reset, Deactivate(t) PROVE Down'
  BY <1>18 DEF Deactivate, ThreadOnly
<1>19. ASSUME NEW t \in Reset, Raise(t) PROVE Down'
  BY <1>19 DEF Raise, Goes, ThreadOnly
<1>20. ASSUME NEW t \in Reset, Await(t) PROVE Down'
  BY <1>20 DEF Await, Goes, ThreadOnly
<1>21. ASSUME NEW t \in Reset, NextRound(t) PROVE Down'
  BY <1>21 DEF NextRound, Goes, ThreadOnly
<1>22. ASSUME NEW t \in Reset, SpawnMap(t) PROVE Down'
  BY <1>22 DEF SpawnMap, Goes, ThreadOnly
<1>23. ASSUME NEW t \in Reset, Finish(t) PROVE Down'
  BY <1>23 DEF Finish, Goes, Saved, Lowered, ThreadOnly
<1>24. CASE TimePasses
  BY <1>24 DEF TimePasses
<1>25. CASE Crash
  BY <1>25 DEF Crash, Gone
<1>26. CASE Start
  BY <1>26 DEF Start
<1>27. CASE UNCHANGED vars
  BY <1>27 DEF vars, flags, outside
<1> QED
  BY <1>1, <1>2, <1>3, <1>4, <1>5, <1>6, <1>7, <1>8, <1>9, <1>10, <1>11,
     <1>12, <1>13, <1>14, <1>15, <1>16, <1>17, <1>18, <1>19, <1>20, <1>21,
     <1>22, <1>23, <1>24, <1>25, <1>26, <1>27 DEF Next, Handlers, MainStep,
     EndofRound

\* Steps that count nothing and register nobody.
Quiet ==
  /\ ticks'.round = ticks.round /\ ticks'.number = ticks.number
  /\ ini' = ini /\ crashes' = crashes
  /\ \A u \in User : account'[u] # Out => account'[u] = account[u]
  /\ Up' <=> Up
  /\ \A u \in Activated' : Visited(u)' <=> Visited(u)
  /\ main = "ranks" => main' = "ranks"

Counts == CountedInMemory /\ CountedOnDisk /\ ClockSaved

\* The others: somebody is registered or ticked, or a clock is written.
Counting ==
  \/ \E u \in User : Register(u) \/ TickUser(u)
  \/ TickDone \/ Ranks \/ Load
  \/ \E t \in Reset : NextRound(t) \/ Finish(t)
  \/ Gone /\ (Leave \/ Crash)

(* Every step is one or the other. *)
LEMMA QuietSteps ==
  ASSUME Typed, Down, [Next]_vars
  PROVE  Quiet \/ Counting
<1> USE DaemonConstants DEF Typed, Ticks, Quiet, Counting, Visited, Activated, Down, vars, flags, outside, Alive, Running, Up
<1>1. ASSUME NEW u \in User, Register(u) PROVE Quiet \/ Counting
  BY <1>1 DEF Counting
<1>2. ASSUME NEW u \in User, Quit(u) PROVE Quiet \/ Counting
  BY <1>2 DEF Quit, Serving
<1>3. CASE TimeFlow
  BY <1>3 DEF TimeFlow, Serving
<1>4. ASSUME NEW t \in Reset, EndRound(t) PROVE Quiet \/ Counting
  BY <1>4 DEF EndRound, Serving
<1>5. CASE AskShutdown
  BY <1>5 DEF AskShutdown
<1>6. CASE Top
  BY <1>6 DEF Top, MainOnly
<1>7. CASE Judge
  BY <1>7 DEF Judge, MainOnly
<1>8. CASE Clock
  BY <1>8 DEF Clock, MainOnly
<1>9. CASE Begin
  BY <1>9 DEF Begin, MainOnly
<1>10. ASSUME NEW u \in User, TickUser(u) PROVE Quiet \/ Counting
  BY <1>10 DEF Counting
<1>11. CASE TickDone
  BY <1>11 DEF Counting
<1>12. CASE Ranks
  BY <1>12 DEF Counting
<1>13. CASE Stop
  BY <1>13 DEF Stop, MainOnly
<1>14. CASE Leave
  <2>1. CASE Gone
    BY <1>14, <2>1 DEF Counting
  <2>2. CASE ~Gone
    BY <1>14, <2>2 DEF Leave, MainOnly
  <2> QED BY <2>1, <2>2
<1>15. CASE Wait
  BY <1>15 DEF Wait, MainOnly
<1>16. CASE Load
  BY <1>16 DEF Counting
<1>17. ASSUME NEW t \in Reset, Freeze(t) PROVE Quiet \/ Counting
  BY <1>17 DEF Freeze, Goes, ThreadOnly
<1>18. ASSUME NEW t \in Reset, Deactivate(t) PROVE Quiet \/ Counting
  BY <1>18 DEF Deactivate, ThreadOnly
<1>19. ASSUME NEW t \in Reset, Raise(t) PROVE Quiet \/ Counting
  BY <1>19 DEF Raise, Goes, ThreadOnly
<1>20. ASSUME NEW t \in Reset, Await(t) PROVE Quiet \/ Counting
  BY <1>20 DEF Await, Goes, ThreadOnly
<1>21. ASSUME NEW t \in Reset, NextRound(t) PROVE Quiet \/ Counting
  BY <1>21 DEF Counting
<1>22. ASSUME NEW t \in Reset, SpawnMap(t) PROVE Quiet \/ Counting
  BY <1>22 DEF SpawnMap, Goes, ThreadOnly
<1>23. ASSUME NEW t \in Reset, Finish(t) PROVE Quiet \/ Counting
  BY <1>23 DEF Counting
<1>24. CASE TimePasses
  BY <1>24 DEF TimePasses
<1>25. CASE Crash
  BY <1>25 DEF Counting, Crash
<1>26. CASE Start
  BY <1>26 DEF Start
<1>27. CASE UNCHANGED vars
  BY <1>27 DEF vars, flags, outside
<1> QED
  BY <1>1, <1>2, <1>3, <1>4, <1>5, <1>6, <1>7, <1>8, <1>9, <1>10, <1>11,
     <1>12, <1>13, <1>14, <1>15, <1>16, <1>17, <1>18, <1>19, <1>20, <1>21,
     <1>22, <1>23, <1>24, <1>25, <1>26, <1>27 DEF Next, Handlers, MainStep,
     EndofRound

(* Those steps keep what is counted; each of the others, in turn, does too. *)
LEMMA QuietKeeps ==
  ASSUME Typed, Counts, Quiet
  PROVE  Counts'
<1> USE DEF Typed, Quiet, Activated
<1>1. CountedInMemory'
  <2>1. SUFFICES ASSUME Up', NEW u \in Activated', account'[u].round = ticks'.round
                 PROVE  /\ Visited(u)' => Beyond(u, ticks)' \in 1 .. crashes' + 1
                        /\ ~Visited(u)' => Beyond(u, ticks)' \in 0 .. crashes'
    BY DEF CountedInMemory
  <2>2. u \in Activated /\ account'[u] = account[u] /\ Beyond(u, ticks)' = Beyond(u, ticks)
    BY <2>1 DEF Beyond
  <2> QED BY <2>1, <2>2 DEF Counts, CountedInMemory
<1>2. CountedOnDisk'
  <2>1. SUFFICES ASSUME NEW u \in Activated', account'[u].round = ini'.round
                 PROVE  /\ Beyond(u, ini)' \in 0 .. crashes' + 1
                        /\ ~Visited(u)' /\ main' # "ranks" => Beyond(u, ini)' \in 0 .. crashes'
    BY DEF CountedOnDisk
  <2>2. u \in Activated /\ account'[u] = account[u] /\ Beyond(u, ini)' = Beyond(u, ini)
    BY <2>1 DEF Beyond
  <2>3. Beyond(u, ini) \in 0 .. crashes => Beyond(u, ini) \in 0 .. crashes + 1
    OBVIOUS
  <2> QED BY <2>1, <2>2, <2>3 DEF Counts, CountedOnDisk
<1>3. ClockSaved'
  BY DEF Counts, ClockSaved
<1> QED BY <1>1, <1>2, <1>3 DEF Counts

(* A newcomer has received nothing, and nothing is counted for him.        *)
LEMMA RegisterCounts ==
  ASSUME Typed, Counts, NEW u \in User, Register(u)
  PROVE  Counts'
<1> USE DEF Typed, Account, Activated, Register, Serving, outside, flags
<1>1. account' = [account EXCEPT ![u] = [round |-> ticks.round, since |-> ticks.number, ticks |-> 0]]
  OBVIOUS
<1>2. /\ account'[u] = [round |-> ticks.round, since |-> ticks.number, ticks |-> 0]
      /\ \A v \in User \ {u} : account'[v] = account[v]
  BY <1>1
<1>3. main = "serve" /\ main' = "serve" /\ ticks' = ticks /\ ini' = ini /\ crashes' = crashes /\ todo' = todo
  OBVIOUS
<1>4. \A v \in User : ~Visited(v) /\ ~Visited(v)'
  BY <1>3 DEF Visited
<1>5. ClockSaved'
  BY <1>3 DEF Counts, ClockSaved, Up
<1>6. ticks.number \in Nat /\ ini.number \in Nat /\ ticks.round \in Nat /\ 0 \in 0 .. crashes
  BY DEF Ticks
<1>7. Beyond(u, ticks)' = 0
  BY <1>2, <1>3, <1>6 DEF Beyond
<1>8. account'[u].round = ini.round => Beyond(u, ini)' = 0
  BY <1>2, <1>3, <1>6 DEF Beyond, Counts, ClockSaved, Up
<1>9. ASSUME NEW v \in Activated', v # u
      PROVE  /\ v \in Activated /\ account'[v] = account[v]
             /\ Beyond(v, ticks)' = Beyond(v, ticks) /\ Beyond(v, ini)' = Beyond(v, ini)
  BY <1>2, <1>3, <1>9 DEF Beyond
<1>10. CountedInMemory'
  BY <1>3, <1>4, <1>6, <1>7, <1>9 DEF Counts, CountedInMemory, Up
<1>11. CountedOnDisk'
  BY <1>2, <1>3, <1>4, <1>6, <1>8, <1>9 DEF Counts, CountedOnDisk
<1> QED BY <1>5, <1>10, <1>11 DEF Counts

(* The player being ticked is one ahead of both clocks.                    *)
LEMMA TickUserCounts ==
  ASSUME Typed, Counts, NEW u \in User, TickUser(u)
  PROVE  Counts'
<1> USE DaemonConstants DEF Typed, outside, flags
<1>1. /\ main = "tick" /\ main' = "tick" /\ ticks' = ticks /\ ini' = ini /\ crashes' = crashes
      /\ u \in todo["main"] /\ todo'["main"] = todo["main"] \ {u}
  BY DEF TickUser
<1>2. ClockSaved'
  BY <1>1 DEF Counts, ClockSaved, Up
<1>3. Up /\ ini.round <= ticks.round /\ (ini.round = ticks.round => ini.number = ticks.number)
  BY <1>1 DEF Counts, ClockSaved, Up
<1>4. ASSUME NEW v \in Activated', v # u
      PROVE  /\ v \in Activated /\ account'[v] = account[v] /\ (Visited(v)' <=> Visited(v))
             /\ Beyond(v, ticks)' = Beyond(v, ticks) /\ Beyond(v, ini)' = Beyond(v, ini)
  BY <1>1, <1>4 DEF TickUser, Beyond, Activated, Visited
<1>5. ASSUME u \in Activated'
      PROVE  /\ u \in Activated /\ account'[u].round = account[u].round /\ Visited(u)' /\ ~Visited(u)
             /\ Beyond(u, ticks)' = Beyond(u, ticks) + 1 /\ Beyond(u, ini)' = Beyond(u, ini) + 1
             /\ Beyond(u, ticks) \in Int /\ Beyond(u, ini) \in Int
  <2>1. u \in Activated
    BY <1>5 DEF TickUser, Activated
  <2>2. account'[u] = [account[u] EXCEPT !.ticks = @ + 1] /\ account[u] \in Account
    BY <2>1 DEF TickUser, Activated
  <2>3. /\ account'[u].ticks = account[u].ticks + 1 /\ account'[u].since = account[u].since
        /\ account'[u].round = account[u].round
        /\ account[u].ticks \in Nat /\ account[u].since \in Nat
    BY <2>2 DEF Account
  <2>4. ticks.number \in Nat /\ ini.number \in Nat
    BY DEF Ticks
  <2> QED BY <2>1, <2>3, <2>4, <1>1 DEF Beyond, Visited
<1>6. CountedInMemory'
  BY <1>1, <1>3, <1>4, <1>5 DEF Counts, CountedInMemory, Up
<1>7. CountedOnDisk'
  BY <1>1, <1>3, <1>4, <1>5 DEF Counts, CountedOnDisk
<1> QED BY <1>2, <1>6, <1>7 DEF Counts

(* What has been received is an integer. *)
LEMMA BeyondInt ==
  ASSUME Typed, NEW u \in Activated, NEW c \in Ticks
  PROVE  /\ Beyond(u, c) \in Int
         /\ Beyond(u, [c EXCEPT !.number = @ + 1]) = Beyond(u, c) - 1
<1>1. account[u].ticks \in Nat /\ account[u].since \in Nat
  BY DEF Typed, Activated, Account
<1>2. c.number \in Nat /\ [c EXCEPT !.number = @ + 1].number = c.number + 1
  BY DEF Ticks
<1> QED BY <1>1, <1>2 DEF Beyond

(* The clock in memory catches up.                                         *)
LEMMA TickDoneCounts ==
  ASSUME Typed, Counts, TickDone
  PROVE  Counts'
<1> USE DEF Typed
<1>1. /\ main = "tick" /\ main' = "ranks" /\ ini' = ini /\ crashes' = crashes /\ account' = account
      /\ ticks'.round = ticks.round /\ ticks' = [ticks EXCEPT !.number = @ + 1] /\ todo["main"] = {}
  BY DEF TickDone, MainOnly, outside, Ticks
<1>2. \A v \in User : Visited(v) /\ ~Visited(v)'
  BY <1>1 DEF Visited
<1>3. ASSUME NEW v \in Activated'
      PROVE  v \in Activated /\ Beyond(v, ini)' = Beyond(v, ini) /\ Beyond(v, ini) \in Int
             /\ Beyond(v, ticks)' = Beyond(v, ticks) - 1 /\ Beyond(v, ticks) \in Int
  <2>1. v \in Activated
    BY <1>1 DEF Activated
  <2>2. Beyond(v, ticks)' = Beyond(v, [ticks EXCEPT !.number = @ + 1])
    BY <1>1 DEF Beyond
  <2>3. Beyond(v, ini)' = Beyond(v, ini)
    BY <1>1 DEF Beyond
  <2> QED BY <2>1, <2>2, <2>3, BeyondInt
<1>4. ClockSaved'
  BY <1>1 DEF Counts, ClockSaved, Up
<1>5. CountedInMemory'
  BY <1>1, <1>2, <1>3 DEF Counts, CountedInMemory, Up, Activated
<1>6. CountedOnDisk'
  BY <1>1, <1>2, <1>3 DEF Counts, CountedOnDisk, Activated
<1> QED BY <1>4, <1>5, <1>6 DEF Counts

(* The clock on the disk catches up.                                       *)
LEMMA RanksCounts ==
  ASSUME Typed, Counts, Ranks
  PROVE  Counts'
<1> USE DEF Typed
<1>1. /\ main = "ranks" /\ main' = "loop" /\ ini' = ticks' /\ crashes' = crashes /\ account' = account
      /\ ticks'.round = ticks.round /\ ticks'.number = ticks.number
  BY DEF Ranks, Saved, MainOnly, outside, Ticks
<1>2. \A v \in User : ~Visited(v) /\ ~Visited(v)'
  BY <1>1 DEF Visited
<1>3. ASSUME NEW v \in Activated'
      PROVE  v \in Activated /\ Beyond(v, ini)' = Beyond(v, ticks) /\ Beyond(v, ticks)' = Beyond(v, ticks)
  BY <1>1 DEF Beyond, Activated
<1>4. ticks.round \in Nat
  BY DEF Ticks
<1>5. ClockSaved'
  BY <1>1, <1>4 DEF Counts, ClockSaved, Up
<1>6. CountedInMemory'
  BY <1>1, <1>2, <1>3 DEF Counts, CountedInMemory, Up, Activated
<1>7. CountedOnDisk'
  BY <1>1, <1>2, <1>3 DEF Counts, CountedOnDisk, CountedInMemory, Up, Activated
<1> QED BY <1>5, <1>6, <1>7 DEF Counts

(* The clock that is read back, or kept, is one the players agree with.    *)
LEMMA LoadCounts ==
  ASSUME Typed, Down, Counts, Load
  PROVE  Counts'
<1> USE DEF Typed
<1>1. /\ main \in {"boot", "load"} /\ main' = "loop" /\ ini' = ini /\ crashes' = crashes /\ account' = account
  BY DEF Load, MainOnly, outside
<1>2. \/ Up /\ ticks'.round = ticks.round /\ ticks'.number = ticks.number
      \/ ticks'.round = ini.round /\ ticks'.number = ini.number
  <2>1. CASE shutdown
    BY <2>1, <1>1 DEF Load, Down, Ticks
  <2>2. CASE ~shutdown
    BY <2>2, <1>1 DEF Load, Ticks
  <2> QED BY <2>1, <2>2
<1>3. \A v \in User : ~Visited(v) /\ ~Visited(v)'
  BY <1>1 DEF Visited
<1>4. ticks.round \in Nat /\ ini.round \in Nat
  BY DEF Ticks
<1>5. ClockSaved'
  BY <1>1, <1>2, <1>4 DEF Counts, ClockSaved, Up
<1>6. CountedInMemory'
  <2>1. CASE Up /\ ticks'.round = ticks.round /\ ticks'.number = ticks.number
    BY <1>1, <1>3, <2>1 DEF Counts, CountedInMemory, Activated, Beyond
  <2>2. CASE ticks'.round = ini.round /\ ticks'.number = ini.number
    BY <1>1, <1>3, <2>2 DEF Counts, CountedInMemory, CountedOnDisk, Activated, Beyond
  <2> QED BY <1>2, <2>1, <2>2
<1>7. CountedOnDisk'
  BY <1>1, <1>3 DEF Counts, CountedOnDisk, Activated, Beyond
<1> QED BY <1>5, <1>6, <1>7 DEF Counts

(* Nobody plays in the round that begins.                                  *)
LEMMA NextRoundCounts ==
  ASSUME Typed, Down, Counts, WalksDone, NEW t \in Reset, NextRound(t)
  PROVE  Counts'
<1> USE DEF Typed
<1>1. /\ main' = main /\ ini' = ini /\ crashes' = crashes /\ account' = account /\ todo' = todo
      /\ ticks'.round = ticks.round + 1 /\ reset[t] = "round" /\ ticks.round \in Nat /\ ini.round \in Nat
  BY DEF NextRound, Goes, ThreadOnly, outside, Ticks
<1>2. Up
  BY <1>1 DEF Down, Running
<1>3. \A u \in Activated : account[u].round <= ticks.round /\ account[u].round \in Nat
  BY <1>1 DEF WalksDone, Past, Activated, Account
<1>4. CountedInMemory'
  BY <1>1, <1>3 DEF CountedInMemory, Activated
<1>5. CountedOnDisk'
  BY <1>1 DEF Counts, CountedOnDisk, Activated, Beyond, Visited
<1>6. ClockSaved'
  BY <1>1, <1>2 DEF Counts, ClockSaved
<1> QED BY <1>4, <1>5, <1>6 DEF Counts

(* The thread saves the clock in memory, whatever the main thread is at.   *)
LEMMA FinishCounts ==
  ASSUME Typed, Down, Counts, NEW t \in Reset, Finish(t)
  PROVE  Counts'
<1> USE DEF Typed
<1>1. /\ main' = main /\ ini' = ticks' /\ crashes' = crashes /\ account' = account /\ todo' = todo
      /\ ticks'.round = ticks.round /\ ticks'.number = ticks.number
      /\ reset[t] = "save" /\ ticks.round \in Nat
  BY DEF Finish, Goes, Saved, ThreadOnly, outside, Ticks
<1>2. Up
  BY <1>1 DEF Down, Running
<1>3. CountedInMemory'
  BY <1>1 DEF Counts, CountedInMemory, Activated, Beyond, Visited, Up
<1>4. ClockSaved'
  BY <1>1, <1>2 DEF ClockSaved
<1>5. CountedOnDisk'
  <2>1. SUFFICES ASSUME NEW u \in Activated', account'[u].round = ini'.round
                 PROVE  /\ Beyond(u, ini)' \in 0 .. crashes' + 1
                        /\ ~Visited(u)' => Beyond(u, ini)' \in 0 .. crashes'
    BY DEF CountedOnDisk
  <2>2. u \in Activated /\ account[u].round = ticks.round /\ Beyond(u, ini)' = Beyond(u, ticks)
    BY <1>1, <2>1 DEF Activated, Beyond
  <2>3. Visited(u)' <=> Visited(u)
    BY <1>1 DEF Visited
  <2>4. IF Visited(u) THEN Beyond(u, ticks) \in 1 .. crashes + 1 ELSE Beyond(u, ticks) \in 0 .. crashes
    BY <1>2, <2>2 DEF Counts, CountedInMemory
  <2> QED BY <1>1, <2>2, <2>3, <2>4
<1> QED BY <1>3, <1>4, <1>5 DEF Counts

(* A crash leaves on the disk a tick at most that was not counted.         *)
LEMMA GoneCounts ==
  ASSUME Typed, Counts, Gone, Leave \/ Crash
  PROVE  Counts'
<1> USE DEF Typed
<1>1. main' = "exited" /\ ini' = ini /\ account' = account
  BY DEF Gone
<1>2. \A v \in User : ~Visited(v)'
  BY <1>1 DEF Visited
<1>3. CountedInMemory' /\ ClockSaved'
  BY <1>1 DEF CountedInMemory, ClockSaved, Up
<1>4. ASSUME NEW v \in Activated'
      PROVE  v \in Activated /\ Beyond(v, ini)' = Beyond(v, ini) /\ Beyond(v, ini) \in Int
  BY <1>1, BeyondInt DEF Beyond, Activated
<1>5. CASE Leave
  <2>1. main = "left" /\ crashes' = crashes
    BY <1>1, <1>5 DEF Leave, outside
  <2> QED BY <1>1, <1>2, <1>3, <1>4, <2>1 DEF Counts, CountedOnDisk, Visited
<1>6. CASE Crash
  <2>1. crashes' = crashes + 1
    BY <1>6 DEF Crash
  <2> QED BY <1>1, <1>2, <1>3, <1>4, <2>1 DEF Counts, CountedOnDisk
<1> QED BY <1>5, <1>6

(* What is counted stays right. *)
LEMMA CountsKept ==
  ASSUME TickInv, [Next]_vars
  PROVE  Counts'
<1> USE DEF TickInv
<1>1. Counts
  BY DEF Counts
<1>2. CASE Quiet
  BY <1>1, <1>2, QuietKeeps
<1>3. CASE Counting
  BY <1>1, <1>3, RegisterCounts, TickUserCounts, TickDoneCounts, RanksCounts, LoadCounts,
     NextRoundCounts, FinishCounts, GoneCounts DEF Counting
<1> QED BY <1>2, <1>3, QuietSteps

(* And nobody is found in a round to come. *)
LEMMA WalksKept ==
  ASSUME TickInv, [Next]_vars
  PROVE  WalksDone' /\ WaitsSaved'
<1> USE DaemonConstants DEF TickInv, Typed, Down, WalksDone, WaitsSaved, Past, Up, Running, flags, outside, Account, Ticks, Activated
<1>1. ASSUME NEW u \in User, Register(u) PROVE WalksDone' /\ WaitsSaved'
  BY <1>1 DEF Register, Serving
<1>2. ASSUME NEW u \in User, Quit(u) PROVE WalksDone' /\ WaitsSaved'
  BY <1>2 DEF Quit, Serving
<1>3. CASE TimeFlow
  BY <1>3 DEF TimeFlow, Serving
<1>4. ASSUME NEW t \in Reset, EndRound(t) PROVE WalksDone' /\ WaitsSaved'
  BY <1>4 DEF EndRound, Serving
<1>5. CASE AskShutdown
  BY <1>5 DEF AskShutdown
<1>6. CASE Top
  BY <1>6 DEF Top, MainOnly
<1>7. CASE Judge
  BY <1>7 DEF Judge, MainOnly
<1>8. CASE Clock
  BY <1>8 DEF Clock, MainOnly
<1>9. CASE Begin
  BY <1>9 DEF Begin, MainOnly
<1>10. ASSUME NEW u \in User, TickUser(u) PROVE WalksDone' /\ WaitsSaved'
  BY <1>10 DEF TickUser
<1>11. CASE TickDone
  BY <1>11 DEF TickDone, MainOnly
<1>12. CASE Ranks
  BY <1>12 DEF Ranks, Saved, MainOnly
<1>13. CASE Stop
  BY <1>13 DEF Stop, MainOnly
<1>14. CASE Leave
  BY <1>14 DEF Leave, Gone, MainOnly
<1>15. CASE Wait
  BY <1>15 DEF Wait, MainOnly
<1>16. CASE Load
  BY <1>16 DEF Load, MainOnly
<1>17. ASSUME NEW t \in Reset, Freeze(t) PROVE WalksDone' /\ WaitsSaved'
  BY <1>17 DEF Freeze, Goes, ThreadOnly
<1>18. ASSUME NEW t \in Reset, Deactivate(t) PROVE WalksDone' /\ WaitsSaved'
  BY <1>18 DEF Deactivate, ThreadOnly
<1>19. ASSUME NEW t \in Reset, Raise(t) PROVE WalksDone' /\ WaitsSaved'
  BY <1>19 DEF Raise, Goes, ThreadOnly
<1>20. ASSUME NEW t \in Reset, Await(t) PROVE WalksDone' /\ WaitsSaved'
  BY <1>20 DEF Await, Goes, ThreadOnly
<1>21. ASSUME NEW t \in Reset, NextRound(t) PROVE WalksDone' /\ WaitsSaved'
  BY <1>21 DEF NextRound, Goes, ThreadOnly
<1>22. ASSUME NEW t \in Reset, SpawnMap(t) PROVE WalksDone' /\ WaitsSaved'
  BY <1>22 DEF SpawnMap, Goes, ThreadOnly
<1>23. ASSUME NEW t \in Reset, Finish(t) PROVE WalksDone' /\ WaitsSaved'
  BY <1>23 DEF Finish, Goes, Saved, Lowered, ThreadOnly
<1>24. CASE TimePasses
  BY <1>24 DEF TimePasses
<1>25. CASE Crash
  BY <1>25 DEF Crash, Gone
<1>26. CASE Start
  BY <1>26 DEF Start
<1>27. CASE UNCHANGED vars
  BY <1>27 DEF vars, flags, outside
<1> QED
  BY <1>1, <1>2, <1>3, <1>4, <1>5, <1>6, <1>7, <1>8, <1>9, <1>10, <1>11,
     <1>12, <1>13, <1>14, <1>15, <1>16, <1>17, <1>18, <1>19, <1>20, <1>21,
     <1>22, <1>23, <1>24, <1>25, <1>26, <1>27 DEF Next, Handlers, MainStep,
     EndofRound

(* The invariant holds when the daemon is first started, and is kept. *)
LEMMA TicksStart == Init => TickInv
<1> SUFFICES ASSUME Init PROVE TickInv
  OBVIOUS
<1> USE DaemonConstants
<1>1. Typed
  <2>1. ticks \in Ticks /\ ini \in Ticks
    BY DEF Init, Zero, Ticks
  <2>2. dates \in [start: BOOLEAN, stop: BOOLEAN]
    BY DEF Init
  <2>3. reset \in [Reset -> Thread] /\ main \in Main
    BY DEF Init, Thread, Main
  <2>4. todo \in [Reset \cup {"main"} -> SUBSET User]
    BY DEF Init
  <2>5. account \in [User -> Account \cup {Out}]
    BY DEF Init
  <2>6. /\ shutdown \in BOOLEAN /\ regen \in BOOLEAN /\ due \in BOOLEAN
        /\ map \in Nat /\ crashes \in Nat /\ starts \in Nat
    BY DEF Init
  <2> QED BY <2>1, <2>2, <2>3, <2>4, <2>5, <2>6 DEF Typed
<1>2. Down /\ WalksDone /\ WaitsSaved
  BY DEF Init, Down, Running, WalksDone, WaitsSaved
<1>3. Counts
  BY DEF Init, Counts, CountedInMemory, CountedOnDisk, ClockSaved, Activated, Up
<1> QED BY <1>1, <1>2, <1>3 DEF TickInv, Counts

LEMMA TicksKept == TickInv /\ [Next]_vars => TickInv'
<1> SUFFICES ASSUME TickInv, [Next]_vars PROVE TickInv'
  OBVIOUS
<1>1. Typed'
  BY TypesKept DEF TickInv
<1>2. Down'
  BY DownKept DEF TickInv
<1>3. CountedInMemory' /\ CountedOnDisk' /\ ClockSaved'
  BY CountsKept DEF Counts
<1> QED BY <1>1, <1>2, <1>3, WalksKept DEF TickInv

(* Between passes every player has had the ticks counted since he          *)
(* registered, plus at most one for every crash, with any number of        *)
(* threads ending rounds meanwhile (cmdTick of cmdexec.c against           *)
(* cmdEndofRound and the clock that dbFlush leaves on the disk).           *)
THEOREM PlayersTicked == Spec => []TickedAsCounted
<1>1. TickInv => TickedAsCounted
  BY DEF TickInv, CountedInMemory, TickedAsCounted, Up, Visited, Beyond
<1> QED BY <1>1, TicksStart, TicksKept, PTL DEF Spec

-----------------------------------------------------------------------------
(* The threads. *)

(* A thread that is making a round is not forgotten. *)
LEMMA WaitKept ==
  ASSUME Typed, SomebodyEndsTheWait, [Next]_vars
  PROVE  SomebodyEndsTheWait'
<1> USE DaemonConstants DEF Typed, SomebodyEndsTheWait, flags, outside
<1>1. ASSUME NEW u \in User, Register(u) PROVE SomebodyEndsTheWait'
  BY <1>1 DEF Register, Serving
<1>2. ASSUME NEW u \in User, Quit(u) PROVE SomebodyEndsTheWait'
  BY <1>2 DEF Quit, Serving
<1>3. CASE TimeFlow
  BY <1>3 DEF TimeFlow, Serving
<1>4. ASSUME NEW t \in Reset, EndRound(t) PROVE SomebodyEndsTheWait'
  BY <1>4 DEF EndRound, Serving, Running
<1>5. CASE AskShutdown
  BY <1>5 DEF AskShutdown
<1>6. CASE Top
  BY <1>6 DEF Top, MainOnly
<1>7. CASE Judge
  BY <1>7 DEF Judge, MainOnly
<1>8. CASE Clock
  BY <1>8 DEF Clock, MainOnly
<1>9. CASE Begin
  BY <1>9 DEF Begin, MainOnly
<1>10. ASSUME NEW u \in User, TickUser(u) PROVE SomebodyEndsTheWait'
  BY <1>10 DEF TickUser
<1>11. CASE TickDone
  BY <1>11 DEF TickDone, MainOnly
<1>12. CASE Ranks
  BY <1>12 DEF Ranks, Saved, MainOnly
<1>13. CASE Stop
  BY <1>13 DEF Stop, MainOnly
<1>14. CASE Leave
  BY <1>14 DEF Leave, Gone, MainOnly
<1>15. CASE Wait
  BY <1>15 DEF Wait, MainOnly
<1>16. CASE Load
  BY <1>16 DEF Load, MainOnly
<1>17. ASSUME NEW t \in Reset, Freeze(t) PROVE SomebodyEndsTheWait'
  BY <1>17 DEF Freeze, Goes, ThreadOnly
<1>18. ASSUME NEW t \in Reset, Deactivate(t) PROVE SomebodyEndsTheWait'
  BY <1>18 DEF Deactivate, ThreadOnly
<1>19. ASSUME NEW t \in Reset, Raise(t) PROVE SomebodyEndsTheWait'
  BY <1>19 DEF Raise, Goes, ThreadOnly
<1>20. ASSUME NEW t \in Reset, Await(t) PROVE SomebodyEndsTheWait'
  BY <1>20 DEF Await, Goes, ThreadOnly
<1>21. ASSUME NEW t \in Reset, NextRound(t) PROVE SomebodyEndsTheWait'
  BY <1>21 DEF NextRound, Goes, ThreadOnly
<1>22. ASSUME NEW t \in Reset, SpawnMap(t) PROVE SomebodyEndsTheWait'
  BY <1>22 DEF SpawnMap, Goes, ThreadOnly
<1>23. ASSUME NEW t \in Reset, Finish(t) PROVE SomebodyEndsTheWait'
  BY <1>23 DEF Finish, Goes, Saved, Lowered, ThreadOnly
<1>24. CASE TimePasses
  BY <1>24 DEF TimePasses
<1>25. CASE Crash
  BY <1>25 DEF Crash, Gone
<1>26. CASE Start
  BY <1>26 DEF Start
<1>27. CASE UNCHANGED vars
  BY <1>27 DEF vars, flags, outside
<1> QED
  BY <1>1, <1>2, <1>3, <1>4, <1>5, <1>6, <1>7, <1>8, <1>9, <1>10, <1>11,
     <1>12, <1>13, <1>14, <1>15, <1>16, <1>17, <1>18, <1>19, <1>20, <1>21,
     <1>22, <1>23, <1>24, <1>25, <1>26, <1>27 DEF Next, Handlers, MainStep,
     EndofRound

(* With any number of threads, whoever waits for "regen" to fall waits for *)
(* a thread that has yet to lower it, or has failed to make a map.         *)
THEOREM WaitersServed == Spec => []SomebodyEndsTheWait
<1>1. Init => Typed /\ SomebodyEndsTheWait
  BY TicksStart DEF TickInv, SomebodyEndsTheWait, Init
<1>2. Typed /\ SomebodyEndsTheWait /\ [Next]_vars => Typed' /\ SomebodyEndsTheWait'
  BY TypesKept, WaitKept
<1> QED BY <1>1, <1>2, PTL DEF Spec

-----------------------------------------------------------------------------
(* The map. *)

(* One thread keeps the map and the clock together. *)
LEMMA MapKept ==
  ASSUME OneThread, MapInv, [Next]_vars
  PROVE  MapMatches' /\ OneRound'
<1> USE DaemonConstants DEF MapInv, Typed, Down, MapMatches, OneRound, OneThread, Up, Running, flags, outside, Ticks
<1>1. ASSUME NEW u \in User, Register(u) PROVE MapMatches' /\ OneRound'
  BY <1>1 DEF Register, Serving
<1>2. ASSUME NEW u \in User, Quit(u) PROVE MapMatches' /\ OneRound'
  BY <1>2 DEF Quit, Serving
<1>3. CASE TimeFlow
  BY <1>3 DEF TimeFlow, Serving
<1>4. ASSUME NEW t \in Reset, EndRound(t) PROVE MapMatches' /\ OneRound'
  BY <1>4 DEF EndRound, Serving
<1>5. CASE AskShutdown
  BY <1>5 DEF AskShutdown
<1>6. CASE Top
  BY <1>6 DEF Top, MainOnly
<1>7. CASE Judge
  BY <1>7 DEF Judge, MainOnly
<1>8. CASE Clock
  BY <1>8 DEF Clock, MainOnly
<1>9. CASE Begin
  BY <1>9 DEF Begin, MainOnly
<1>10. ASSUME NEW u \in User, TickUser(u) PROVE MapMatches' /\ OneRound'
  BY <1>10 DEF TickUser
<1>11. CASE TickDone
  BY <1>11 DEF TickDone, MainOnly
<1>12. CASE Ranks
  BY <1>12 DEF Ranks, Saved, MainOnly
<1>13. CASE Stop
  BY <1>13 DEF Stop, MainOnly
<1>14. CASE Leave
  BY <1>14 DEF Leave, Gone, MainOnly
<1>15. CASE Wait
  <2>1. /\ main = "wait" /\ main' = "load" /\ ~regen /\ reset' = reset /\ map' = map /\ ticks' = ticks
        /\ ini' = ini /\ regen' = regen /\ crashes' = crashes
    BY <1>15 DEF Wait, MainOnly
  <2>2. \A t \in Reset : reset[t] = "idle"
    BY <2>1 DEF Thread
  <2>3. MapMatches'
    BY <2>1
  <2> QED BY <2>1, <2>2, <2>3
<1>16. CASE Load
  BY <1>16 DEF Load, MainOnly
<1>17. ASSUME NEW t \in Reset, Freeze(t) PROVE MapMatches' /\ OneRound'
  BY <1>17 DEF Freeze, Goes, ThreadOnly
<1>18. ASSUME NEW t \in Reset, Deactivate(t) PROVE MapMatches' /\ OneRound'
  BY <1>18 DEF Deactivate, ThreadOnly
<1>19. ASSUME NEW t \in Reset, Raise(t) PROVE MapMatches' /\ OneRound'
  BY <1>19 DEF Raise, Goes, ThreadOnly
<1>20. ASSUME NEW t \in Reset, Await(t) PROVE MapMatches' /\ OneRound'
  BY <1>20 DEF Await, Goes, ThreadOnly
<1>21. ASSUME NEW t \in Reset, NextRound(t) PROVE MapMatches' /\ OneRound'
  BY <1>21 DEF NextRound, Goes, ThreadOnly
<1>22. ASSUME NEW t \in Reset, SpawnMap(t) PROVE MapMatches' /\ OneRound'
  BY <1>22 DEF SpawnMap, Goes, ThreadOnly
<1>23. ASSUME NEW t \in Reset, Finish(t) PROVE MapMatches' /\ OneRound'
  BY <1>23 DEF Finish, Goes, Saved, Lowered, ThreadOnly
<1>24. CASE TimePasses
  BY <1>24 DEF TimePasses
<1>25. CASE Crash
  BY <1>25 DEF Crash, Gone
<1>26. CASE Start
  BY <1>26 DEF Start
<1>27. CASE UNCHANGED vars
  BY <1>27 DEF vars, flags, outside
<1> QED
  BY <1>1, <1>2, <1>3, <1>4, <1>5, <1>6, <1>7, <1>8, <1>9, <1>10, <1>11,
     <1>12, <1>13, <1>14, <1>15, <1>16, <1>17, <1>18, <1>19, <1>20, <1>21,
     <1>22, <1>23, <1>24, <1>25, <1>26, <1>27 DEF Next, Handlers, MainStep,
     EndofRound

(* Where one thread at most ends a round, every round ends with the map of *)
(* the round the clock shows, and nobody is left waiting (cmdEndofRound of *)
(* cmdexec.c against the restart in main.c).                               *)
THEOREM RoundsEnd ==
  ASSUME OneThread
  PROVE  Spec => []RoundsEndWell
<1>1. Init => MapInv /\ SomebodyEndsTheWait
  <2>1. Init => Typed /\ Down /\ SomebodyEndsTheWait
    BY TicksStart DEF TickInv, SomebodyEndsTheWait, Init
  <2>2. Init => MapMatches /\ OneRound
    BY DEF Init, MapMatches, OneRound, Zero, Running
  <2> QED BY <2>1, <2>2 DEF MapInv
<1>2. MapInv /\ SomebodyEndsTheWait /\ [Next]_vars => MapInv' /\ SomebodyEndsTheWait'
  BY OneThread, TypesKept, DownKept, WaitKept, MapKept DEF MapInv
<1>3. MapInv /\ SomebodyEndsTheWait => RoundsEndWell
  <2>1. MapInv => TypeOK
    BY DEF MapInv, Typed, TypeOK, Account
  <2>2. MapInv => MapOfTheRound
    BY DEF MapInv, MapMatches, MapOfTheRound, Running, Up
  <2> QED BY <2>1, <2>2 DEF RoundsEndWell
<1> QED BY <1>1, <1>2, <1>3, PTL DEF Spec

-----------------------------------------------------------------------------
(* The accounts that a start finds. *)

\* Where a registration is, and what it has left on the disk so far.
Registering ==
  doing.op = "add" =>
    /\ doing.at \in 1 .. 6 /\ doing.name \in Name
    /\ doing.at <= 5 => next = doing.id
    /\ doing.at = 6 => next = doing.id + 1
    /\ live[doing.id] = doing.name /\ promised[doing.id] = None
    /\ doing.at = 1 => data[doing.id] = "none"
    /\ doing.at >= 2 => data[doing.id] # "none"
    /\ doing.at <= 2 => info[doing.id] = None
    /\ doing.at \in {3, 4} => info[doing.id] = "bare"
    /\ doing.at >= 5 => info[doing.id] = doing.name

\* Where a deletion is, and what it has left on the disk so far.
Deleting ==
  doing.op = "remove" =>
    /\ doing.at \in 1 .. 4 /\ doing.id < next
    /\ live[doing.id] = None /\ promised[doing.id] = None
    /\ doing.at <= 3 => data[doing.id] # "none"
    /\ doing.at = 4 => info[doing.id] = None

HandlersSound ==
  /\ doing.op = "idle" => doing = A!Idle
  /\ ~up => doing = A!Idle
  /\ Registering /\ Deleting

Busy(i) == doing.op # "idle" /\ doing.id = i

\* Behind the last number there is nothing, but for what a registration makes.
NothingBehind ==
  up => \A i \in A!Id : i >= next /\ ~Busy(i) => data[i] = "none" /\ info[i] = None

\* users/user%d is made after data/user%d and removed before it.
DirectoriesPaired == \A i \in A!Id : info[i] # None => data[i] # "none"

\* Between handlers the users in memory are those on the disk.
ListedAsFiled == up => \A i \in A!Id : ~Busy(i) => live[i] = info[i]

LoginsApart == up => \A i, j \in A!Id : i # j => live[i] # live[j] \/ live[i] \notin Name

\* Every record on the disk was promised, cut off, or is being worked on.
Accounted == \A i \in A!Id : info[i] # None => promised[i] # None \/ i \in cut \/ Busy(i)

AccountsSound ==
  /\ A!TypeOK /\ HandlersSound
  /\ NothingBehind /\ DirectoriesPaired /\ ListedAsFiled
  /\ LoginsApart /\ A!LoginsUnique /\ A!AccountsKept /\ Accounted

(* The invariant says what the runs check. *)
LEMMA AccountsSuffice ==
  ASSUME AccountsSound
  PROVE  A!RegistrationOpen /\ A!LoginsUnique /\ A!AccountsKept /\ A!NoStrangers
<1>1. A!Free => up /\ \A i \in A!Id : ~Busy(i)
  BY DEF A!Free, A!Idle, Busy
<1>2. A!RegistrationOpen
  BY <1>1 DEF AccountsSound, NothingBehind, A!RegistrationOpen
<1>3. A!NoStrangers
  BY <1>1 DEF AccountsSound, ListedAsFiled, Accounted, A!NoStrangers
<1> QED BY <1>2, <1>3 DEF AccountsSound

LEMMA AccountsStart == A!Init => AccountsSound
BY AccountsConstants
   DEF A!Init, AccountsSound, A!TypeOK, HandlersSound, Registering, Deleting, NothingBehind, DirectoriesPaired,
       ListedAsFiled, LoginsApart, A!LoginsUnique, A!AccountsKept, Accounted, Busy, A!Idle, A!Id

LEMMA RegisterKeeps ==
  ASSUME AccountsSound, NEW n \in Name, A!Register(n)
  PROVE  AccountsSound'
<1> USE AccountsConstants DEF AccountsSound, A!Register, A!Free, A!Idle, A!disk, A!history
<1>1. A!TypeOK'
  BY DEF A!TypeOK, A!Id
<1>2. next \in A!Id /\ doing'.id = next /\ \A i \in A!Id : ~Busy(i)
  BY DEF A!TypeOK, A!Id, Busy
<1>3. data[next] = "none" /\ info[next] = None /\ promised[next] = None
  BY <1>2 DEF NothingBehind, A!AccountsKept, A!TypeOK
<1>4. HandlersSound'
  BY <1>2, <1>3 DEF HandlersSound, Registering, Deleting, A!TypeOK
<1>5. \A i \in A!Id : i # next => live'[i] = live[i] /\ live[i] = info[i] /\ live[i] # n
  BY <1>2 DEF ListedAsFiled, A!TypeOK
<1>6. NothingBehind' /\ DirectoriesPaired' /\ ListedAsFiled'
  BY <1>2, <1>5 DEF NothingBehind, DirectoriesPaired, ListedAsFiled, Busy
<1>7. LoginsApart' /\ A!LoginsUnique'
  BY <1>2, <1>5 DEF LoginsApart, A!LoginsUnique, A!TypeOK
<1>8. A!AccountsKept' /\ Accounted'
  BY <1>2, <1>3, <1>5 DEF A!AccountsKept, Accounted, Busy
<1> QED BY <1>1, <1>4, <1>6, <1>7, <1>8
(* The steps of a registration change only what belongs to its number. *)
LEMMA MakeDataKeeps ==
  ASSUME AccountsSound, A!MakeData
  PROVE  AccountsSound'
<1> USE AccountsConstants DEF AccountsSound, A!MakeData, A!At, A!Onward, A!disk, A!history
<1>1. doing.id \in A!Id /\ data[doing.id] = "none"
  BY DEF A!TypeOK, HandlersSound, Registering
<1>2. /\ doing' = [doing EXCEPT !.at = 2] /\ data' = [data EXCEPT ![doing.id] = "bare"]
      /\ UNCHANGED live
  BY <1>1 DEF A!Idle, A!TypeOK
<1>3. doing'.op = "add" /\ doing'.id = doing.id /\ doing'.at = 2 /\ doing'.name = doing.name
  BY <1>2 DEF A!TypeOK
<1>4. A!TypeOK'
  BY <1>2 DEF A!TypeOK
<1>5. HandlersSound'
  BY <1>1, <1>2, <1>3 DEF HandlersSound, Registering, Deleting, A!TypeOK
<1>6. NothingBehind' /\ DirectoriesPaired' /\ ListedAsFiled'
  BY <1>1, <1>2, <1>3 DEF NothingBehind, DirectoriesPaired, ListedAsFiled, Busy, A!TypeOK
<1>7. LoginsApart' /\ A!LoginsUnique'
  BY <1>2 DEF LoginsApart, A!LoginsUnique
<1>8. A!AccountsKept' /\ Accounted'
  BY <1>1, <1>2, <1>3 DEF A!AccountsKept, Accounted, Busy, A!TypeOK, HandlersSound, Registering
<1> QED BY <1>4, <1>5, <1>6, <1>7, <1>8

LEMMA MakeUsersKeeps ==
  ASSUME AccountsSound, A!MakeUsers
  PROVE  AccountsSound'
<1> USE AccountsConstants DEF AccountsSound, A!MakeUsers, A!At, A!Onward, A!disk, A!history
<1>1. doing.id \in A!Id /\ info[doing.id] = None
  BY DEF A!TypeOK, HandlersSound, Registering
<1>2. /\ doing' = [doing EXCEPT !.at = 3] /\ info' = [info EXCEPT ![doing.id] = "bare"]
      /\ UNCHANGED live
  BY <1>1 DEF A!Idle, A!TypeOK
<1>3. doing'.op = "add" /\ doing'.id = doing.id /\ doing'.at = 3 /\ doing'.name = doing.name
  BY <1>2 DEF A!TypeOK
<1>4. A!TypeOK'
  BY <1>2 DEF A!TypeOK
<1>5. HandlersSound'
  BY <1>1, <1>2, <1>3 DEF HandlersSound, Registering, Deleting, A!TypeOK
<1>6. NothingBehind' /\ DirectoriesPaired' /\ ListedAsFiled'
  BY <1>1, <1>2, <1>3
     DEF NothingBehind, DirectoriesPaired, ListedAsFiled, Busy, A!TypeOK, HandlersSound, Registering
<1>7. LoginsApart' /\ A!LoginsUnique'
  BY <1>1, <1>2 DEF LoginsApart, A!LoginsUnique, A!TypeOK
<1>8. A!AccountsKept' /\ Accounted'
  BY <1>1, <1>2, <1>3 DEF A!AccountsKept, Accounted, Busy, A!TypeOK, HandlersSound, Registering
<1> QED BY <1>4, <1>5, <1>6, <1>7, <1>8

LEMMA FillDataKeeps ==
  ASSUME AccountsSound, A!FillData
  PROVE  AccountsSound'
<1> USE AccountsConstants DEF AccountsSound, A!FillData, A!At, A!Onward, A!disk, A!history
<1>1. doing.id \in A!Id /\ doing' = [doing EXCEPT !.at = 4]
  BY DEF A!TypeOK
<1>2. doing'.op = "add" /\ doing'.id = doing.id /\ doing'.at = 4 /\ doing'.name = doing.name
  BY <1>1 DEF A!TypeOK
<1>3. A!TypeOK'
  BY <1>1 DEF A!TypeOK
<1>4. HandlersSound'
  BY <1>1, <1>2 DEF HandlersSound, Registering, Deleting, A!TypeOK
<1>5. NothingBehind' /\ DirectoriesPaired' /\ ListedAsFiled'
  BY <1>1, <1>2 DEF NothingBehind, DirectoriesPaired, ListedAsFiled, Busy, A!TypeOK
<1>6. LoginsApart' /\ A!LoginsUnique'
  BY DEF LoginsApart, A!LoginsUnique
<1>7. A!AccountsKept' /\ Accounted'
  BY <1>1, <1>2 DEF A!AccountsKept, Accounted, Busy, A!TypeOK, HandlersSound, Registering
<1> QED BY <1>3, <1>4, <1>5, <1>6, <1>7

LEMMA FillUsersKeeps ==
  ASSUME AccountsSound, A!FillUsers
  PROVE  AccountsSound'
<1> USE AccountsConstants DEF AccountsSound, A!FillUsers, A!At, A!Onward, A!disk, A!history
<1>1. doing.id \in A!Id /\ doing' = [doing EXCEPT !.at = 5]
  BY DEF A!TypeOK
<1>2. doing'.op = "add" /\ doing'.id = doing.id /\ doing'.at = 5 /\ doing'.name = doing.name
  BY <1>1 DEF A!TypeOK
<1>3. doing.name \in Name /\ live[doing.id] = doing.name /\ promised[doing.id] = None
  BY DEF HandlersSound, Registering
<1>4. A!TypeOK'
  BY <1>1, <1>3 DEF A!TypeOK
<1>5. HandlersSound'
  BY <1>1, <1>2 DEF HandlersSound, Registering, Deleting, A!TypeOK
<1>6. NothingBehind' /\ DirectoriesPaired' /\ ListedAsFiled'
  BY <1>1, <1>2
     DEF NothingBehind, DirectoriesPaired, ListedAsFiled, Busy, A!TypeOK, HandlersSound, Registering
<1>7. \A i \in A!Id : i # doing.id => info'[i] = live[i] /\ live[i] # doing.name
  BY <1>1, <1>3 DEF ListedAsFiled, LoginsApart, Busy, A!TypeOK
<1>8. LoginsApart' /\ A!LoginsUnique'
  BY <1>1, <1>3, <1>7 DEF LoginsApart, A!LoginsUnique, A!TypeOK
<1>9. A!AccountsKept' /\ Accounted'
  BY <1>1, <1>2, <1>3 DEF A!AccountsKept, Accounted, Busy, A!TypeOK
<1> QED BY <1>4, <1>5, <1>6, <1>8, <1>9

LEMMA CountKeeps ==
  ASSUME AccountsSound, A!Count
  PROVE  AccountsSound'
<1> USE AccountsConstants DEF AccountsSound, A!Count, A!At, A!Onward, A!disk, A!history
<1>1. doing.id \in A!Id /\ doing' = [doing EXCEPT !.at = 6] /\ next = doing.id
  BY DEF A!TypeOK, HandlersSound, Registering
<1>2. doing'.op = "add" /\ doing'.id = doing.id /\ doing'.at = 6 /\ doing'.name = doing.name
  BY <1>1 DEF A!TypeOK
<1>3. A!TypeOK'
  <2>1. next' \in 0 .. MaxId + 1
    BY <1>1 DEF A!Id
  <2> QED BY <1>1, <2>1 DEF A!TypeOK
<1>4. HandlersSound'
  BY <1>1, <1>2 DEF HandlersSound, Registering, Deleting, A!TypeOK
<1>5. NothingBehind' /\ DirectoriesPaired' /\ ListedAsFiled'
  BY <1>1, <1>2 DEF NothingBehind, DirectoriesPaired, ListedAsFiled, Busy, A!Id
<1>6. LoginsApart' /\ A!LoginsUnique'
  BY DEF LoginsApart, A!LoginsUnique
<1>7. A!AccountsKept' /\ Accounted'
  BY <1>1, <1>2 DEF A!AccountsKept, Accounted, Busy
<1> QED BY <1>3, <1>4, <1>5, <1>6, <1>7

LEMMA SetMainKeeps ==
  ASSUME AccountsSound, A!SetMain
  PROVE  AccountsSound'
<1> USE AccountsConstants DEF AccountsSound, A!SetMain, A!At, A!disk, A!history
<1>1. /\ doing.id \in A!Id /\ next = doing.id + 1 /\ info[doing.id] = doing.name
      /\ live[doing.id] = doing.name /\ doing.name \in Name /\ doing.name # None
  BY DEF A!TypeOK, HandlersSound, Registering
<1>2. doing'.op = "idle" /\ doing' = A!Idle
  BY DEF A!Idle
<1>3. A!TypeOK'
  BY <1>1 DEF A!TypeOK, A!Idle, A!Id
<1>4. HandlersSound'
  BY <1>2 DEF HandlersSound, Registering, Deleting
<1>5. NothingBehind' /\ DirectoriesPaired' /\ ListedAsFiled'
  BY <1>1, <1>2 DEF NothingBehind, DirectoriesPaired, ListedAsFiled, Busy, A!Id, A!TypeOK
<1>6. LoginsApart' /\ A!LoginsUnique'
  BY DEF LoginsApart, A!LoginsUnique
<1>7. A!AccountsKept' /\ Accounted'
  BY <1>1, <1>2 DEF A!AccountsKept, Accounted, Busy, A!TypeOK
<1> QED BY <1>3, <1>4, <1>5, <1>6, <1>7
LEMMA BlockKeeps ==
  ASSUME AccountsSound, NEW i \in A!Id, A!Block(i)
  PROVE  AccountsSound'
<1> USE DEF AccountsSound, A!Block, A!history
<1>1. A!TypeOK' /\ HandlersSound'
  BY DEF A!TypeOK, HandlersSound, Registering, Deleting
<1>2. NothingBehind' /\ DirectoriesPaired' /\ ListedAsFiled' /\ LoginsApart' /\ A!LoginsUnique'
  BY DEF NothingBehind, DirectoriesPaired, ListedAsFiled, LoginsApart, A!LoginsUnique, Busy
<1>3. A!AccountsKept' /\ Accounted'
  BY DEF A!AccountsKept, Accounted, Busy
<1> QED BY <1>1, <1>2, <1>3

(* A deletion begins with an account that is in the files. *)
LEMMA DeleteKeeps ==
  ASSUME AccountsSound, NEW i \in A!Id, A!Delete(i)
  PROVE  AccountsSound'
<1> USE AccountsConstants DEF AccountsSound, A!Delete, A!Free, A!Idle, A!disk
<1>1. \A j \in A!Id : ~Busy(j) /\ live[j] = info[j]
  BY DEF Busy, ListedAsFiled
<1>2. doing'.op = "remove" /\ doing'.id = i /\ doing'.at = 1
  OBVIOUS
<1>3. info[i] # None /\ data[i] # "none" /\ i < next
  BY <1>1 DEF DirectoriesPaired, NothingBehind, A!TypeOK, A!Id
<1>4. A!TypeOK'
  BY DEF A!TypeOK
<1>5. HandlersSound'
  BY <1>2, <1>3 DEF HandlersSound, Registering, Deleting, A!TypeOK
<1>6. NothingBehind' /\ DirectoriesPaired' /\ ListedAsFiled'
  BY <1>1, <1>2, <1>3 DEF NothingBehind, DirectoriesPaired, ListedAsFiled, Busy, A!TypeOK
<1>7. LoginsApart' /\ A!LoginsUnique'
  BY DEF LoginsApart, A!LoginsUnique, A!TypeOK
<1>8. A!AccountsKept' /\ Accounted'
  BY <1>1, <1>2 DEF A!AccountsKept, Accounted, Busy, A!TypeOK
<1> QED BY <1>4, <1>5, <1>6, <1>7, <1>8

(* A deletion takes the record first, and the directory of the game last. *)
LEMMA UnlinkUsersKeeps ==
  ASSUME AccountsSound, A!UnlinkUsers
  PROVE  AccountsSound'
<1> USE AccountsConstants DEF AccountsSound, A!UnlinkUsers, A!At, A!Onward, A!disk, A!history
<1>1. /\ doing.id \in A!Id /\ doing.id < next
      /\ live[doing.id] = None /\ promised[doing.id] = None /\ data[doing.id] # "none"
  BY DEF A!TypeOK, HandlersSound, Deleting
<1>2. doing' = [doing EXCEPT !.at = 2]
  BY DEF A!TypeOK
<1>3. doing'.op = "remove" /\ doing'.id = doing.id /\ doing'.at = 2
  BY <1>2 DEF A!TypeOK
<1>4. A!TypeOK'
  BY <1>2 DEF A!TypeOK
<1>5. HandlersSound'
  BY <1>1, <1>2, <1>3 DEF HandlersSound, Registering, Deleting, A!TypeOK
<1>6. NothingBehind' /\ DirectoriesPaired' /\ ListedAsFiled'
  BY <1>1, <1>2, <1>3 DEF NothingBehind, DirectoriesPaired, ListedAsFiled, Busy, A!TypeOK
<1>7. LoginsApart' /\ A!LoginsUnique'
  BY <1>1 DEF LoginsApart, A!LoginsUnique, A!TypeOK
<1>8. A!AccountsKept' /\ Accounted'
  BY <1>1, <1>2, <1>3 DEF A!AccountsKept, Accounted, Busy, A!TypeOK
<1> QED BY <1>4, <1>5, <1>6, <1>7, <1>8

LEMMA UnlinkDataKeeps ==
  ASSUME AccountsSound, A!UnlinkData
  PROVE  AccountsSound'
<1> USE AccountsConstants DEF AccountsSound, A!UnlinkData, A!At, A!Onward, A!disk, A!history
<1>1. /\ doing.id \in A!Id /\ doing.id < next
      /\ live[doing.id] = None /\ promised[doing.id] = None /\ data[doing.id] # "none"
  BY DEF A!TypeOK, HandlersSound, Deleting
<1>2. doing' = [doing EXCEPT !.at = 3]
  BY DEF A!TypeOK
<1>3. doing'.op = "remove" /\ doing'.id = doing.id /\ doing'.at = 3
  BY <1>2 DEF A!TypeOK
<1>4. A!TypeOK'
  BY <1>2 DEF A!TypeOK
<1>5. HandlersSound'
  BY <1>1, <1>2, <1>3 DEF HandlersSound, Registering, Deleting, A!TypeOK
<1>6. NothingBehind' /\ DirectoriesPaired' /\ ListedAsFiled'
  BY <1>1, <1>2, <1>3 DEF NothingBehind, DirectoriesPaired, ListedAsFiled, Busy, A!TypeOK
<1>7. LoginsApart' /\ A!LoginsUnique'
  BY <1>1 DEF LoginsApart, A!LoginsUnique, A!TypeOK
<1>8. A!AccountsKept' /\ Accounted'
  BY <1>1, <1>2, <1>3 DEF A!AccountsKept, Accounted, Busy, A!TypeOK
<1> QED BY <1>4, <1>5, <1>6, <1>7, <1>8

LEMMA DropUsersKeeps ==
  ASSUME AccountsSound, A!DropUsers
  PROVE  AccountsSound'
<1> USE AccountsConstants DEF AccountsSound, A!DropUsers, A!At, A!Onward, A!disk, A!history
<1>1. /\ doing.id \in A!Id /\ doing.id < next
      /\ live[doing.id] = None /\ promised[doing.id] = None /\ data[doing.id] # "none"
  BY DEF A!TypeOK, HandlersSound, Deleting
<1>2. doing' = [doing EXCEPT !.at = 4]
  BY DEF A!TypeOK
<1>3. doing'.op = "remove" /\ doing'.id = doing.id /\ doing'.at = 4
  BY <1>2 DEF A!TypeOK
<1>4. A!TypeOK'
  BY <1>2 DEF A!TypeOK
<1>5. HandlersSound'
  BY <1>1, <1>2, <1>3 DEF HandlersSound, Registering, Deleting, A!TypeOK
<1>6. NothingBehind' /\ DirectoriesPaired' /\ ListedAsFiled'
  BY <1>1, <1>2, <1>3 DEF NothingBehind, DirectoriesPaired, ListedAsFiled, Busy, A!TypeOK
<1>7. LoginsApart' /\ A!LoginsUnique'
  BY <1>1 DEF LoginsApart, A!LoginsUnique, A!TypeOK
<1>8. A!AccountsKept' /\ Accounted'
  BY <1>1, <1>2, <1>3 DEF A!AccountsKept, Accounted, Busy, A!TypeOK
<1> QED BY <1>4, <1>5, <1>6, <1>7, <1>8

LEMMA DropDataKeeps ==
  ASSUME AccountsSound, A!DropData
  PROVE  AccountsSound'
<1> USE AccountsConstants DEF AccountsSound, A!DropData, A!At, A!history
<1>1. /\ doing.id \in A!Id /\ doing.id < next /\ doing.op # "idle"
      /\ live[doing.id] = None /\ promised[doing.id] = None /\ info[doing.id] = None
  BY DEF A!TypeOK, HandlersSound, Deleting
<1>2. doing' = A!Idle /\ doing'.op = "idle" /\ UNCHANGED <<live, next, info, up>>
  BY DEF A!Idle
<1>3. A!TypeOK'
  BY DEF A!TypeOK, A!Idle, A!Id
<1>4. HandlersSound'
  BY <1>2 DEF HandlersSound, Registering, Deleting
<1>5. NothingBehind' /\ DirectoriesPaired' /\ ListedAsFiled'
  BY <1>1, <1>2 DEF NothingBehind, DirectoriesPaired, ListedAsFiled, Busy, A!TypeOK, A!Id
<1>6. LoginsApart' /\ A!LoginsUnique'
  BY DEF LoginsApart, A!LoginsUnique
<1>7. A!AccountsKept' /\ Accounted'
  BY <1>1, <1>2 DEF A!AccountsKept, Accounted, Busy, A!TypeOK
<1> QED BY <1>3, <1>4, <1>5, <1>6, <1>7

(* A crash leaves the disk, and the number a handler was at is noted. *)
LEMMA CrashKeeps ==
  ASSUME AccountsSound, A!Crash
  PROVE  AccountsSound'
<1> USE AccountsConstants DEF AccountsSound, A!Crash, A!disk
<1>1. doing' = A!Idle /\ doing'.op = "idle" /\ up' = FALSE
  BY DEF A!Idle
<1>2. A!TypeOK'
  <2>1. 0 \in A!Id
    BY DEF A!Id
  <2>2. doing.id \in A!Id /\ cut' \subseteq A!Id
    BY DEF A!TypeOK
  <2>3. doing' \in [op: {"idle", "add", "remove"}, id: A!Id, name: Name \cup {None}, at: 0 .. 6]
    BY <2>1 DEF A!Idle
  <2>4. live' \in [A!Id -> Name \cup {None, Empty}]
    OBVIOUS
  <2> QED BY <2>2, <2>3, <2>4 DEF A!TypeOK
<1>3. HandlersSound'
  BY <1>1 DEF HandlersSound, Registering, Deleting
<1>4. NothingBehind' /\ DirectoriesPaired' /\ ListedAsFiled' /\ LoginsApart' /\ A!LoginsUnique'
  BY <1>1 DEF NothingBehind, DirectoriesPaired, ListedAsFiled, LoginsApart, A!LoginsUnique
<1>5. A!AccountsKept'
  BY <1>1 DEF A!AccountsKept
<1>6. \A i \in A!Id : Busy(i) => i \in cut'
  BY DEF Busy, A!Idle
<1>7. Accounted'
  BY <1>6 DEF Accounted
<1> QED BY <1>2, <1>3, <1>4, <1>5, <1>7

(* A start finds every number with a directory and reads its record. *)
LEMMA StartKeeps ==
  ASSUME AccountsSound, A!Start
  PROVE  AccountsSound'
<1> USE AccountsConstants DEF AccountsSound, A!Start, A!history
<1>1. up' /\ doing' = A!Idle /\ doing'.op = "idle" /\ \A i \in A!Id : ~Busy(i)
  BY DEF HandlersSound, A!Idle, Busy
<1>2. data' \in [A!Id -> {"none", "made", "set"}]
  BY DEF A!TypeOK, A!Reopened
<1>3. \A i \in A!Id : (data'[i] = "none" <=> data[i] = "none") /\ (data'[i] = "set" <=> data[i] = "set")
  BY DEF A!TypeOK, A!Reopened
<1>4. next' \in 1 .. MaxId + 1 /\ \A i \in A!Id : i >= next' => data'[i] = "none"
  <2>1. PICK last \in A!Id : A!IsLast(last, data') /\ next' = A!After(last)
    OBVIOUS
  <2>2. next' \in 1 .. MaxId + 1 /\ \A i \in A!Id : i >= next' => i > last
    BY <2>1 DEF A!After, A!Id
  <2> QED BY <1>2, <2>1, <2>2 DEF A!IsLast
<1>5. \A i \in A!Id : i >= next' => info[i] = None
  BY <1>3, <1>4 DEF DirectoriesPaired
<1>6. \A i \in A!Id : info'[i] = A!Read(info[i]) /\ live'[i] = info'[i]
  <2>1. \A i \in A!Id : i < next' \/ i >= next'
    BY <1>4 DEF A!Id
  <2> QED BY <1>5, <2>1 DEF A!IsRead, A!Read, A!TypeOK
<1>7. \A i \in A!Id : info'[i] = None <=> info[i] = None
  BY <1>6 DEF A!Read
<1>8. \A i \in A!Id : info[i] \in Name \/ info'[i] \in Name => info'[i] = info[i]
  BY <1>6 DEF A!Read
<1>9. A!TypeOK'
  <2>1. \A i \in A!Id : info'[i] \in Name \cup {None, Empty}
    BY <1>6 DEF A!TypeOK, A!Read
  <2>2. info' \in [A!Id -> Name \cup {None, Empty, "bare"}]
    BY <2>1
  <2>3. live' \in [A!Id -> Name \cup {None, Empty}]
    BY <2>1, <1>6
  <2> QED BY <1>1, <1>2, <1>4, <2>2, <2>3 DEF A!TypeOK
<1>10. HandlersSound'
  BY <1>1 DEF HandlersSound, Registering, Deleting
<1>11. NothingBehind' /\ DirectoriesPaired' /\ ListedAsFiled'
  BY <1>3, <1>4, <1>5, <1>6, <1>7 DEF NothingBehind, DirectoriesPaired, ListedAsFiled
<1>12. LoginsApart' /\ A!LoginsUnique'
  BY <1>6, <1>8 DEF LoginsApart, A!LoginsUnique
<1>13. A!AccountsKept'
  BY <1>3, <1>6, <1>8 DEF A!AccountsKept, A!TypeOK
<1>14. Accounted'
  BY <1>1, <1>7 DEF Accounted
<1> QED BY <1>9, <1>10, <1>11, <1>12, <1>13, <1>14

LEMMA AccountsStep == AccountsSound /\ [A!Next]_(A!vars) => AccountsSound'
<1> SUFFICES ASSUME AccountsSound, [A!Next]_(A!vars) PROVE AccountsSound'
  OBVIOUS
<1>1. ASSUME NEW n \in Name, A!Register(n) PROVE AccountsSound'
  BY <1>1, RegisterKeeps
<1>2. CASE A!MakeData \/ A!MakeUsers \/ A!FillData \/ A!FillUsers \/ A!Count \/ A!SetMain
  BY <1>2, MakeDataKeeps, MakeUsersKeeps, FillDataKeeps, FillUsersKeeps, CountKeeps, SetMainKeeps
<1>3. ASSUME NEW i \in A!Id, A!Block(i) \/ A!Delete(i) PROVE AccountsSound'
  BY <1>3, BlockKeeps, DeleteKeeps
<1>4. CASE A!UnlinkUsers \/ A!UnlinkData \/ A!DropUsers \/ A!DropData
  BY <1>4, UnlinkUsersKeeps, UnlinkDataKeeps, DropUsersKeeps, DropDataKeeps
<1>5. CASE A!Crash \/ A!Start
  BY <1>5, CrashKeeps, StartKeeps
<1>6. CASE UNCHANGED A!vars
  BY <1>6
     DEF A!vars, AccountsSound, A!TypeOK, HandlersSound, Registering, Deleting, NothingBehind, DirectoriesPaired,
         ListedAsFiled, LoginsApart, A!LoginsUnique, A!AccountsKept, Accounted, Busy
<1> QED BY <1>1, <1>2, <1>3, <1>4, <1>5, <1>6 DEF A!Next

LEMMA AccountsAlways == A!Spec => []AccountsSound
BY AccountsStart, AccountsStep, PTL DEF A!Spec

(* Wherever crashes cut registrations and deletions off, the next number is  *)
(* one whose directories dbUserAdd can make.                                 *)
THEOREM RegistrationStaysOpen == A!Spec => []RegistrationOpen
<1>1. AccountsSound => RegistrationOpen
  BY AccountsSuffice DEF RegistrationOpen, A!RegistrationOpen, Free, A!Free, Idle, A!Idle, Id, A!Id
<1> QED BY <1>1, AccountsAlways, PTL

(* No account that was confirmed is lost or changed by a crash, by a start   *)
(* or by what happens to other accounts.                                     *)
THEOREM PromisesKept == A!Spec => []AccountsKept
<1>1. AccountsSound => AccountsKept
  BY AccountsSuffice DEF AccountsKept, A!AccountsKept, Free, A!Free, Idle, A!Idle, Id, A!Id
<1> QED BY <1>1, AccountsAlways, PTL

(* A start finds nobody but the accounts that were promised and what crashes *)
(* left of others: who was deleted does not come back.                       *)
THEOREM DeletedStayDeleted == A!Spec => []NoStrangers
<1>1. AccountsSound => NoStrangers
  BY AccountsSuffice DEF NoStrangers, A!NoStrangers, Free, A!Free, Idle, A!Idle, Id, A!Id
<1> QED BY <1>1, AccountsAlways, PTL

(* No two records on the disk have the same login name.                      *)
THEOREM LoginsStayUnique == A!Spec => []LoginsUnique
<1>1. AccountsSound => LoginsUnique
  BY AccountsSuffice DEF LoginsUnique, A!LoginsUnique, Free, A!Free, Idle, A!Idle, Id, A!Id
<1> QED BY <1>1, AccountsAlways, PTL

-----------------------------------------------------------------------------
(* Artefacts and the end by victory.                                       *)

\* The players the tick has still to visit.
Ahead == {walk[i] : i \in DOMAIN walk}

WalkSound ==
  /\ walk \in Seq(Player)
  /\ \A i, j \in DOMAIN walk : walk[i] = walk[j] => i = j
  /\ ~ticking => walk = <<>>

RecordsTyped ==
  /\ owner \in [Artefact -> Player \cup {Nobody}]
  /\ home \in [Player -> Empire \cup {Nobody}]
  /\ bits \in [Empire -> SUBSET Artefact]

\* The planet of an artefact that was counted belongs to nobody who is still
\* to be visited: he would be counted for it again.
CountedBehind == \A a \in Artefact, e \in Empire : a \in bits[e] => owner[a] \notin Ahead

ArtefactsInv == WalkSound /\ RecordsTyped /\ CountedBehind /\ V!CountedOnce

(* The first of the walk is taken off it. *)
LEMMA WalkOn ==
  ASSUME WalkSound, walk # <<>>, walk' = Tail(walk), ticking' = ticking
  PROVE  /\ WalkSound' /\ Head(walk) \in Player
         /\ Head(walk) \in Ahead /\ Ahead' = Ahead \ {Head(walk)}
<1> DEFINE n == Len(walk)
<1>1. n \in Nat \ {0} /\ DOMAIN walk = 1 .. n /\ Head(walk) = walk[1]
  BY DEF WalkSound
<1>2. walk' \in Seq(Player) /\ DOMAIN walk' = 1 .. n - 1
  BY <1>1 DEF WalkSound
<1>3. \A i \in 1 .. n - 1 : walk'[i] = walk[i + 1]
  BY <1>1 DEF WalkSound
<1>4. \A i \in 1 .. n - 1 : i + 1 \in 1 .. n /\ i + 1 # 1
  BY <1>1
<1>5. \A j \in 1 .. n : j = 1 \/ (j - 1 \in 1 .. n - 1 /\ j = (j - 1) + 1)
  BY <1>1
<1>6. \A i, j \in 1 .. n : walk[i] = walk[j] => i = j
  BY <1>1 DEF WalkSound
<1>7. WalkSound'
  <2>1. \A i, j \in 1 .. n - 1 : walk'[i] = walk'[j] => i = j
    BY <1>3, <1>4, <1>6
  <2>2. ticking
    BY DEF WalkSound
  <2> QED BY <1>1, <1>2, <2>1, <2>2 DEF WalkSound
<1>8. Ahead' = Ahead \ {Head(walk)}
  <2>1. \A x : x \in Ahead' => x \in Ahead /\ x # walk[1]
    BY <1>1, <1>2, <1>3, <1>4, <1>6 DEF Ahead
  <2>2. \A x : x \in Ahead /\ x # walk[1] => x \in Ahead'
    <3>1. SUFFICES ASSUME NEW j \in 1 .. n, j # 1 PROVE walk[j] \in Ahead'
      BY <1>1 DEF Ahead
    <3>2. j - 1 \in DOMAIN walk' /\ walk'[j - 1] = walk[j]
      BY <1>1, <1>2, <1>3, <1>5, <3>1
    <3> QED BY <3>2 DEF Ahead
  <2> QED BY <1>1, <2>1, <2>2
<1>9. Head(walk) \in Player /\ Head(walk) \in Ahead
  BY <1>1 DEF Ahead, WalkSound
<1> QED BY <1>7, <1>8, <1>9

(* A player's planets are counted, and then his fleets act. *)
LEMMA VisitKeeps ==
  ASSUME ArtefactsInv, V!Visit
  PROVE  ArtefactsInv'
<1> DEFINE u == Head(walk)
<1> USE VictoryConstants
<1>1. /\ WalkSound' /\ u \in Player /\ u \in Ahead
      /\ Ahead' \subseteq Ahead /\ u \notin Ahead' /\ Ahead \subseteq Player
  <2>1. WalkSound' /\ u \in Player /\ u \in Ahead /\ Ahead' = Ahead \ {u}
    BY WalkOn DEF ArtefactsInv, V!Visit
  <2>2. Ahead \subseteq Player
    BY DEF Ahead, ArtefactsInv, WalkSound
  <2> QED BY <2>1, <2>2
<1>2. CASE ~V!Active(u)
  <2>1. UNCHANGED <<owner, home, bits>>
    BY <1>2 DEF V!Visit
  <2> QED BY <1>1, <2>1 DEF ArtefactsInv, RecordsTyped, CountedBehind, V!CountedOnce
<1>3. CASE V!Active(u)
  <2>1. bits' = V!Counted(owner, u) /\ owner' \in V!Arrived(u) /\ home' = home
    BY <1>3 DEF V!Visit
  <2>2. home[u] \in Empire
    BY <1>1, <1>3 DEF V!Active, ArtefactsInv, RecordsTyped
  <2>3. /\ bits' \in [Empire -> SUBSET Artefact]
        /\ \A e \in Empire : \A a \in bits'[e] : a \in bits[e] \/ (e = home[u] /\ owner[a] = u)
    BY <2>1, <2>2 DEF V!Counted, ArtefactsInv, RecordsTyped
  <2>4. /\ owner' \in [Artefact -> Player \cup {Nobody}]
        /\ \A a \in Artefact : owner'[a] \in {owner[a], u, Nobody}
    BY <2>1 DEF V!Arrived
  <2>5. RecordsTyped'
    BY <2>1, <2>3, <2>4 DEF RecordsTyped, ArtefactsInv
  <2>6. \A a \in Artefact, e \in Empire : a \in bits'[e] => owner[a] \notin Ahead'
    BY <1>1, <2>3 DEF ArtefactsInv, CountedBehind
  <2>7. CountedBehind'
    BY <1>1, <2>4, <2>6 DEF CountedBehind
  <2>8. V!CountedOnce'
    <3>1. \A a \in Artefact, e \in Empire : owner[a] = u => a \notin bits[e]
      BY <1>1 DEF ArtefactsInv, CountedBehind
    <3>2. \A e, f \in Empire : e # f => \A a \in bits'[e] : a \notin bits'[f]
      BY <2>3, <3>1 DEF ArtefactsInv, V!CountedOnce
    <3> QED BY <2>3, <3>2 DEF V!CountedOnce
  <2> QED BY <1>1, <2>5, <2>7, <2>8 DEF ArtefactsInv
<1> QED BY <1>2, <1>3

LEMMA BeginKeeps ==
  ASSUME ArtefactsInv, V!Begin
  PROVE  ArtefactsInv'
<1>1. walk' = Users /\ ticking' /\ bits' = [e \in Empire |-> {}] /\ UNCHANGED <<owner, home>>
  BY DEF V!Begin, V!game
<1>2. WalkSound'
  BY <1>1, VictoryConstants DEF WalkSound
<1>3. RecordsTyped' /\ CountedBehind' /\ V!CountedOnce'
  BY <1>1 DEF ArtefactsInv, RecordsTyped, CountedBehind, V!CountedOnce
<1> QED BY <1>2, <1>3 DEF ArtefactsInv

(* Between ticks nobody is ahead, and planets may change hands. *)
LEMMA StandingKeeps ==
  ASSUME ArtefactsInv, walk = <<>>, walk' = walk, RecordsTyped',
         bits' = bits \/ bits' = [e \in Empire |-> {}]
  PROVE  ArtefactsInv'
<1>1. WalkSound'
  BY DEF ArtefactsInv, WalkSound
<1>2. Ahead' = {}
  BY DEF Ahead
<1>3. CountedBehind'
  BY <1>2 DEF CountedBehind
<1>4. V!CountedOnce'
  BY DEF ArtefactsInv, V!CountedOnce
<1> QED BY <1>1, <1>3, <1>4 DEF ArtefactsInv

LEMMA BetweenKeeps ==
  ASSUME ArtefactsInv,
         \/ \E u \in Player : V!Leave(u)
         \/ \E u \in Player, e \in Empire : V!Join(u, e)
         \/ \E u \in Player, a \in Artefact : V!Seize(u, a)
         \/ \E a \in Artefact : V!Nuke(a)
         \/ V!TimeFlow \/ V!NewRound
  PROVE  ArtefactsInv'
<1>1. walk = <<>> /\ walk' = walk
  BY DEF ArtefactsInv, WalkSound, V!Leave, V!Join, V!Seize, V!Nuke, V!TimeFlow, V!NewRound, V!tick
<1>2. bits' = bits \/ bits' = [e \in Empire |-> {}]
  BY DEF V!Leave, V!Join, V!Seize, V!Nuke, V!TimeFlow, V!NewRound
<1>3. owner' \in [Artefact -> Player \cup {Nobody}]
  BY DEF ArtefactsInv, RecordsTyped, V!Leave, V!Join, V!Seize, V!Nuke, V!TimeFlow, V!NewRound, V!game
<1>4. home' \in [Player -> Empire \cup {Nobody}]
  BY DEF ArtefactsInv, RecordsTyped, V!Leave, V!Join, V!Seize, V!Nuke, V!TimeFlow, V!NewRound, V!game
<1>5. RecordsTyped'
  BY <1>2, <1>3, <1>4 DEF ArtefactsInv, RecordsTyped
<1> QED BY <1>1, <1>2, <1>5, StandingKeeps

LEMMA RankingsKeep ==
  ASSUME ArtefactsInv, V!Idle \/ V!Finish
  PROVE  ArtefactsInv'
<1>1. walk = <<>> /\ walk' = walk /\ UNCHANGED <<owner, home, bits>>
  BY DEF ArtefactsInv, WalkSound, V!Idle, V!Finish, V!game, V!tick
<1>2. RecordsTyped'
  BY <1>1 DEF ArtefactsInv, RecordsTyped
<1> QED BY <1>1, <1>2, StandingKeeps

LEMMA ArtefactsStart == V!Init => ArtefactsInv
BY VictoryConstants DEF V!Init, ArtefactsInv, WalkSound, RecordsTyped, CountedBehind, V!CountedOnce, Ahead

LEMMA ArtefactsStep == ArtefactsInv /\ [V!Next]_(V!vars) => ArtefactsInv'
<1> SUFFICES ASSUME ArtefactsInv, [V!Next]_(V!vars) PROVE ArtefactsInv'
  OBVIOUS
<1>1. CASE V!Loop
  BY <1>1, VisitKeeps, BeginKeeps, RankingsKeep DEF V!Loop
<1>2. CASE V!Next /\ ~V!Loop
  BY <1>2, BetweenKeeps DEF V!Next
<1>3. CASE UNCHANGED V!vars
  BY <1>3 DEF V!vars, ArtefactsInv, WalkSound, RecordsTyped, CountedBehind, V!CountedOnce, Ahead
<1> QED BY <1>1, <1>2, <1>3

(* A planet that is taken in the middle of a tick from a player who was      *)
(* counted, by one who was not, is not counted twice: a victory needs all    *)
(* artefacts in one empire's record, and no two records share one.           *)
THEOREM ArtefactsCountedOnce == V!Spec => []CountedOnce
<1>1. ArtefactsInv => CountedOnce
  BY DEF ArtefactsInv, V!CountedOnce, CountedOnce
<1> QED BY <1>1, ArtefactsStart, ArtefactsStep, PTL DEF V!Spec

----------------------------------------------------------------------------
(* Numbers and walks.                                                      *)

LEMMA Least ==
  ASSUME NEW T \in SUBSET Nat, T # {}
  PROVE  \E x \in T : \A y \in T : x <= y
<1> DEFINE R == OpToRel(<, Nat)
<1>1. IsWellFoundedOn(R, Nat)
  BY NatLessThanWellFounded
<1>2. \A x, y \in Nat : x < y => <<x, y>> \in R
  BY DEF OpToRel
<1> HIDE DEF R
<1>3. PICK x \in T : \A y \in T : ~ (<<y, x>> \in R)
  BY <1>1, WFMin
<1>4. ASSUME NEW y \in T PROVE x <= y
  <2>1. x \in Nat /\ y \in Nat /\ ~(<<y, x>> \in R)
    BY <1>3
  <2>2. ~(y < x)
    BY <1>2, <2>1
  <2> QED BY <2>1, <2>2
<1> QED BY <1>4

(* What holds at 0 and after every step up to n.                           *)
LEMMA CountUp ==
  ASSUME NEW n \in Nat, NEW G, 0 \in G,
         \A k \in 0 .. n - 1 : k \in G => k + 1 \in G
  PROVE  0 .. n \subseteq G
<1> DEFINE Bad == {k \in Nat : k <= n /\ k \notin G}
<1>1. SUFFICES ASSUME Bad # {} PROVE FALSE
  OBVIOUS
<1>2. PICK k \in Bad : \A j \in Bad : k <= j
  <2>1. Bad \in SUBSET Nat
    OBVIOUS
  <2> HIDE DEF Bad
  <2> QED BY <1>1, <2>1, Least
<1>3. k # 0
  BY <1>2
<1>4. k - 1 \in 0 .. n - 1 /\ k - 1 \in Nat /\ k - 1 <= n /\ ~(k <= k - 1) /\ (k - 1) + 1 = k
  BY <1>2, <1>3
<1>5. k - 1 \in G
  BY <1>2, <1>4
<1> QED BY <1>2, <1>4, <1>5

(* A walk of n steps from base, where st gives what a step makes of a value *)
(* of W, exists.                                                            *)
IsWalk(w, n, base, st) ==
  \A k \in 0 .. n : w[k] = IF k = 0 THEN base ELSE st[<<k, w[k - 1]>>]

LEMMA WalkExists ==
  ASSUME NEW n \in Nat, NEW W, NEW base \in W, NEW st,
         \A k \in 1 .. n, v \in W : st[<<k, v>>] \in W
  PROVE  \E w \in [0 .. n -> W] : IsWalk(w, n, base, st)
<1> DEFINE Good(m) == \E w \in [0 .. n -> W] :
                        \A k \in 0 .. m : w[k] = IF k = 0 THEN base ELSE st[<<k, w[k - 1]>>]
           G == {m \in Nat : Good(m)}
<1>1. Good(0)
  <2>1. [k \in 0 .. n |-> base] \in [0 .. n -> W]
    OBVIOUS
  <2>2. \A k \in 0 .. 0 : k = 0 /\ [j \in 0 .. n |-> base][k] = base
    OBVIOUS
  <2> QED BY <2>1, <2>2
<1>2. ASSUME NEW m \in 0 .. n - 1, Good(m) PROVE Good(m + 1)
  <2>1. PICK w \in [0 .. n -> W] :
          \A k \in 0 .. m : w[k] = IF k = 0 THEN base ELSE st[<<k, w[k - 1]>>]
    BY <1>2
  <2> DEFINE x == [w EXCEPT ![m + 1] = st[<<m + 1, w[m]>>]]
  <2>2. m \in 0 .. n /\ m + 1 \in 1 .. n /\ m + 1 \in 0 .. n /\ (m + 1) - 1 = m /\ m # m + 1
    OBVIOUS
  <2>3. st[<<m + 1, w[m]>>] \in W
    BY <2>2
  <2>4. x \in [0 .. n -> W]
    BY <2>2, <2>3
  <2>5. x[m + 1] = st[<<m + 1, w[m]>>] /\ \A k \in 0 .. m : x[k] = w[k]
    BY <2>2
  <2>6. ASSUME NEW k \in 0 .. m + 1
        PROVE  x[k] = IF k = 0 THEN base ELSE st[<<k, x[k - 1]>>]
    <3>1. CASE k = m + 1
      BY <2>2, <2>5, <3>1
    <3>2. CASE k # m + 1
      <4>1. k \in 0 .. m /\ (k # 0 => k - 1 \in 0 .. m)
        BY <3>2
      <4> HIDE DEF x
      <4> QED BY <2>1, <2>5, <4>1
    <3> QED BY <3>1, <3>2
  <2> HIDE DEF x
  <2> QED BY <2>4, <2>6
<1>3. 0 .. n \subseteq G
  <2>1. 0 \in G
    BY <1>1
  <2> HIDE DEF Good
  <2>2. \A k \in 0 .. n - 1 : k \in G => k + 1 \in G
    BY <1>2
  <2> HIDE DEF G
  <2> QED BY <2>1, <2>2, CountUp
<1>4. Good(n)
  BY <1>3
<1> QED BY <1>4 DEF IsWalk

----------------------------------------------------------------------------
(* The order of the rankings lists every ranked empire.                    *)

Listed(s) == {s[i] : i \in DOMAIN s}

Spliced(s, e, i) == SubSeq(s, 1, i - 1) \o <<e>> \o SubSeq(s, i, Len(s))

LEMMA InsertedAt ==
  ASSUME NEW X, NEW s \in Seq(X), NEW e \in X, NEW i \in 1 .. Len(s) + 1,
         NEW t, t = Spliced(s, e, i)
  PROVE  t \in Seq(X) /\ Len(t) = Len(s) + 1
         /\ \A k \in 1 .. Len(s) + 1 : t[k] = IF k < i THEN s[k] ELSE IF k = i THEN e ELSE s[k - 1]
<1> DEFINE a == SubSeq(s, 1, i - 1)  b == SubSeq(s, i, Len(s))
<1>0. Len(s) \in Nat /\ i \in Nat /\ i >= 1 /\ i <= Len(s) + 1
  OBVIOUS
<1>1. a \in Seq(X) /\ Len(a) = i - 1 /\ \A k \in 1 .. i - 1 : a[k] = s[k]
  BY <1>0
<1>2. b \in Seq(X) /\ Len(b) = Len(s) - i + 1 /\ \A k \in 1 .. Len(s) - i + 1 : b[k] = s[i + k - 1]
  BY <1>0
<1>3. <<e>> \in Seq(X) /\ Len(<<e>>) = 1 /\ <<e>>[1] = e
  OBVIOUS
<1> HIDE DEF a, b
<1>4. (a \o <<e>>) \in Seq(X) /\ Len(a \o <<e>>) = i /\ (a \o <<e>>)[i] = e
      /\ \A k \in 1 .. i - 1 : (a \o <<e>>)[k] = a[k]
  BY <1>0, <1>1, <1>3
<1>5. t = (a \o <<e>>) \o b
  BY DEF a, b, Spliced
<1> DEFINE c == a \o <<e>>
<1> HIDE DEF c
<1>6. t = c \o b /\ c \in Seq(X) /\ Len(c) = i /\ c[i] = e /\ \A k \in 1 .. i - 1 : c[k] = s[k]
  BY <1>1, <1>4, <1>5 DEF c
<1>7. /\ c \o b \in Seq(X) /\ Len(c \o b) = Len(c) + Len(b)
      /\ \A k \in 1 .. Len(c) + Len(b) : (c \o b)[k] = IF k <= Len(c) THEN c[k] ELSE b[k - Len(c)]
  BY <1>2, <1>6, ConcatProperties
<1>8. Len(c) + Len(b) = Len(s) + 1
  BY <1>0, <1>2, <1>6
<1>9. t \in Seq(X) /\ Len(t) = Len(s) + 1
  BY <1>6, <1>7, <1>8
<1>10. \A k \in 1 .. Len(s) + 1 : t[k] = IF k <= i THEN c[k] ELSE b[k - i]
  BY <1>6, <1>7, <1>8
<1>11. ASSUME NEW k \in 1 .. Len(s) + 1
      PROVE  t[k] = IF k < i THEN s[k] ELSE IF k = i THEN e ELSE s[k - 1]
  <2>1. CASE k < i
    <3>1. k \in 1 .. i - 1 /\ k <= i
      BY <1>0, <2>1
    <3>2. t[k] = c[k]
      BY <1>10, <3>1
    <3> QED BY <1>6, <2>1, <3>1, <3>2
  <2>2. CASE k = i
    BY <1>0, <1>6, <1>10, <2>2
  <2>3. CASE ~(k <= i)
    <3>1. k - i \in 1 .. Len(s) - i + 1 /\ i + (k - i) - 1 = k - 1 /\ ~(k < i) /\ k # i
      BY <1>0, <2>3
    <3>2. t[k] = b[k - i]
      BY <1>10, <2>3
    <3>3. b[k - i] = s[i + (k - i) - 1]
      BY <1>2, <3>1
    <3> QED BY <3>1, <3>2, <3>3
  <2>4. k < i \/ k = i \/ ~(k <= i)
    BY <1>0
  <2> QED BY <2>1, <2>2, <2>3, <2>4
<1> QED BY <1>9, <1>11

Adds(s, e, t) == t \in Seq(Empire) /\ Listed(t) = Listed(s) \cup {e}

LEMMA InsertedLists ==
  ASSUME NEW s \in Seq(Empire), NEW e \in Empire, NEW size
  PROVE  Adds(s, e, V!Inserted(s, e, size))
<1> DEFINE n == Len(s)
           Before(i) == i > Len(s) \/ V!Bigger(size[e], size[s[i]])
           T == {i \in 1 .. n + 1 : i > Len(s) \/ V!Bigger(size[e], size[s[i]])}
           at == CHOOSE i \in 1 .. Len(s) + 1 :
                   /\ i > Len(s) \/ V!Bigger(size[e], size[s[i]])
                   /\ \A k \in 1 .. i - 1 : ~V!Bigger(size[e], size[s[k]])
           t == V!Inserted(s, e, size)
<1>1. n \in Nat /\ DOMAIN s = 1 .. n
  OBVIOUS
<1>2. PICK i \in T : \A k \in T : i <= k
  <2>1. T \in SUBSET Nat /\ n + 1 \in T
    BY <1>1
  <2> HIDE DEF T
  <2> QED BY <2>1, Least
<1>3. at \in 1 .. n + 1
  <2>1. \A k \in 1 .. i - 1 : k \in 1 .. n + 1 /\ ~(i <= k)
    BY <1>1, <1>2
  <2>2. \A k \in 1 .. i - 1 : ~V!Bigger(size[e], size[s[k]])
    BY <1>2, <2>1
  <2> QED BY <1>2, <2>2
<1>4. t = Spliced(s, e, at)
  BY DEF V!Inserted, Spliced
<1> HIDE DEF at, t, T
<1>5. /\ t \in Seq(Empire) /\ Len(t) = n + 1 /\ DOMAIN t = 1 .. n + 1
      /\ \A k \in 1 .. n + 1 : t[k] = IF k < at THEN s[k] ELSE IF k = at THEN e ELSE s[k - 1]
  <2>1. s \in Seq(Empire) /\ e \in Empire /\ n = Len(s)
    BY <1>1
  <2> HIDE DEF n
  <2>2. /\ t \in Seq(Empire) /\ Len(t) = n + 1
        /\ \A k \in 1 .. n + 1 : t[k] = IF k < at THEN s[k] ELSE IF k = at THEN e ELSE s[k - 1]
    BY <1>3, <1>4, <2>1, InsertedAt, SMTT(40)
  <2> QED BY <2>2
<1> HIDE DEF n
<1>6. Listed(t) \subseteq Listed(s) \cup {e}
  <2> SUFFICES ASSUME NEW k \in 1 .. n + 1 PROVE t[k] = e \/ \E j \in 1 .. n : t[k] = s[j]
    BY <1>1, <1>5 DEF Listed
  <2>1. (k < at => k \in 1 .. n) /\ (~(k < at) /\ k # at => k - 1 \in 1 .. n)
    BY <1>1, <1>3
  <2> QED BY <1>5, <2>1
<1>7. \A j \in 1 .. n : \E k \in 1 .. n + 1 : t[k] = s[j]
  <2> TAKE j \in 1 .. n
  <2>1. CASE j < at
    <3>1. j \in 1 .. n + 1
      BY <1>1
    <3> QED BY <1>5, <2>1, <3>1
  <2>2. CASE ~(j < at)
    <3>1. j + 1 \in 1 .. n + 1 /\ ~(j + 1 < at) /\ j + 1 # at /\ (j + 1) - 1 = j
      BY <1>1, <1>3, <2>2
    <3> QED BY <1>5, <3>1
  <2> QED BY <2>1, <2>2
<1>8. t[at] = e
  BY <1>3, <1>5
<1>9. Listed(s) \cup {e} \subseteq Listed(t)
  <2>1. \A x \in Listed(s) : x \in Listed(t)
    BY <1>1, <1>5, <1>7 DEF Listed
  <2>2. e \in Listed(t)
    BY <1>3, <1>5, <1>8 DEF Listed
  <2> QED BY <2>1, <2>2
<1> QED BY <1>5, <1>6, <1>9 DEF t, Adds

(* Whatever the sizes, the order lists those that are ranked and no others. *)
LEMMA RankingLists ==
  ASSUME NEW ranked \in SUBSET Empire, NEW size
  PROVE  V!Ranking(ranked, size) \in Seq(Empire) /\ Listed(V!Ranking(ranked, size)) = ranked
<1> DEFINE n == Len(Empires)
           step(v, k) == IF Empires[k] \in ranked THEN V!Inserted(v, Empires[k], size) ELSE v
           st == [z \in (1 .. n) \X Seq(Empire) |-> step(z[2], z[1])]
           is(w) == w = [k \in 0 .. n |-> IF k = 0 THEN <<>> ELSE step(w[k - 1], k)]
           it == CHOOSE w : is(w)
<1>1. /\ n \in Nat /\ DOMAIN Empires = 1 .. n /\ \A k \in 1 .. n : Empires[k] \in Empire
      /\ \A e \in Empire : \E k \in 1 .. n : Empires[k] = e
  BY VictoryConstants
<1>2. \A v \in Seq(Empire), k \in 1 .. n : step(v, k) \in Seq(Empire)
  BY <1>1, InsertedLists DEF Adds
<1>3. \A k \in 1 .. n, v \in Seq(Empire) : st[<<k, v>>] = step(v, k) /\ st[<<k, v>>] \in Seq(Empire)
  <2> HIDE DEF step
  <2> QED BY <1>2
<1>4. PICK w \in [0 .. n -> Seq(Empire)] : IsWalk(w, n, <<>>, st)
  <2>1. <<>> \in Seq(Empire)
    OBVIOUS
  <2> HIDE DEF st, n
  <2> QED BY <1>1, <1>3, <2>1, WalkExists
<1>5. \A k \in 0 .. n : w[k] = IF k = 0 THEN <<>> ELSE step(w[k - 1], k)
  <2> TAKE k \in 0 .. n
  <2>1. CASE k = 0
    BY <1>4, <2>1 DEF IsWalk
  <2>2. CASE k # 0
    <3>1. k \in 1 .. n /\ w[k - 1] \in Seq(Empire)
      BY <1>1, <2>2
    <3>2. w[k] = st[<<k, w[k - 1]>>]
      BY <1>4, <2>2 DEF IsWalk
    <3> HIDE DEF step, st
    <3> QED BY <1>3, <2>2, <3>1, <3>2
  <2> QED BY <2>1, <2>2
<1>6. is(w)
  <2> HIDE DEF step
  <2> QED BY <1>5
<1>7. is(it)
  BY <1>6
<1>8. \A k \in 0 .. n : it[k] = IF k = 0 THEN <<>> ELSE step(it[k - 1], k)
  <2> HIDE DEF it, step
  <2> QED BY <1>7
<1>9. V!Ranking(ranked, size) = it[n]
  BY DEF V!Ranking
<1> HIDE DEF it
<1> DEFINE G == {k \in 0 .. n : /\ it[k] \in Seq(Empire)
                               /\ Listed(it[k]) = {Empires[j] : j \in 1 .. k} \cap ranked}
<1>10. 0 \in G
  <2>1. it[0] = <<>> /\ <<>> \in Seq(Empire) /\ Listed(<<>>) = {} /\ 0 \in 0 .. n
    BY <1>1, <1>8 DEF Listed
  <2>2. {Empires[j] : j \in 1 .. 0} = {}
    OBVIOUS
  <2> QED BY <2>1, <2>2
<1>11. ASSUME NEW k \in 0 .. n - 1, k \in G PROVE k + 1 \in G
  <2>1. k + 1 \in 1 .. n /\ k + 1 \in 0 .. n /\ (k + 1) - 1 = k /\ k + 1 # 0
    BY <1>1
  <2>2. it[k] \in Seq(Empire) /\ Listed(it[k]) = {Empires[j] : j \in 1 .. k} \cap ranked
    BY <1>11
  <2>3. it[k + 1] = step(it[k], k + 1)
    BY <1>8, <2>1
  <2>4. {Empires[j] : j \in 1 .. k + 1} = {Empires[j] : j \in 1 .. k} \cup {Empires[k + 1]}
    <3>1. \A j \in 1 .. k + 1 : j \in 1 .. k \/ j = k + 1
      BY <2>1
    <3>2. 1 .. k \subseteq 1 .. k + 1 /\ k + 1 \in 1 .. k + 1
      BY <2>1
    <3> QED BY <3>1, <3>2
  <2>5. CASE Empires[k + 1] \in ranked
    <3>1. it[k + 1] = V!Inserted(it[k], Empires[k + 1], size)
      BY <2>3, <2>5
    <3>2. it[k + 1] \in Seq(Empire) /\ Listed(it[k + 1]) = Listed(it[k]) \cup {Empires[k + 1]}
      <4>1. Adds(it[k], Empires[k + 1], it[k + 1])
        BY <1>1, <2>1, <2>2, <3>1, InsertedLists
      <4> QED BY <4>1 DEF Adds
    <3> QED BY <2>1, <2>2, <2>4, <2>5, <3>2
  <2>6. CASE Empires[k + 1] \notin ranked
    <3>1. it[k + 1] = it[k]
      BY <2>3, <2>6
    <3> QED BY <2>1, <2>2, <2>4, <2>6, <3>1
  <2> QED BY <2>5, <2>6
<1> HIDE DEF G
<1>12. n \in G
  <2>1. 0 .. n \subseteq G
    BY <1>1, <1>10, <1>11, CountUp
  <2> QED BY <1>1, <2>1
<1>13. it[n] \in Seq(Empire) /\ Listed(it[n]) = {Empires[j] : j \in 1 .. n} \cap ranked
  BY <1>12 DEF G
<1>14. {Empires[j] : j \in 1 .. n} \cap ranked = ranked
  BY <1>1
<1> QED BY <1>9, <1>13, <1>14

----------------------------------------------------------------------------
(* The timer.                                                              *)

TimerState == [left : V!NoTimer .. AutoVictory, holder : Empire \cup {Nobody}, won : BOOLEAN]

\* The timer and its empire go together.
Paired(t) == t.left = V!NoTimer <=> t.holder = Nobody

\* The timer t after the ranking has come to the first n empires of r: it runs
\* for an empire that holds all artefacts, or that is still to come; it was
\* started now, or is the one there was, with togo ticks left.
TimedSo(t, r, n, togo) ==
  /\ t \in TimerState /\ Paired(t)
  /\ t.holder # Nobody => \/ bits[t.holder] = Artefact
                          \/ \A j \in 1 .. n : r[j] # t.holder
  /\ t.holder # Nobody => \/ t.left = AutoVictory /\ bits[t.holder] = Artefact
                          \/ t.left = togo /\ t.holder = holder
  /\ t.won => holder # Nobody /\ togo = 0 /\ bits[holder] = Artefact

LEMMA TimerStep ==
  ASSUME NEW r, NEW n \in Nat, NEW togo, NEW t, TimedSo(t, r, n, togo), NEW e \in Empire, r[n + 1] = e
  PROVE  TimedSo(V!Timer(t, e), r, n + 1, togo)
<1> DEFINE u == V!Timer(t, e)
<1> USE DEF V!NoTimer
<1>1. /\ AutoVictory \in Nat /\ AutoVictory # 0 /\ Nobody \notin Empire /\ e # Nobody
      /\ V!NoTimer \in V!NoTimer .. AutoVictory /\ AutoVictory \in V!NoTimer .. AutoVictory
  BY VictoryConstants
<1>2. t \in TimerState /\ Paired(t) /\ \A j \in 1 .. n + 1 : j \in 1 .. n \/ j = n + 1
  BY DEF TimedSo
<1>3. CASE bits[e] = Artefact /\ t.left = V!NoTimer
  <2>1. u = [t EXCEPT !.left = AutoVictory, !.holder = e]
    BY <1>3 DEF V!Timer
  <2>2. u.left = AutoVictory /\ u.holder = e /\ u.won = t.won /\ u \in TimerState
    BY <1>1, <1>2, <2>1 DEF TimerState
  <2>3. Paired(u)
    BY <1>1, <2>2 DEF Paired
  <2> HIDE DEF u
  <2>4. TimedSo(u, r, n + 1, togo)
    BY <1>3, <2>2, <2>3 DEF TimedSo
  <2> QED BY <2>4 DEF u
<1>4. CASE bits[e] = Artefact /\ t.left # V!NoTimer /\ t.holder = e /\ t.left <= 0
  <2>1. u = [t EXCEPT !.won = TRUE]
    BY <1>4 DEF V!Timer
  <2>2. u.left = t.left /\ u.holder = t.holder /\ u.won /\ u \in TimerState
    BY <1>2, <2>1 DEF TimerState
  <2>3. Paired(u)
    BY <1>2, <2>2 DEF Paired
  <2>4. t.left = 0
    BY <1>1, <1>2, <1>4 DEF TimerState
  <2>5. t.left = togo /\ t.holder = holder
    BY <1>1, <1>4, <2>4 DEF TimedSo
  <2> HIDE DEF u
  <2>6. TimedSo(u, r, n + 1, togo)
    BY <1>1, <1>4, <2>2, <2>3, <2>4, <2>5 DEF TimedSo
  <2> QED BY <2>6 DEF u
<1>5. CASE bits[e] = Artefact /\ t.left # V!NoTimer /\ ~(t.holder = e /\ t.left <= 0)
  <2>1. u = t
    BY <1>5 DEF V!Timer
  <2>2. t.holder # Nobody => \/ bits[t.holder] = Artefact
                             \/ \A j \in 1 .. n + 1 : r[j] # t.holder
    BY <1>2, <1>5 DEF TimedSo
  <2> QED BY <2>1, <2>2 DEF TimedSo
<1>6. CASE bits[e] # Artefact /\ t.holder = e
  <2>1. u = [t EXCEPT !.left = V!NoTimer, !.holder = Nobody]
    BY <1>6 DEF V!Timer
  <2>2. u.left = V!NoTimer /\ u.holder = Nobody /\ u.won = t.won /\ u \in TimerState
    BY <1>1, <1>2, <2>1 DEF TimerState
  <2>3. Paired(u)
    BY <2>2 DEF Paired
  <2> HIDE DEF u
  <2>4. TimedSo(u, r, n + 1, togo)
    BY <2>2, <2>3 DEF TimedSo
  <2> QED BY <2>4 DEF u
<1>7. CASE bits[e] # Artefact /\ t.holder # e
  <2>1. u = t
    BY <1>7 DEF V!Timer
  <2>2. t.holder # Nobody => \/ bits[t.holder] = Artefact
                             \/ \A j \in 1 .. n + 1 : r[j] # t.holder
    BY <1>2, <1>7 DEF TimedSo
  <2> QED BY <2>1, <2>2 DEF TimedSo
<1> QED BY <1>3, <1>4, <1>5, <1>6, <1>7

(* The timer after the whole ranking.                                      *)
LEMMA TimerAfter ==
  ASSUME NEW r \in Seq(Empire), NEW togo \in V!NoTimer .. AutoVictory,
         holder \in Empire \cup {Nobody}, togo = V!NoTimer <=> holder = Nobody
  PROVE  TimedSo(V!Timed(r, togo), r, Len(r), togo)
<1> DEFINE n == Len(r)
           base == [left |-> togo, holder |-> holder, won |-> FALSE]
           st == [z \in (1 .. n) \X TimerState |-> V!Timer(z[2], r[z[1]])]
           is(w) == w = [k \in 0 .. n |-> IF k = 0 THEN base ELSE V!Timer(w[k - 1], r[k])]
           it == CHOOSE w : is(w)
<1>1. n \in Nat /\ \A k \in 1 .. n : r[k] \in Empire
  OBVIOUS
<1>2. base \in TimerState /\ AutoVictory \in Nat /\ Nobody \notin Empire
  BY VictoryConstants DEF TimerState
<1>3. \A t \in TimerState, e \in Empire : V!Timer(t, e) \in TimerState
  <2>1. V!NoTimer \in V!NoTimer .. AutoVictory /\ AutoVictory \in V!NoTimer .. AutoVictory
    BY <1>2 DEF V!NoTimer
  <2> DEFINE T == V!NoTimer .. AutoVictory
  <2> HIDE DEF T
  <2>2. \A t \in [left : T, holder : Empire \cup {Nobody}, won : BOOLEAN], e \in Empire :
          V!Timer(t, e) \in [left : T, holder : Empire \cup {Nobody}, won : BOOLEAN]
    <3>1. V!NoTimer \in T /\ AutoVictory \in T
      BY <2>1 DEF T
    <3> QED BY <3>1 DEF V!Timer
  <2> QED BY <2>2 DEF T, TimerState
<1>4. \A k \in 1 .. n, t \in TimerState :
         st[<<k, t>>] = V!Timer(t, r[k]) /\ st[<<k, t>>] \in TimerState
  BY <1>1, <1>3
<1>5. PICK w \in [0 .. n -> TimerState] : IsWalk(w, n, base, st)
  <2> HIDE DEF st, n, base
  <2> QED BY <1>1, <1>2, <1>4, WalkExists
<1> HIDE DEF base
<1>6. \A k \in 0 .. n : w[k] = IF k = 0 THEN base ELSE V!Timer(w[k - 1], r[k])
  <2> TAKE k \in 0 .. n
  <2>1. CASE k = 0
    BY <1>5, <2>1 DEF IsWalk
  <2>2. CASE k # 0
    <3>1. k \in 1 .. n /\ w[k - 1] \in TimerState
      BY <1>1, <2>2
    <3>2. w[k] = st[<<k, w[k - 1]>>]
      BY <1>5, <2>2 DEF IsWalk
    <3> HIDE DEF st
    <3> QED BY <1>4, <2>2, <3>1, <3>2
  <2> QED BY <2>1, <2>2
<1>7. is(it)
  BY <1>6
<1>8. \A k \in 0 .. n : it[k] = IF k = 0 THEN base ELSE V!Timer(it[k - 1], r[k])
  <2> HIDE DEF it
  <2> QED BY <1>7
<1>9. V!Timed(r, togo) = it[n]
  BY DEF V!Timed, base
<1> HIDE DEF it
<1> DEFINE G == {k \in 0 .. n : TimedSo(it[k], r, k, togo)}
<1>10. 0 \in G
  <2>1. it[0] = base
    BY <1>1, <1>8
  <2>2. base.left = togo /\ base.holder = holder /\ ~base.won
    BY DEF base
  <2>3. TimedSo(base, r, 0, togo)
    BY <1>2, <2>2 DEF TimedSo, Paired
  <2> QED BY <1>1, <2>1, <2>3
<1>11. ASSUME NEW k \in 0 .. n - 1, k \in G PROVE k + 1 \in G
  <2>1. k + 1 \in 1 .. n /\ k + 1 \in 0 .. n /\ (k + 1) - 1 = k /\ k + 1 # 0 /\ k \in Nat
    BY <1>1
  <2>2. it[k + 1] = V!Timer(it[k], r[k + 1])
    BY <1>8, <2>1
  <2>3. TimedSo(V!Timer(it[k], r[k + 1]), r, k + 1, togo)
    BY <1>1, <1>11, <2>1, TimerStep
  <2> QED BY <2>1, <2>2, <2>3
<1> HIDE DEF G
<1>12. n \in G
  <2>1. 0 .. n \subseteq G
    BY <1>1, <1>10, <1>11, CountUp
  <2> QED BY <1>1, <2>1
<1> QED BY <1>9, <1>12 DEF G

\* What a ranking leaves, when it begins with togo ticks left and won says
\* whether it stops the game.
Rated(togo, status, won) ==
  /\ won \in BOOLEAN /\ orphaned' \in BOOLEAN
  /\ left' \in V!NoTimer .. AutoVictory /\ holder' \in Empire \cup {Nobody}
  /\ left' = V!NoTimer <=> holder' = Nobody
  /\ holder' # Nobody /\ ~orphaned' => bits[holder'] = Artefact /\ ~orphaned
  /\ holder' # Nobody => \/ left' = AutoVictory /\ bits[holder'] = Artefact
                         \/ left' = togo /\ holder' = holder
  /\ won => holder # Nobody /\ togo = 0 /\ bits[holder] = Artefact
  /\ flows' = (status /\ ~won) /\ locked' = (locked \/ won)

LEMMA RankingRates ==
  ASSUME NEW togo \in V!NoTimer .. AutoVictory, NEW status \in BOOLEAN, orphaned \in BOOLEAN,
         holder \in Empire \cup {Nobody}, togo = V!NoTimer <=> holder = Nobody, V!GenRanks(togo, status)
  PROVE  \E won \in BOOLEAN : Rated(togo, status, won)
<1>1. V!Ranked \in SUBSET Empire
  BY DEF V!Ranked
<1>2. PICK r \in V!Rankings[V!Ranked] :
        LET t == V!Timed(r, togo)
        IN /\ left' = t.left /\ holder' = t.holder
           /\ flows' = (status /\ ~t.won) /\ locked' = (locked \/ t.won)
           /\ orphaned' = (t.left # V!NoTimer /\ (orphaned \/ V!Members(t.holder) = {}))
  BY DEF V!GenRanks
<1> DEFINE t == V!Timed(r, togo)
<1>3. r \in Seq(Empire) /\ Listed(r) = V!Ranked
  <2>1. PICK size \in [Empire -> Size] : r = V!Ranking(V!Ranked, size)
    BY <1>1, <1>2 DEF V!Rankings
  <2> QED BY <1>1, <2>1, RankingLists
<1>4. TimedSo(t, r, Len(r), togo)
  BY <1>3, TimerAfter
<1>5. /\ left' = t.left /\ holder' = t.holder
      /\ flows' = (status /\ ~t.won) /\ locked' = (locked \/ t.won)
      /\ orphaned' = (t.left # V!NoTimer /\ (orphaned \/ V!Members(t.holder) = {}))
  BY <1>2
<1> HIDE DEF t
<1>6. t \in TimerState /\ (t.left = V!NoTimer <=> t.holder = Nobody)
  BY <1>4 DEF TimedSo, Paired
<1>7. ASSUME t.holder # Nobody, ~orphaned' PROVE bits[t.holder] = Artefact /\ ~orphaned
  <2>1. t.left # V!NoTimer /\ ~orphaned /\ V!Members(t.holder) # {}
    BY <1>5, <1>6, <1>7
  <2>2. t.holder \in Listed(r)
    BY <1>3, <1>6, <1>7, <2>1 DEF V!Ranked, TimerState
  <2>3. \E j \in 1 .. Len(r) : r[j] = t.holder
    BY <1>3, <2>2 DEF Listed
  <2> QED BY <1>4, <1>7, <2>1, <2>3 DEF TimedSo
<1>8. t.holder # Nobody => \/ t.left = AutoVictory /\ bits[t.holder] = Artefact
                           \/ t.left = togo /\ t.holder = holder
  BY <1>4 DEF TimedSo
<1>9. t.won => holder # Nobody /\ togo = 0 /\ bits[holder] = Artefact
  BY <1>4 DEF TimedSo
<1>10. t.won \in BOOLEAN /\ t.left \in V!NoTimer .. AutoVictory /\ t.holder \in Empire \cup {Nobody}
  BY <1>6 DEF TimerState
<1>11. orphaned' \in BOOLEAN
  BY <1>5
<1>12. Rated(togo, status, t.won)
  BY <1>5, <1>6, <1>7, <1>8, <1>9, <1>10, <1>11 DEF Rated
<1> QED BY <1>10, <1>12

\* The inductive invariant of the timer: an empire whose timer runs has held
\* all artefacts for the ticks that have run, and whoever holds them between
\* ticks was seen to.  Time neither runs nor is locked only before a round has
\* begun: then there is no timer, and nobody was counted.
TimerInv ==
  /\ V!VictoryTypes /\ V!TimerNamesHolder
  /\ left = V!NoTimer <=> holder = Nobody
  /\ holder # Nobody /\ ~orphaned => kept[holder] + left > AutoVictory
  /\ ~ticking => \A e \in Empire : bits[e] = Artefact => kept[e] > 0
  /\ ticking => flows /\ ~locked
  /\ ~flows /\ ~locked => left = V!NoTimer /\ \A e \in Empire : bits[e] = {}

LEMMA TimerStarts == V!Init => TimerInv
<1> SUFFICES ASSUME V!Init PROVE TimerInv
  OBVIOUS
<1>1. /\ AutoVictory \in Nat /\ Artefact # {} /\ Nobody \notin Empire
      /\ V!NoTimer \in V!NoTimer .. AutoVictory /\ 0 \in 0 .. AutoVictory + 1
  BY VictoryConstants DEF V!NoTimer
<1>2. V!VictoryTypes
  <2>1. /\ owner \in [Artefact -> Player \cup {Nobody}] /\ home \in [Player -> Empire \cup {Nobody}]
        /\ bits \in [Empire -> SUBSET Artefact] /\ kept \in [Empire -> 0 .. AutoVictory + 1]
        /\ \A a \in Artefact : owner[a] = Nobody
    BY <1>1 DEF V!Init
  <2>2. /\ left \in V!NoTimer .. AutoVictory /\ holder \in Empire \cup {Nobody}
        /\ flows \in BOOLEAN /\ locked \in BOOLEAN /\ ticking \in BOOLEAN /\ orphaned \in BOOLEAN
    BY <1>1 DEF V!Init
  <2>3. walk \in Seq(Player)
    BY DEF V!Init
  <2> QED BY <2>1, <2>2, <2>3 DEF V!VictoryTypes
<1> QED BY <1>1, <1>2 DEF V!Init, TimerInv, V!TimerNamesHolder

(* Between ticks, what the players do changes no record of an empire.      *)
LEMMA PlayersLeaveTimer ==
  ASSUME TimerInv,
         \/ \E u \in Player : V!Leave(u)
         \/ \E u \in Player, e \in Empire : V!Join(u, e)
         \/ \E u \in Player, a \in Artefact : V!Seize(u, a)
         \/ \E a \in Artefact : V!Nuke(a)
  PROVE  TimerInv' /\ locked' = locked
<1>1. /\ UNCHANGED <<bits, left, holder, flows, locked, walk, ticking, kept, orphaned>>
  BY DEF V!Leave, V!Join, V!Seize, V!Nuke, V!timer, V!time, V!tick, V!seen
<1>2. /\ owner \in [Artefact -> Player \cup {Nobody}] /\ home \in [Player -> Empire \cup {Nobody}]
      /\ \A a \in Artefact : owner[a] # Nobody => home[owner[a]] # Nobody
      /\ Nobody \notin Player /\ Nobody \notin Empire
  BY VictoryConstants DEF TimerInv, V!VictoryTypes, V!Active
<1>3. /\ owner' \in [Artefact -> Player \cup {Nobody}] /\ home' \in [Player -> Empire \cup {Nobody}]
      /\ \A a \in Artefact : owner'[a] # Nobody => home'[owner'[a]] # Nobody
  <2>1. ASSUME NEW u \in Player, V!Leave(u)
        PROVE  /\ owner' \in [Artefact -> Player \cup {Nobody}] /\ home' \in [Player -> Empire \cup {Nobody}]
               /\ \A a \in Artefact : owner'[a] # Nobody => home'[owner'[a]] # Nobody
    <3>1. /\ home' = [home EXCEPT ![u] = Nobody]
          /\ owner' = [a \in Artefact |-> IF owner[a] = u THEN Nobody ELSE owner[a]]
      BY <2>1 DEF V!Leave
    <3> QED BY <1>2, <3>1
  <2>2. ASSUME NEW u \in Player, NEW e \in Empire, V!Join(u, e)
        PROVE  /\ owner' \in [Artefact -> Player \cup {Nobody}] /\ home' \in [Player -> Empire \cup {Nobody}]
               /\ \A a \in Artefact : owner'[a] # Nobody => home'[owner'[a]] # Nobody
    <3>1. home' = [home EXCEPT ![u] = e] /\ owner' = owner
      BY <2>2 DEF V!Join
    <3> QED BY <1>2, <3>1
  <2>3. ASSUME NEW u \in Player, NEW a \in Artefact, V!Seize(u, a)
        PROVE  /\ owner' \in [Artefact -> Player \cup {Nobody}] /\ home' \in [Player -> Empire \cup {Nobody}]
               /\ \A b \in Artefact : owner'[b] # Nobody => home'[owner'[b]] # Nobody
    <3>1. owner' = [owner EXCEPT ![a] = u] /\ home' = home /\ home[u] # Nobody
      BY <2>3 DEF V!Seize, V!Active
    <3> QED BY <1>2, <3>1
  <2>4. ASSUME NEW a \in Artefact, V!Nuke(a)
        PROVE  /\ owner' \in [Artefact -> Player \cup {Nobody}] /\ home' \in [Player -> Empire \cup {Nobody}]
               /\ \A b \in Artefact : owner'[b] # Nobody => home'[owner'[b]] # Nobody
    <3>1. owner' = [owner EXCEPT ![a] = Nobody] /\ home' = home
      BY <2>4 DEF V!Nuke
    <3> QED BY <1>2, <3>1
  <2> QED BY <2>1, <2>2, <2>3, <2>4
<1>4. V!VictoryTypes'
  BY <1>1, <1>3 DEF TimerInv, V!VictoryTypes, V!Active
<1> QED BY <1>1, <1>4 DEF TimerInv, V!TimerNamesHolder

LEMMA ClockLeavesTimer ==
  ASSUME TimerInv, V!TimeFlow \/ V!NewRound
  PROVE  TimerInv'
<1>1. CASE V!TimeFlow
  <2>1. /\ UNCHANGED <<owner, home, bits, left, holder, walk, ticking, kept, orphaned>>
        /\ locked' = flows /\ flows' = ~flows /\ ~ticking
    BY <1>1 DEF V!TimeFlow, V!game, V!timer, V!tick, V!seen
  <2>2. V!VictoryTypes'
    BY <2>1 DEF TimerInv, V!VictoryTypes, V!Active
  <2> QED BY <2>1, <2>2 DEF TimerInv, V!TimerNamesHolder
<1>2. CASE V!NewRound
  <2>1. /\ owner' = [a \in Artefact |-> Nobody] /\ home' = [u \in Player |-> Nobody]
        /\ bits' = [e \in Empire |-> {}] /\ left' = V!NoTimer /\ holder' = Nobody
        /\ flows' = FALSE /\ locked' = FALSE /\ orphaned' = FALSE
        /\ kept' = [e \in Empire |-> 0] /\ walk' = walk /\ ticking' = ticking /\ ~ticking
    BY <1>2 DEF V!NewRound, V!tick
  <2>2. /\ AutoVictory \in Nat /\ Artefact # {}
        /\ V!NoTimer \in V!NoTimer .. AutoVictory /\ 0 \in 0 .. AutoVictory + 1
    BY VictoryConstants DEF V!NoTimer
  <2>3. /\ owner' \in [Artefact -> Player \cup {Nobody}] /\ home' \in [Player -> Empire \cup {Nobody}]
        /\ bits' \in [Empire -> SUBSET Artefact] /\ kept' \in [Empire -> 0 .. AutoVictory + 1]
        /\ \A a \in Artefact : owner'[a] = Nobody
    BY <2>1, <2>2
  <2>4. V!VictoryTypes'
    BY <2>1, <2>2, <2>3 DEF V!VictoryTypes, TimerInv
  <2> QED BY <2>1, <2>2, <2>4 DEF TimerInv, V!TimerNamesHolder
<1> QED BY <1>1, <1>2

(* A tick counts anew, and leaves the timer to the rankings.               *)
LEMMA TickLeavesTimer ==
  ASSUME TimerInv, ArtefactsInv, V!Begin \/ V!Visit
  PROVE  TimerInv' /\ locked' = locked
<1>1. ArtefactsInv'
  BY BeginKeeps, VisitKeeps
<1>2. UNCHANGED <<home, left, holder, flows, locked, kept, orphaned>> /\ ticking' /\ flows /\ ~locked
  BY DEF V!Begin, V!Visit, V!game, V!timer, V!time, V!seen, TimerInv
<1>3. \A a \in Artefact : owner'[a] # Nobody => home'[owner'[a]] # Nobody
  <2>1. CASE owner' = owner
    BY <1>2, <2>1 DEF TimerInv, V!VictoryTypes, V!Active
  <2>2. CASE owner' # owner
    <3>1. V!Visit /\ V!Active(Head(walk)) /\ owner' \in V!Arrived(Head(walk))
      BY <2>2 DEF V!Begin, V!Visit, V!game
    <3>2. \A a \in Artefact : owner'[a] \in {owner[a], Head(walk), Nobody}
      BY <3>1 DEF V!Arrived
    <3> QED BY <1>2, <3>1, <3>2 DEF TimerInv, V!VictoryTypes, V!Active
  <2> QED BY <2>1, <2>2
<1>4. V!VictoryTypes'
  BY <1>1, <1>2, <1>3 DEF ArtefactsInv, WalkSound, RecordsTyped, TimerInv, V!VictoryTypes, V!Active
<1> QED BY <1>2, <1>4 DEF TimerInv, V!TimerNamesHolder

(* The rankings of a clock that does not run start and drop timers, but do *)
(* not stop the game: before a round nobody holds anything.                *)
LEMMA IdleKeepsTimer ==
  ASSUME TimerInv, V!Idle
  PROVE  TimerInv' /\ (locked' => locked)
<1>1. /\ UNCHANGED <<owner, home, bits, walk, ticking, kept>> /\ ~ticking
      /\ V!GenRanks(left, FALSE) /\ (locked \/ ~flows)
  BY DEF V!Idle, V!game, V!tick
<1>2. /\ left \in V!NoTimer .. AutoVictory /\ holder \in Empire \cup {Nobody} /\ orphaned \in BOOLEAN
      /\ (left = V!NoTimer <=> holder = Nobody) /\ locked \in BOOLEAN /\ flows \in BOOLEAN
      /\ kept \in [Empire -> 0 .. AutoVictory + 1]
  BY DEF TimerInv, V!VictoryTypes
<1>3. PICK won \in BOOLEAN : Rated(left, FALSE, won)
  <2>1. FALSE \in BOOLEAN
    OBVIOUS
  <2> QED BY <1>1, <1>2, <2>1, RankingRates
<1>4. locked' => locked
  <2> SUFFICES ASSUME ~locked, won PROVE FALSE
    BY <1>3 DEF Rated
  <2>1. holder # Nobody /\ left = 0
    BY <1>3 DEF Rated
  <2>2. ~flows /\ left = V!NoTimer
    BY <1>1 DEF TimerInv
  <2> QED BY <2>1, <2>2 DEF V!NoTimer
<1>5. V!VictoryTypes'
  BY <1>1, <1>3 DEF Rated, TimerInv, V!VictoryTypes, V!Active
<1>6. V!TimerNamesHolder'
  BY <1>1, <1>3 DEF Rated, V!TimerNamesHolder
<1>7. holder' # Nobody /\ ~orphaned' => kept'[holder'] + left' > AutoVictory
  <2> SUFFICES ASSUME holder' # Nobody, ~orphaned' PROVE kept[holder'] + left' > AutoVictory
    BY <1>1
  <2>1. bits[holder'] = Artefact /\ ~orphaned /\ holder' \in Empire
    BY <1>3 DEF Rated
  <2>2. CASE left' = AutoVictory
    <3>1. kept[holder'] > 0 /\ kept[holder'] \in Nat /\ AutoVictory \in Nat
      BY <1>1, <1>2, <2>1, VictoryConstants DEF TimerInv
    <3> QED BY <2>2, <3>1
  <2>3. CASE left' = left /\ holder' = holder
    BY <2>1, <2>3 DEF TimerInv
  <2> QED BY <1>3, <2>2, <2>3 DEF Rated
<1>8. ~flows' /\ ~locked' => left' = V!NoTimer /\ \A e \in Empire : bits'[e] = {}
  <2> SUFFICES ASSUME ~locked' PROVE left' = V!NoTimer /\ \A e \in Empire : bits[e] = {}
    BY <1>1
  <2>1. ~locked
    BY <1>3 DEF Rated
  <2>2. ~flows /\ left = V!NoTimer /\ \A e \in Empire : bits[e] = {}
    BY <1>1, <2>1 DEF TimerInv
  <2>3. holder' = Nobody
    <3> SUFFICES ASSUME holder' # Nobody PROVE FALSE
      OBVIOUS
    <3>1. holder' \in Empire /\ holder = Nobody
      BY <1>2, <1>3, <2>2 DEF Rated
    <3>2. bits[holder'] = Artefact
      BY <1>3, <3>1 DEF Rated
    <3> QED BY <2>2, <3>1, <3>2, VictoryConstants
  <2> QED BY <1>3, <2>2, <2>3 DEF Rated
<1>9. \A e \in Empire : bits'[e] = Artefact => kept'[e] > 0
  BY <1>1 DEF TimerInv
<1>10. ~ticking' /\ (left' = V!NoTimer <=> holder' = Nobody)
  BY <1>1, <1>3 DEF Rated
<1> QED BY <1>4, <1>5, <1>6, <1>7, <1>8, <1>9, <1>10 DEF TimerInv

(* The rankings at the end of a tick: one tick less is left, and whoever   *)
(* still holds everything has held it once more.                           *)
LEMMA FinishKeepsTimer ==
  ASSUME TimerInv, V!Finish
  PROVE  /\ TimerInv'
         /\ locked' /\ ~orphaned => holder # Nobody /\ kept'[holder] > AutoVictory
<1> DEFINE togo == IF left > 0 THEN left - 1 ELSE left
<1>1. /\ UNCHANGED <<owner, home, bits, walk>> /\ ticking' = FALSE /\ flows /\ ~locked
      /\ V!GenRanks(togo, flows)
      /\ kept' = [e \in Empire |-> IF bits[e] # Artefact THEN 0
                                   ELSE IF kept[e] > AutoVictory THEN kept[e] ELSE kept[e] + 1]
  BY DEF V!Finish, V!game, TimerInv
<1>2. /\ left \in V!NoTimer .. AutoVictory /\ holder \in Empire \cup {Nobody} /\ orphaned \in BOOLEAN
      /\ (left = V!NoTimer <=> holder = Nobody) /\ flows \in BOOLEAN
      /\ kept \in [Empire -> 0 .. AutoVictory + 1] /\ AutoVictory \in Nat
  BY VictoryConstants DEF TimerInv, V!VictoryTypes
<1>3. /\ togo \in V!NoTimer .. AutoVictory /\ (togo = V!NoTimer <=> holder = Nobody)
      /\ (holder # Nobody => left \in Nat /\ togo \in Nat)
      /\ (left > 0 => togo + 1 = left) /\ (~(left > 0) => togo = left)
  BY <1>2 DEF V!NoTimer
<1> HIDE DEF togo
<1>4. PICK won \in BOOLEAN : Rated(togo, flows, won)
  BY <1>1, <1>2, <1>3, RankingRates
<1>5. \A e \in Empire : /\ kept[e] \in Nat /\ kept[e] <= AutoVictory + 1
                        /\ kept'[e] \in 0 .. AutoVictory + 1
                        /\ bits[e] = Artefact => kept'[e] > 0 /\ kept'[e] >= kept[e]
                        /\ bits[e] = Artefact => kept'[e] > AutoVictory \/ kept'[e] = kept[e] + 1
  <2> TAKE e \in Empire
  <2>1. kept[e] \in Nat /\ kept[e] <= AutoVictory + 1
    BY <1>2
  <2>2. kept'[e] = IF bits[e] # Artefact THEN 0
                   ELSE IF kept[e] > AutoVictory THEN kept[e] ELSE kept[e] + 1
    BY <1>1
  <2> QED BY <1>2, <2>1, <2>2
<1>6. V!VictoryTypes'
  <2>1. kept' \in [Empire -> 0 .. AutoVictory + 1]
    BY <1>1, <1>5
  <2>2. /\ left' \in V!NoTimer .. AutoVictory /\ holder' \in Empire \cup {Nobody}
        /\ orphaned' \in BOOLEAN /\ flows' \in BOOLEAN /\ locked' \in BOOLEAN
    BY <1>1, <1>4 DEF Rated
  <2>3. ticking' \in BOOLEAN
    BY <1>1
  <2>4. /\ owner' \in [Artefact -> Player \cup {Nobody}]
        /\ home' \in [Player -> Empire \cup {Nobody}]
        /\ bits' \in [Empire -> SUBSET Artefact] /\ walk' \in Seq(Player)
    BY <1>1 DEF TimerInv, V!VictoryTypes
  <2>5. (\A a \in Artefact : owner[a] # Nobody => V!Active(owner[a]))'
    BY <1>1 DEF TimerInv, V!VictoryTypes, V!Active
  <2> QED BY <2>1, <2>2, <2>3, <2>4, <2>5 DEF V!VictoryTypes, V!Active
<1>7. V!TimerNamesHolder'
  BY <1>1, <1>4 DEF Rated, V!TimerNamesHolder
<1>8. ASSUME holder \in Empire, bits[holder] = Artefact, ~orphaned
      PROVE  kept'[holder] + togo > AutoVictory
  <2>1. kept[holder] + left > AutoVictory /\ left \in Nat /\ togo \in Nat
    BY <1>3, <1>8, VictoryConstants DEF TimerInv
  <2>2. kept'[holder] \in Nat /\ kept[holder] \in Nat
    BY <1>5, <1>8
  <2>3. kept'[holder] > AutoVictory \/ kept'[holder] = kept[holder] + 1
    BY <1>5, <1>8
  <2> QED BY <1>2, <1>3, <2>1, <2>2, <2>3
<1>9. holder' # Nobody /\ ~orphaned' => kept'[holder'] + left' > AutoVictory
  <2> SUFFICES ASSUME holder' # Nobody, ~orphaned' PROVE kept'[holder'] + left' > AutoVictory
    OBVIOUS
  <2>1. bits[holder'] = Artefact /\ ~orphaned /\ holder' \in Empire
    BY <1>4 DEF Rated
  <2>2. CASE left' = AutoVictory
    <3>1. kept'[holder'] > 0 /\ kept'[holder'] \in Nat
      BY <1>5, <2>1
    <3> QED BY <1>2, <2>2, <3>1
  <2>3. CASE left' = togo /\ holder' = holder
    BY <1>8, <2>1, <2>3
  <2> QED BY <1>4, <2>2, <2>3 DEF Rated
<1>10. flows' \/ locked'
  BY <1>1, <1>4 DEF Rated
<1>11. \A e \in Empire : bits'[e] = Artefact => kept'[e] > 0
  BY <1>1, <1>5
<1>12. TimerInv'
  BY <1>1, <1>4, <1>6, <1>7, <1>9, <1>10, <1>11 DEF Rated, TimerInv
<1>13. ASSUME locked', ~orphaned PROVE holder # Nobody /\ kept'[holder] > AutoVictory
  <2>1. won
    BY <1>1, <1>4, <1>13 DEF Rated
  <2>2. holder # Nobody /\ togo = 0 /\ bits[holder] = Artefact /\ holder \in Empire
    BY <1>2, <1>4, <2>1 DEF Rated
  <2>3. kept'[holder] + togo > AutoVictory
    BY <1>8, <1>13, <2>2
  <2>4. kept'[holder] \in Nat
    BY <1>5, <2>2
  <2> QED BY <1>2, <2>2, <2>3, <2>4
<1> QED BY <1>12, <1>13

LEMMA TimerKeeps ==
  ASSUME ArtefactsInv, TimerInv, [V!Next]_(V!vars)
  PROVE  /\ TimerInv'
         /\ locked' /\ ~locked /\ V!Loop /\ ~orphaned => holder # Nobody /\ kept'[holder] > AutoVictory
<1>1. CASE V!Idle
  BY <1>1, IdleKeepsTimer
<1>2. CASE V!Begin \/ V!Visit
  BY <1>2, TickLeavesTimer
<1>3. CASE V!Finish
  BY <1>3, FinishKeepsTimer
<1>4. CASE V!Next /\ ~V!Loop
  BY <1>4, PlayersLeaveTimer, ClockLeavesTimer DEF V!Next
<1>5. CASE UNCHANGED V!vars
  <2>1. V!VictoryTypes'
    BY <1>5 DEF V!vars, TimerInv, V!VictoryTypes, V!Active
  <2> QED BY <1>5, <2>1 DEF V!vars, TimerInv, V!TimerNamesHolder
<1> QED BY <1>1, <1>2, <1>3, <1>4, <1>5 DEF V!Next, V!Loop

LEMMA TimerAlways == V!Spec => [](ArtefactsInv /\ TimerInv)
<1>1. V!Init => ArtefactsInv /\ TimerInv
  BY ArtefactsStart, TimerStarts
<1>2. ArtefactsInv /\ TimerInv /\ [V!Next]_(V!vars) => (ArtefactsInv /\ TimerInv)'
  BY ArtefactsStep, TimerKeeps
<1> QED BY <1>1, <1>2, PTL DEF V!Spec

(* Between ticks the timer runs for the one empire whose record names every *)
(* artefact, or for one that has lost its members; and planets with        *)
(* artefacts belong to players who are in the game.                        *)
THEOREM TimersSound == V!Spec => []TimerSound
<1>1. TimerInv => TimerSound
  BY DEF TimerInv, TimerSound, VictoryTypes, TimerNamesHolder, Active, NoTimer,
         V!VictoryTypes, V!TimerNamesHolder, V!Active, V!NoTimer
<1> QED BY <1>1, TimerAlways, PTL

(* The game is stopped only for an empire that held every artefact at each *)
(* tick since its timer was started: cmdTickGenRanks takes the timer back  *)
(* from whoever does not, in whatever order it comes to the empires.       *)
THEOREM VictoriesEarned == V!Spec => VictoryEarned
<1> DEFINE Earned == locked' /\ ~locked /\ (ticking \/ ~flows) /\ ~orphaned
                       => holder # Nobody /\ kept'[holder] > AutoVictory
<1>1. ArtefactsInv /\ TimerInv /\ [V!Next]_(V!vars) => [Earned]_time
  <2> SUFFICES ASSUME ArtefactsInv, TimerInv, [V!Next]_(V!vars), locked' /\ ~locked, ticking \/ ~flows
               PROVE  ~orphaned => holder # Nobody /\ kept'[holder] > AutoVictory
    OBVIOUS
  <2>1. CASE V!Loop
    BY <2>1, TimerKeeps
  <2>2. CASE V!Next /\ ~V!Loop
    <3>1. ~ticking /\ (locked' = locked \/ locked' = flows \/ locked' = FALSE)
      BY <2>2 DEF V!Next, V!Join, V!Leave, V!Seize, V!Nuke, V!TimeFlow, V!NewRound, V!time
    <3> QED BY <3>1
  <2>3. CASE UNCHANGED V!vars
    BY <2>3 DEF V!vars
  <2> QED BY <2>1, <2>2, <2>3
<1> HIDE DEF Earned
<1>2. V!Spec => [][Earned]_time
  BY <1>1, TimerAlways, PTL DEF V!Spec
<1> QED BY <1>2 DEF Earned, VictoryEarned
=============================================================================
