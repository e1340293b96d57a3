------------------------------- MODULE Daemon -------------------------------
(***************************************************************************)
(* The server's process: the loop of main.c that serves requests and ticks *)
(* the game, the thread cmdEndofRound of cmdexec.c that ends a round while *)
(* that loop still runs, and the restart that follows.                     *)
(*                                                                         *)
(* The two share the flags of sysconfig and the record "ticks" without a   *)
(* lock: the thread takes no mutex.  "ini" is ticks.ini, written after     *)
(* every pass of the clock and read when the daemon comes up; "account" is *)
(* what the users' files say, which are closed at every write and so       *)
(* survive a crash.  Signals, crashes and the operator's restart come from *)
(* outside.  Pages, pictures and forums purged with a round are left out;  *)
(* what the rankings decide about victory is any outcome.                  *)
(***************************************************************************)
EXTENDS Integers, FiniteSets

CONSTANTS
  User,        \* accounts
  Reset,       \* threads that may run cmdEndofRound
  AutoStart,   \* the configuration starts the time at a date
  AutoStop,    \* ... and stops it at another one
  MaxNumber,   \* bound: the clock is not due again beyond this tick
  MaxRound,    \* bound: no administrator ends this round
  MaxCrashes,  \* bound on crashes
  MaxStarts,   \* bound on restarts by the operator
  Out          \* the record of an account that is not activated

ASSUME DaemonConstants ==
  /\ AutoStart \in BOOLEAN /\ AutoStop \in BOOLEAN
  /\ MaxNumber \in Nat /\ MaxRound \in Nat
  /\ MaxCrashes \in Nat /\ MaxStarts \in Nat
  /\ Out \notin [round: Nat, since: Nat, ticks: Nat]
  /\ "main" \notin Reset

VARIABLES
  main,      \* where the main thread is
  reset,     \* where each thread of cmdEndofRound is
  shutdown,  \* sysconfig.shutdown
  regen,     \* sysconfig.regen
  ticks,     \* the process's copy of the clock
  ini,       \* ticks.ini
  due,       \* the time ticks.next has come
  dates,     \* sysconfig.start and .stop have passed
  todo,      \* accounts cmdTick, and each thread's walk, have still to visit
  account,   \* what the users' files say
  map,       \* the round the map was generated for
  crashes, starts

flags   == <<shutdown, regen>>
outside == <<crashes, starts>>
vars    == <<main, reset, shutdown, regen, ticks, ini, due, dates, todo,
             account, map, crashes, starts>>

Main   == {"boot", "loop", "serve", "halt", "run", "keep", "begin", "tick", "ranks",
           "stop", "left", "wait", "load", "exited"}
Thread == {"idle", "freeze", "users", "raise", "await", "round", "map", "save", "failed"}
Ticks  == [status: BOOLEAN, locked: BOOLEAN, number: Nat, round: Nat]
Zero   == [status |-> FALSE, locked |-> FALSE, number |-> 0, round |-> 0]

Activated  == {u \in User : account[u] # Out}
Alive      == main # "exited"
Running(t) == reset[t] # "idle"

Init ==
  /\ main = "boot"
  /\ reset = [t \in Reset |-> "idle"]
  /\ shutdown = FALSE /\ regen = FALSE
  /\ ticks = Zero /\ ini = Zero
  /\ due = FALSE
  /\ dates = [start |-> FALSE, stop |-> FALSE]
  /\ todo = [x \in Reset \cup {"main"} |-> {}]
  /\ account = [u \in User |-> Out]
  /\ map = 0
  /\ crashes = 0 /\ starts = 0

-----------------------------------------------------------------------------
(* Requests: the pages the loop serves change the shared state themselves. *)

Serving == main = "serve" /\ UNCHANGED <<main, due, dates, ini, map, outside>>

\* A player registers an empire, or leaves.
Register(u) ==
  /\ Serving
  /\ u \notin Activated
  /\ account' = [account EXCEPT ![u] =
       [round |-> ticks.round, since |-> ticks.number, ticks |-> 0]]
  /\ UNCHANGED <<reset, flags, ticks, todo>>

Quit(u) ==
  /\ Serving
  /\ u \in Activated
  /\ account' = [account EXCEPT ![u] = Out]
  /\ UNCHANGED <<reset, flags, ticks, todo>>

\* The administrator stops and starts the time.
TimeFlow ==
  /\ Serving
  /\ ticks' = [ticks EXCEPT !.locked = ticks.status, !.status = ~ticks.status]
  /\ UNCHANGED <<reset, flags, todo, account>>

\* The administrator ends the round: a thread is created, and the loop will
\* be left after the requests of this pass.
EndRound(t) ==
  /\ Serving
  /\ ticks.round < MaxRound
  /\ ~Running(t)
  /\ shutdown' = TRUE
  /\ reset' = [reset EXCEPT ![t] = "freeze"]
  /\ UNCHANGED <<regen, ticks, todo, account>>

\* The administrator's button, or SIGTERM at any time once it is caught.
AskShutdown ==
  /\ Alive /\ main # "boot"
  /\ shutdown' = TRUE
  /\ UNCHANGED <<main, reset, regen, ticks, ini, due, dates, todo, account, map, outside>>

-----------------------------------------------------------------------------
(* The loop. *)

MainOnly == UNCHANGED <<reset, dates, account, map, outside>>

Top ==
  /\ main = "loop"
  /\ main' = IF shutdown \/ regen THEN "stop" ELSE "serve"
  /\ MainOnly /\ UNCHANGED <<flags, ticks, ini, due, todo>>

\* What the lock and the dates say of the time ...
Judge ==
  /\ main = "serve"
  /\ main' = IF ticks.locked \/ (AutoStop /\ dates.stop) THEN "halt"
             ELSE IF AutoStart /\ dates.start THEN "run" ELSE "keep"
  /\ MainOnly /\ UNCHANGED <<flags, ticks, ini, due, todo>>

\* ... is written a moment later, and the clock is looked at.
ClockUnlessHalted ==   \* Mutant of Clock
  /\ main \in {"halt", "run", "keep"}
  /\ ticks' = [ticks EXCEPT !.status =
       CASE main = "halt" -> FALSE [] main = "run" -> TRUE [] OTHER -> @]
  /\ main' = IF due /\ main # "halt" THEN "begin" ELSE "loop"
  /\ due' = (due /\ main = "halt")
  /\ MainOnly /\ UNCHANGED <<flags, ini, todo>>
Clock ==
  /\ main \in {"halt", "run", "keep"}
  /\ ticks' = [ticks EXCEPT !.status =
       CASE main = "halt" -> FALSE [] main = "run" -> TRUE [] OTHER -> @]
  /\ main' = IF due THEN "begin" ELSE "loop"
  /\ due' = FALSE
  /\ MainOnly /\ UNCHANGED <<flags, ini, todo>>

Begin ==
  /\ main = "begin"
  /\ main' = IF ticks.status THEN "tick" ELSE "ranks"
  /\ todo' = [todo EXCEPT !["main"] = IF ticks.status THEN Activated ELSE {}]
  /\ MainOnly /\ UNCHANGED <<flags, ticks, ini, due>>

\* cmdTick visits the accounts one after the other.
TickUser(u) ==
  /\ main = "tick"
  /\ u \in todo["main"]
  /\ todo' = [todo EXCEPT !["main"] = @ \ {u}]
  /\ account' = IF u \in Activated THEN [account EXCEPT ![u].ticks = @ + 1] ELSE account
  /\ UNCHANGED <<main, reset, flags, ticks, ini, due, dates, map, outside>>

TickDone ==
  /\ main = "tick"
  /\ todo["main"] = {}
  /\ ticks' = [ticks EXCEPT !.number = @ + 1]
  /\ main' = "ranks"
  /\ MainOnly /\ UNCHANGED <<flags, ini, due, todo>>

\* cmdTickEnd: the rankings may find a winner and lock the time, and the
\* clock is saved.
SavedWhenTicking(t) == ini' = IF t.status THEN t ELSE ini   \* Mutant of Saved
Saved(t) == ini' = t

Ranks ==
  /\ main = "ranks"
  /\ \E won \in BOOLEAN :
       ticks' = IF won THEN [ticks EXCEPT !.status = FALSE, !.locked = TRUE] ELSE ticks
  /\ Saved(ticks')
  /\ main' = "loop"
  /\ MainOnly /\ UNCHANGED <<flags, due, todo>>

-----------------------------------------------------------------------------
(* Leaving the loop, and coming up again. *)

\* Shutdown() closes the servers ...
Stop ==
  /\ main = "stop"
  /\ shutdown' = TRUE
  /\ main' = "left"
  /\ MainOnly /\ UNCHANGED <<regen, ticks, ini, due, todo>>

\* The process ends, and its threads with it.
Gone ==
  /\ main' = "exited"
  /\ reset' = [t \in Reset |-> "idle"]
  /\ shutdown' = FALSE /\ regen' = FALSE
  /\ ticks' = Zero
  /\ todo' = [x \in DOMAIN todo |-> {}]
  /\ due' = FALSE
  /\ UNCHANGED <<ini, dates, account, map>>

\* ... and main() waits for a new round if one is being made.
LeaveForGood ==   \* Mutant of Leave
  /\ main = "left"
  /\ Gone /\ UNCHANGED outside
Leave ==
  /\ main = "left"
  /\ \/ /\ regen
        /\ main' = "wait"
        /\ MainOnly /\ UNCHANGED <<flags, ticks, ini, due, todo>>
     \/ ~regen /\ Gone /\ UNCHANGED outside

WaitForBoth ==   \* Mutant of Wait
  /\ main = "wait"
  /\ ~regen /\ ~shutdown
  /\ main' = "load"
  /\ MainOnly /\ UNCHANGED <<flags, ticks, ini, due, todo>>
Wait ==
  /\ main = "wait"
  /\ ~regen
  /\ shutdown' = FALSE
  /\ main' = "load"
  /\ MainOnly /\ UNCHANGED <<regen, ticks, ini, due, todo>>

\* The clock is read back unless a shutdown was asked for meanwhile; a round
\* that had begun is started again unless its victory timer has run out.
Load ==
  /\ main \in {"boot", "load"}
  /\ LET t == IF shutdown THEN ticks ELSE ini
     IN \E expired \in BOOLEAN :
          ticks' = [t EXCEPT !.status = @ \/ (~expired /\ AutoStart /\ t.number # 0)]
  /\ main' = "loop"
  /\ MainOnly /\ UNCHANGED <<flags, ini, due, todo>>

-----------------------------------------------------------------------------
(* cmdEndofRound, in a thread of its own. *)

ThreadOnly == UNCHANGED <<main, shutdown, due, outside>>
Goes(t, from, to) == reset[t] = from /\ reset' = [reset EXCEPT ![t] = to]

\* The time stops.
Freeze(t) ==
  /\ Goes(t, "freeze", "users")
  /\ ticks' = [ticks EXCEPT !.status = FALSE, !.locked = TRUE]
  /\ todo' = [todo EXCEPT ![t] = User]
  /\ ThreadOnly /\ UNCHANGED <<regen, ini, dates, account, map>>

\* The accounts are walked one after the other, and the market is reset at
\* the end of the walk.
Deactivate(t) ==
  /\ reset[t] = "users"
  /\ \/ \E u \in todo[t] :
          /\ todo' = [todo EXCEPT ![t] = @ \ {u}]
          /\ account' = [account EXCEPT ![u] = Out]
          /\ UNCHANGED reset
     \/ /\ todo[t] = {}
        /\ reset' = [reset EXCEPT ![t] = "raise"]
        /\ UNCHANGED <<todo, account>>
  /\ ThreadOnly /\ UNCHANGED <<regen, ticks, ini, dates, map>>

Raise(t) ==
  /\ Goes(t, "raise", "await")
  /\ regen' = TRUE
  /\ ThreadOnly /\ UNCHANGED <<ticks, ini, dates, todo, account, map>>

\* The thread waits for the loop to be left.
Await(t) ==
  /\ Goes(t, "await", "round")
  /\ shutdown
  /\ ThreadOnly /\ UNCHANGED <<regen, ticks, ini, dates, todo, account, map>>

NextRound(t) ==
  /\ Goes(t, "round", "map")
  /\ ticks' = [ticks EXCEPT !.round = @ + 1, !.number = 0]
  /\ dates' = [dates EXCEPT !.start = FALSE]
  /\ ThreadOnly /\ UNCHANGED <<regen, ini, todo, account, map>>

\* A map that cannot be made ends the thread with "regen" still raised.
SpawnMap(t) ==
  /\ \/ Goes(t, "map", "save") /\ map' = ticks.round
     \/ Goes(t, "map", "failed") /\ UNCHANGED map
  /\ ThreadOnly /\ UNCHANGED <<regen, ticks, ini, dates, todo, account>>

\* The lock is lifted and saved, then the servers are let back.
Lowered(t) == regen' = FALSE

Finish(t) ==
  /\ Goes(t, "save", "idle")
  /\ ticks' = [ticks EXCEPT !.locked = FALSE]
  /\ Saved(ticks')
  /\ Lowered(t)
  /\ ThreadOnly /\ UNCHANGED <<dates, todo, account, map>>

EndofRound(t) ==
  Freeze(t) \/ Deactivate(t) \/ Raise(t) \/ Await(t) \/ NextRound(t) \/ SpawnMap(t) \/ Finish(t)

-----------------------------------------------------------------------------
(* The world outside. *)

TimePasses ==
  /\ Alive
  /\ ticks.number < MaxNumber
  /\ \/ ~due /\ due' = TRUE /\ UNCHANGED dates
     \/ \E d \in (IF AutoStart THEN {"start"} ELSE {}) \cup (IF AutoStop THEN {"stop"} ELSE {}) :
          ~dates[d] /\ dates' = [dates EXCEPT ![d] = TRUE] /\ UNCHANGED due
  /\ UNCHANGED <<main, reset, flags, ticks, ini, todo, account, map, outside>>

\* The process is killed; what is in memory is lost.
Crash ==
  /\ Alive
  /\ crashes < MaxCrashes
  /\ Gone
  /\ crashes' = crashes + 1
  /\ UNCHANGED starts

Start ==
  /\ ~Alive
  /\ starts < MaxStarts
  /\ starts' = starts + 1
  /\ main' = "boot"
  /\ UNCHANGED <<reset, flags, ticks, ini, due, dates, todo, account, map, crashes>>

Handlers == \/ \E u \in User : Register(u) \/ Quit(u)
            \/ TimeFlow
            \/ \E t \in Reset : EndRound(t)

MainStep == \/ Top \/ Judge \/ Clock \/ Begin \/ TickDone \/ Ranks
            \/ \E u \in User : TickUser(u)
            \/ Stop \/ Leave \/ Wait \/ Load

Next == \/ Handlers \/ MainStep
        \/ \E t \in Reset : EndofRound(t)
        \/ AskShutdown \/ TimePasses \/ Crash \/ Start

\* Both threads are scheduled by the system and never block on one another
\* but in the two waits; a pass of the loop serves a finite number of requests.
Fairness == WF_vars(MainStep) /\ \A t \in Reset : WF_vars(EndofRound(t))

Spec == Init /\ [][Next]_vars /\ Fairness

-----------------------------------------------------------------------------
(* Properties. *)

\* The types of everything.
TypeOK ==
  /\ main \in Main /\ reset \in [Reset -> Thread]
  /\ shutdown \in BOOLEAN /\ regen \in BOOLEAN /\ due \in BOOLEAN
  /\ ticks \in Ticks /\ ini \in Ticks
  /\ dates \in [start: BOOLEAN, stop: BOOLEAN]
  /\ todo \in [Reset \cup {"main"} -> SUBSET User]
  /\ \A u \in User : account[u] = Out \/ account[u] \in [round: Nat, since: Nat, ticks: Nat]
  /\ map \in Nat /\ crashes \in Nat /\ starts \in Nat

\* Whoever waits for the new round waits for a thread that is making one.
SomebodyEndsTheWait ==
  regen => \E t \in Reset : reset[t] \in {"await", "round", "map", "save", "failed"}

\* A process that stops in the middle of ending a round never leaves a map of
\* one round under the number of another; only a crash can.
MapOfTheRound ==
  crashes = 0 /\ ~(\E t \in Reset : Running(t)) /\ main = "loop" => map = ticks.round

\* The threads and the status record are left in order by every round's end.
RoundsEndWell == TypeOK /\ SomebodyEndsTheWait /\ MapOfTheRound

\* Between passes a player has received one tick for every tick counted since
\* he registered, and after a crash in the middle of one, at most that one twice.
TickedAsCounted ==
  main = "loop" =>
    \A u \in Activated : account[u].round = ticks.round =>
      account[u].ticks - (ticks.number - account[u].since) \in 0 .. crashes

\* Whoever waits for a new round sees the servers come back, unless the map
\* cannot be made or the process is killed.
ComesBack ==
  main = "wait" ~> \/ main \in {"loop", "exited"}
                   \/ \E t \in Reset : reset[t] = "failed"

\* Once the time of the next tick has come the rankings after it are reached, or
\* the loop is left: the lock, the dates and the thread never stall the clock.
DueTickHappens == due ~> main \in {"ranks", "stop", "left", "wait", "exited"}

=============================================================================
