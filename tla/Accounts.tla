------------------------------ MODULE Accounts ------------------------------
(***************************************************************************)
(* Accounts: dbUserAdd, dbUserRemove and what dbInit makes of the files.   *)
(*                                                                         *)
(* An account is a user in memory and two directories: data/user%d with    *)
(* the file of the game (MAIN) and users/user%d with the record (INFO).    *)
(* Neither registering nor deleting is one step on the disk, and the       *)
(* process may die between any two.  When it comes up again it opens the   *)
(* files of every number; dbFileUserOpen makes an empty one wherever the   *)
(* directory exists, and by that the numbers that are taken are found.     *)
(*                                                                         *)
(* What a departure does to planets, bids and the empire is in the modules *)
(* of those.  Names are login names; renaming by an administrator, the     *)
(* other checks of a registration and failing disks are left out.          *)
(***************************************************************************)
EXTENDS AccountFiles

disk    == <<data, info, blocked>>
history == <<promised, cut>>
vars    == <<live, next, data, info, blocked, doing, up, promised, cut>>

Init ==
  /\ live = [i \in Id |-> None] /\ next = 0
  /\ data = [i \in Id |-> "none"] /\ info = [i \in Id |-> None] /\ blocked = {}
  /\ doing = Idle /\ up = TRUE
  /\ promised = [i \in Id |-> None] /\ cut = {}

At(op, n) == up /\ doing.op = op /\ doing.at = n
Onward    == doing' = [doing EXCEPT !.at = @ + 1]
-----------------------------------------------------------------------------
(* Registering: cmdExecNewUser and dbUserAdd.                              *)

RegisterUnchecked(n) ==   \* Mutant of Register
  /\ Free /\ next <= MaxId
  /\ doing' = [op |-> "add", id |-> next, name |-> n, at |-> 1]
  /\ live' = [live EXCEPT ![next] = n]
  /\ UNCHANGED <<next, disk, up, history>>
Register(n) ==
  /\ Free /\ next <= MaxId
  /\ \A i \in Id : live[i] # n
  /\ doing' = [op |-> "add", id |-> next, name |-> n, at |-> 1]
  /\ live' = [live EXCEPT ![next] = n]
  /\ UNCHANGED <<next, disk, up, history>>

\* The two directories.  One that is there already ends it; the first one is
\* left behind when it is the second that is there.
MakeData ==
  /\ At("add", 1)
  /\ IF data[doing.id] = "none"
     THEN data' = [data EXCEPT ![doing.id] = "bare"] /\ Onward /\ UNCHANGED live
     ELSE doing' = Idle /\ live' = [live EXCEPT ![doing.id] = None] /\ UNCHANGED data
  /\ UNCHANGED <<next, info, blocked, up, history>>

MakeUsers ==
  /\ At("add", 2)
  /\ IF info[doing.id] = None
     THEN info' = [info EXCEPT ![doing.id] = "bare"] /\ Onward /\ UNCHANGED live
     ELSE doing' = Idle /\ live' = [live EXCEPT ![doing.id] = None] /\ UNCHANGED info
  /\ UNCHANGED <<next, data, blocked, up, history>>

\* The files of the game, then the record with the others of users/, then the
\* next number, and the MAIN file as the game begins with.
FillData ==
  /\ At("add", 3) /\ Onward
  /\ data' = [data EXCEPT ![doing.id] = "made"]
  /\ UNCHANGED <<live, next, info, blocked, up, history>>

FillUsers ==
  /\ At("add", 4) /\ Onward
  /\ info' = [info EXCEPT ![doing.id] = doing.name]
  /\ UNCHANGED <<live, next, data, blocked, up, history>>

Count ==
  /\ At("add", 5) /\ Onward
  /\ next' = doing.id + 1
  /\ UNCHANGED <<live, disk, up, history>>

SetMain ==
  /\ At("add", 6) /\ doing' = Idle
  /\ data' = [data EXCEPT ![doing.id] = "set"]
  /\ promised' = [promised EXCEPT ![doing.id] = doing.name]
  /\ UNCHANGED <<live, next, info, blocked, up, cut>>

\* dbUserAddToBlockedList; the file stays when the last player is taken off it.
Block(i) ==
  /\ Free /\ live[i] # None /\ data[i] # "none"
  /\ blocked' = blocked \cup {i}
  /\ UNCHANGED <<live, next, data, info, doing, up, history>>
-----------------------------------------------------------------------------
(* Deleting: the end of cmdUserDelete and dbUserRemove.                    *)

Delete(i) ==
  /\ Free /\ live[i] # None
  /\ doing' = [op |-> "remove", id |-> i, name |-> None, at |-> 1]
  /\ live' = [live EXCEPT ![i] = None]
  /\ promised' = [promised EXCEPT ![i] = None]
  /\ UNCHANGED <<next, disk, up, cut>>

UnlinkUsers ==
  /\ At("remove", 1) /\ Onward
  /\ info' = [info EXCEPT ![doing.id] = "bare"]
  /\ UNCHANGED <<live, next, data, blocked, up, history>>

UnlinkData ==
  /\ At("remove", 2) /\ Onward
  /\ data' = [data EXCEPT ![doing.id] = "bare"]
  /\ UNCHANGED <<live, next, info, blocked, up, history>>

DropUsersIfEmptied ==   \* Mutant of DropUsers
  /\ At("remove", 3) /\ Onward
  /\ info' = IF doing.id \in blocked THEN info ELSE [info EXCEPT ![doing.id] = None]
  /\ UNCHANGED <<live, next, data, blocked, up, history>>
DropUsers ==
  /\ At("remove", 3) /\ Onward
  /\ info' = [info EXCEPT ![doing.id] = None]
  /\ UNCHANGED <<live, next, data, blocked, up, history>>

\* rmdir leaves a directory that has a file in it.
DropData ==
  /\ At("remove", 4) /\ doing' = Idle
  /\ data' = IF doing.id \in blocked THEN data ELSE [data EXCEPT ![doing.id] = "none"]
  /\ UNCHANGED <<live, next, info, blocked, up, history>>
-----------------------------------------------------------------------------
(* The process ends, by itself or not, and comes up again.                 *)

Crash ==
  /\ up /\ up' = FALSE
  /\ live' = [i \in Id |-> None] /\ doing' = Idle
  /\ cut' = IF doing = Idle THEN cut ELSE cut \cup {doing.id}
  /\ UNCHANGED <<next, disk, promised>>

\* dbFileUserOpen: what a file is once it has been opened.
Reopened(d) == IF d = "bare" THEN "made" ELSE d
Read(x)     == IF x = "bare" THEN Empty ELSE x

\* The highest number with a MAIN file, or 0.
IsLastSet(a, d) ==   \* Mutant of IsLast
  (a = 0 \/ d[a] = "set") /\ \A i \in Id : i > a => d[i] # "set"
IsLast(a, d) ==
  /\ a = 0 \/ d[a] \in {"made", "set"}
  /\ \A i \in Id : i > a => d[i] \notin {"made", "set"}

After(a) == a + 1

\* The numbers that dbInit reads, by the next one in the file.
ReadShort(i, b) == i < b - 1   \* Mutant of IsRead
IsRead(i, b)    == i < b

\* dbInitUsersReset, and the users that dbInit reads.
Start ==
  /\ ~up /\ up' = TRUE
  /\ data' = [i \in Id |-> Reopened(data[i])]
  /\ \E last \in Id :
       /\ IsLast(last, data')
       /\ next' = After(last)
  /\ info' = [i \in Id |-> IF IsRead(i, next') THEN Read(info[i]) ELSE info[i]]
  /\ live' = [i \in Id |-> IF IsRead(i, next') THEN info'[i] ELSE None]
  /\ UNCHANGED <<blocked, doing, history>>
-----------------------------------------------------------------------------
Next ==
  \/ \E n \in Name : Register(n)
  \/ MakeData \/ MakeUsers \/ FillData \/ FillUsers \/ Count \/ SetMain
  \/ \E i \in Id : Block(i) \/ Delete(i)
  \/ UnlinkUsers \/ UnlinkData \/ DropUsers \/ DropData
  \/ Crash \/ Start

Spec == Init /\ [][Next]_vars
-----------------------------------------------------------------------------
(* Types; the properties are in AccountFiles.                              *)

TypeOK ==
  /\ live \in [Id -> Name \cup {None, Empty}]
  /\ next \in 0 .. MaxId + 1
  /\ data \in [Id -> {"none", "bare", "made", "set"}]
  /\ info \in [Id -> Name \cup {None, Empty, "bare"}]
  /\ blocked \in SUBSET Id /\ up \in BOOLEAN
  /\ doing \in [op: {"idle", "add", "remove"}, id: Id, name: Name \cup {None}, at: 0 .. 6]
  /\ promised \in [Id -> Name \cup {None}] /\ cut \in SUBSET Id
=============================================================================
