---------------------------- MODULE AccountFiles ----------------------------
(***************************************************************************)
(* What is kept of the accounts, in memory and on the disk, and what has   *)
(* to hold of it.  How it comes about is in Accounts.                      *)
(***************************************************************************)
EXTENDS Integers

CONSTANTS
  Name,
  None,    \* no directory; nobody in memory
  Empty,   \* a record of zeros: an empty INFO as it is read
  MaxId    \* bound on the numbers of accounts

ASSUME AccountsConstants ==
  /\ MaxId \in Nat /\ None # Empty
  /\ Name \cap {None, Empty, "bare"} = {} /\ "bare" \notin {None, Empty}

VARIABLES
  live,      \* dbUserList and dbUserTable: the login name, by number
  next,      \* the file "users": the next number (nobody reads its list of free ones)
  data,      \* data/user%d: "none", "bare" (no MAIN), "made" (an empty one), "set"
  info,      \* users/user%d: None, "bare" (no INFO), Empty, or the name in it
  blocked,   \* data/user%d has a file with the players its owner blocked
  doing,     \* the handler that changes accounts, and how far it is
  up,
  promised,  \* history: accounts the page confirmed and nobody asked to delete
  cut        \* history: numbers whose handler was cut off by a crash

Id   == 0 .. MaxId
Idle == [op |-> "idle", id |-> 0, name |-> None, at |-> 0]

\* No handler is at work.
Free == up /\ doing = Idle

-----------------------------------------------------------------------------
(* Properties.                                                             *)

\* Whatever a crash cut off and whatever deletion left behind, the next
\* registration meets no directory: it would fail, and so would all after it.
RegistrationOpen ==
  Free => \A i \in Id : i >= next => data[i] = "none" /\ info[i] = None

\* Two accounts never get the same login name, on the disk either, where a
\* registration that was cut off may have left one.
LoginsUnique ==
  \A i, j \in Id : i # j => info[i] # info[j] \/ info[i] \notin Name

\* An account that was confirmed to its owner keeps its files through every
\* crash and start until its deletion begins, and is there whenever the game is.
AccountsKept ==
  \A i \in Id : promised[i] # None =>
    /\ info[i] = promised[i] /\ data[i] = "set"
    /\ up => live[i] = promised[i]

\* Nobody else is in the game, except what a crash made of a registration or
\* a deletion: who was deleted stays so through every start.
NoStrangers ==
  Free => \A i \in Id : live[i] # None => promised[i] # None \/ i \in cut
=============================================================================
