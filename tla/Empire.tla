------------------------------- MODULE Empire -------------------------------
(* Membership and government of the empires: the players' table and the votes *)
(* kept beside it, the election of the Prime Minister, the ministries, and    *)
(* the tags on the users' records that repeat who holds what.  An empire's    *)
(* record is read, changed and written back whole by each handler, and the    *)
(* handlers run one at a time on the server's only loop, so that each of them *)
(* is one action.                                                             *)
EXTENDS Integers, FiniteSets

CONSTANTS User,          \* the accounts of the server
          FirstUser,     \* the account whose ID is 0
          NoUser,        \* -1 where an ID is expected
          Home,          \* the empires
          NoEmpire,      \* maind.empire = -1
          Capacity,      \* MAP_EMEMBERS, the seats of an empire
          Ministry,      \* the offices below the leader's; the code has three
          Resubmits      \* may the activation form be sent again by a member?

ASSUME EmpireAssumption ==
    /\ FirstUser \in User /\ NoUser \notin User /\ NoEmpire \notin Home
    /\ Capacity \in Nat \ {0} /\ Resubmits \in BOOLEAN
    /\ Ministry \cap {"leader", "independent", "none"} = {}

VARIABLES empire,        \* the empires' records, by empire
          home,          \* maind.empire, by user
          flags,         \* the political bits of user->flags, by user
          stripped       \* history: whose tag an appointment elsewhere took

vars == <<empire, home, flags, stripped>>

Blank == -1
Office == Ministry \cup {"leader"}
Tag == Office \cup {"independent"}

(* player[] is ARRAY_MAX long; the entry after the last seat is read too.     *)
Slot == 0 .. Capacity
EmpireRecord ==
    [player : [Slot -> User \cup {NoUser}],
     vote : [0 .. Capacity - 1 -> Blank .. Capacity - 1],
     size : 0 .. Capacity,
     politics : [Office -> User \cup {NoUser}]]

(* An empire as the map generator writes it: memset to 0, then -1 over the    *)
(* seats that exist.                                                          *)
NewEmpire == [player |-> [i \in Slot |-> IF i < Capacity THEN NoUser ELSE FirstUser],
              vote |-> [i \in 0 .. Capacity - 1 |-> Blank],
              size |-> 0,
              politics |-> [o \in Office |-> NoUser]]

Seats(E) == 0 .. E.size - 1
Members(E) == {E.player[i] : i \in Seats(E)}
(* The first seat of u, found by the handlers' linear search.                 *)
SeatOf(E, u) == CHOOSE i \in Seats(E) :
                  E.player[i] = u /\ \A j \in 0 .. i - 1 : E.player[j] # u

-----------------------------------------------------------------------------
(* cmdEmpireLeader.                                                           *)
Tally(E, i) == Cardinality({a \in Seats(E) : E.vote[a] = i})

(* The seats of the sitting leader; a leader who votes blank is not looked at.*)
Sitting(E) == {a \in Seats(E) : E.vote[a] # Blank /\ E.player[a] = E.politics["leader"]}

(* Mutant of Winner: ties go to the first seat, the sitting leader or not.    *)
WinnerFromSeatZero(E) ==
    IF \A a \in Seats(E) : Tally(E, a) <= Tally(E, 0) THEN 0
    ELSE CHOOSE a \in Seats(E) : /\ \A x \in Seats(E) : Tally(E, x) <= Tally(E, a)
                                 /\ \A x \in 0 .. a - 1 : Tally(E, x) < Tally(E, a)

(* The sitting leader unless somebody has strictly more votes, and then the   *)
(* first of those with the most; seat 0 stands in when nobody sits.           *)
Winner(E) ==
    LET start == IF Sitting(E) = {} THEN 0
                 ELSE CHOOSE a \in Sitting(E) : \A x \in Sitting(E) : x <= a
    IN  IF \A a \in Seats(E) : Tally(E, a) <= Tally(E, start) THEN start
        ELSE CHOOSE a \in Seats(E) : /\ \A x \in Seats(E) : Tally(E, x) <= Tally(E, a)
                                     /\ \A x \in 0 .. a - 1 : Tally(E, x) < Tally(E, a)

(* No votes, no leader.                                                       *)
Elected(E) == IF Tally(E, Winner(E)) >= 1 THEN E.player[Winner(E)] ELSE NoUser

(* Those who lose every office and tag: all but the leader when the leader    *)
(* changes, when there is none, or when the sitting one was not looked at.    *)
Purged(E) == IF \/ Elected(E) = NoUser
                \/ Sitting(E) = {}
                \/ Elected(E) # E.politics["leader"]
             THEN Members(E) \ {Elected(E)} ELSE {}

Elect(E) ==
    [E EXCEPT !.politics = [o \in Office |->
        IF o = "leader" THEN Elected(E)
        ELSE IF E.politics[o] \in Purged(E) THEN NoUser ELSE E.politics[o]]]

(* Mutant of TagsAfter: only the old leader is untagged.                      *)
TagsAfterForTheLeader(E) ==
    [u \in User |-> IF u \in Purged(E) THEN flags[u] \ {"leader"}
                    ELSE IF u = Elected(E) THEN flags[u] \cup {"leader"} ELSE flags[u]]

(* The users' tags after the election.                                        *)
TagsAfter(E) ==
    [u \in User |-> IF u \in Purged(E) THEN {}
                    ELSE IF u = Elected(E) THEN flags[u] \cup {"leader"} ELSE flags[u]]

-----------------------------------------------------------------------------
(* cmdExecNewUserEmpire: the player takes the next seat.  The seat's vote is  *)
(* not written.  The registration page asks nothing about an empire the       *)
(* player may already have; Resubmits says whether a member sends it again.   *)
Join(u, e) ==
    /\ Resubmits \/ home[u] = NoEmpire
    /\ empire[e].size < Capacity
    /\ empire' = [empire EXCEPT ![e].player[empire[e].size] = u, ![e].size = @ + 1]
    /\ home' = [home EXCEPT ![u] = e]
    /\ UNCHANGED <<flags, stripped>>

(* memmove of the entries after seat a; the last one is left where it was.    *)
Closed(f, a, n) == [i \in DOMAIN f |-> IF i >= a /\ i < n - 1 THEN f[i + 1] ELSE f[i]]


(* Votes for seat a become blank and those for later seats move down, but     *)
(* only for the voters at seat a and after.                                   *)
Renumbered(f, a, n) ==
    [i \in DOMAIN f |->
        CASE i < a \/ i >= n -> f[i]
          [] i \in a .. n - 1 /\ f[i] = a -> Blank
          [] i \in a .. n - 1 /\ f[i] > a -> f[i] - 1
          [] OTHER -> f[i]]

(* Mutant of Without: who goes keeps the offices.                             *)
WithoutTheOffices(E, u) ==
    LET a == SeatOf(E, u)
    IN  [player |-> Closed(E.player, a, E.size),
         vote |-> Renumbered(Closed(E.vote, a, E.size), a, E.size),
         size |-> E.size - 1,
         politics |-> E.politics]

(* The record once u is out of it.                                            *)
Without(E, u) ==
    LET a == SeatOf(E, u)
    IN  [player |-> Closed(E.player, a, E.size),
         vote |-> Renumbered(Closed(E.vote, a, E.size), a, E.size),
         size |-> E.size - 1,
         politics |-> [o \in Office |-> IF E.politics[o] = u THEN NoUser ELSE E.politics[o]]]

(* Mutant of Leave: nobody counts the votes that are left.                    *)
LeaveWithoutElection(u) ==
    /\ home[u] # NoEmpire
    /\ u \in Members(empire[home[u]])
    /\ empire' = [empire EXCEPT ![home[u]] = Without(@, u)]
    /\ flags' = [flags EXCEPT ![u] = {}]
    /\ home' = [home EXCEPT ![u] = NoEmpire]
    /\ stripped' = stripped \ {u}


(* The departure of a member, the same in cmdExecUserDeactivate and in        *)
(* cmdUserDelete: the seat is closed, an election follows, the tags go.       *)
Leave(u) ==
    /\ home[u] # NoEmpire
    /\ LET E == empire[home[u]]
       IN  IF u \in Members(E)
           THEN /\ empire' = [empire EXCEPT ![home[u]] = Elect(Without(E, u))]
                /\ flags' = [TagsAfter(Without(E, u)) EXCEPT ![u] = {}]
           ELSE /\ flags' = [flags EXCEPT ![u] = {}]
                /\ UNCHANGED empire
    /\ home' = [home EXCEPT ![u] = NoEmpire]
    /\ stripped' = stripped \ {u}

(* cmdExecChangeVote, for a member c of the empire or NoUser for a blank      *)
(* vote.  The page refuses a candidate the administration has frozen, which   *)
(* only takes choices of c away.                                              *)
ChangeVote(u, c) ==
    /\ home[u] # NoEmpire
    /\ LET E == empire[home[u]]
           V == [E EXCEPT !.vote[SeatOf(E, u)] = IF c = NoUser THEN Blank ELSE SeatOf(E, c)]
       IN  /\ u \in Members(E) /\ c \in Members(E) \cup {NoUser}
           /\ empire' = [empire EXCEPT ![home[u]] = Elect(V)]
           /\ flags' = TagsAfter(V)
    /\ UNCHANGED <<home, stripped>>


(* The tags FamMemberFlags takes from the member himself, and the users from  *)
(* whom it takes the tag he gets: it reads one entry past the last seat.      *)
GivenUp(u, t) == (flags[u] \ {"leader"}) \ {t}
Neighbours(E, u) == {E.player[i] : i \in 0 .. E.size} \ {u}

(* A neighbour may be a player who left this empire and now holds t in another*)
(* one: there he keeps the office without its tag.                            *)
Elsewhere(e, u, t) == {x \in Neighbours(empire[e], u) \cap User : home[x] # e /\ t \in flags[x]}

(* cmdExecFamMemberFlags: the leader or a moderator gives member u the tag t, *)
(* or "none" of them.                                                         *)
FamMemberFlags(e, u, t) ==
    /\ u \in Members(empire[e]) /\ u # empire[e].politics["leader"]
    /\ empire' = [empire EXCEPT ![e].politics = [o \in Office |->
           IF o = t THEN u ELSE IF o \in GivenUp(u, t) THEN NoUser ELSE @[o]]]
    /\ flags' = [x \in User |->
           CASE x = u -> (flags[u] \ GivenUp(u, t)) \cup ({t} \cap Tag)
             [] x # u /\ x \in Neighbours(empire[e], u) /\ t \in Ministry -> flags[x] \ {t}
             [] OTHER -> flags[x]]
    /\ stripped' = stripped \cup (IF t \in Ministry THEN Elsewhere(e, u, t) ELSE {})
    /\ UNCHANGED home

-----------------------------------------------------------------------------
Init == /\ empire = [e \in Home |-> NewEmpire]
        /\ home = [u \in User |-> NoEmpire]
        /\ flags = [u \in User |-> {}]
        /\ stripped = {}

Next == \E u \in User :
          \/ \E e \in Home : Join(u, e)
          \/ Leave(u)
          \/ \E c \in User \cup {NoUser} : ChangeVote(u, c)
          \/ \E e \in Home, t \in (Tag \ {"leader"}) \cup {"none"} : FamMemberFlags(e, u, t)

Spec == Init /\ [][Next]_vars

-----------------------------------------------------------------------------
(* Every record has the shape of dbMainEmpireDef.                             *)
TypeOK == /\ empire \in [Home -> EmpireRecord]
          /\ home \in [User -> Home \cup {NoEmpire}]
          /\ flags \in [User -> SUBSET Tag]
          /\ stripped \in SUBSET User

(* Whoever holds an office of an empire sits in it: no departure, election or *)
(* appointment leaves an office with somebody who is gone, whose orders on    *)
(* relations, aid and the fund the pages would go on obeying.                 *)
OfficersSeated ==
    \A e \in Home, o \in Office :
       empire[e].politics[o] \in Members(empire[e]) \cup {NoUser}

(* A Prime Minister has at least one vote at every moment, through every      *)
(* renumbering of the seats the votes point at.                               *)
LeaderBacked ==
    \A e \in Home : LET E == empire[e] IN
       E.politics["leader"] # NoUser =>
          \E a, i \in Seats(E) : E.vote[a] = i /\ E.player[i] = E.politics["leader"]

(* The leader's tag on the users' records says the same as the empires'       *)
(* records, which are kept in other files.                                    *)
LeaderTagged ==
    \A u \in User : "leader" \in flags[u] <=> \E e \in Home : empire[e].politics["leader"] = u

(* A minister's tag is never worn by somebody who does not hold the ministry  *)
(* of the empire he belongs to: the next change of status would take the      *)
(* ministry from its real holder.                                             *)
TagsEarned ==
    \A u \in User, o \in Ministry :
       o \in flags[u] => home[u] # NoEmpire /\ empire[home[u]].politics[o] = u

(* A minister wears the tag, unless an appointment in an empire he has left   *)
(* took it from him.                                                          *)
TagsWorn ==
    \A e \in Home, o \in Ministry : LET u == empire[e].politics[o] IN
       u # NoUser => u \in stripped \/ o \in flags[u]

(* The tags on the users' records and the offices in the empires' records     *)
(* agree through appointments, elections, departures and moves.               *)
TagsAgree == LeaderTagged /\ TagsEarned /\ TagsWorn

(* Nobody holds two ministries of an empire, through appointments, changes of *)
(* ministry, elections and departures; but for somebody whose tag was taken,  *)
(* which is all that the next appointment goes by.                            *)
OneMinistry ==
    \A e \in Home, u \in User \ stripped :
       Cardinality({o \in Ministry : empire[e].politics[o] = u}) <= 1

(* The government is sound: every officer is a member and holds one office of *)
(* minister at most.                                                          *)
GovernmentSound == TypeOK /\ OfficersSeated /\ OneMinistry

(* A sitting Prime Minister who stays and whose own vote is not blank is      *)
(* replaced only by a member with strictly more votes.                        *)
TiesKeepTheLeader ==
    [][\A e \in Home : LET old == empire[e].politics["leader"]
                           E == empire'[e]
                           new == E.politics["leader"]
                       IN  (new # old /\ new # NoUser /\ old \in Members(E)) =>
                             \/ E.vote[SeatOf(E, old)] = Blank
                             \/ Tally(E, SeatOf(E, new)) > Tally(E, SeatOf(E, old))]_vars
=============================================================================
