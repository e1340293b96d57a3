---------------------------- MODULE EmpireProofs ----------------------------
(***************************************************************************)
(* For any players, empires, seats and ministries: officers sit in their   *)
(* empires and leaders have votes.  Where nobody sends the activation form *)
(* twice (Resubmits), also what the tags on the users' records say agrees  *)
(* with the offices, nobody holds two ministries, and a sitting leader is  *)
(* replaced only by somebody with more votes.                              *)
(***************************************************************************)
EXTENDS Empire, FiniteSetTheorems, WellFoundedInduction, TLAPS

-----------------------------------------------------------------------------
(* Numbers. *)

LEMMA Least ==
  ASSUME NEW T \in SUBSET Nat, T # {}
  PROVE  \E x \in T : \A y \in T : x <= y
<1> DEFINE R == OpToRel(<, Nat)
<1>1. IsWellFoundedOn(R, Nat)
  BY NatLessThanWellFounded
<1>2. \A x, y \in Nat : x < y => <<x, y>> \in R
  BY DEF OpToRel
<1> HIDE DEF R
<1>3. PICK x \in T : \A y \in T : ~ (<<y, x>> \in R)
  BY <1>1, WFMin
<1>4. ASSUME NEW y \in T PROVE x <= y
  <2>1. x \in Nat /\ y \in Nat /\ ~(<<y, x>> \in R)
    BY <1>3
  <2>2. ~(y < x)
    BY <1>2, <2>1
  <2> QED BY <2>1, <2>2
<1> QED BY <1>4

LEMMA Greatest ==
  ASSUME NEW K \in Nat, NEW T \in SUBSET (0 .. K), T # {}
  PROVE  \E x \in T : \A y \in T : y <= x
<1> DEFINE D == {K - x : x \in T}
<1>1. \A x \in T : x \in Nat /\ K - x \in Nat
  OBVIOUS
<1>2. D \in SUBSET Nat
  BY <1>1
<1>3. D # {}
  OBVIOUS
<1>4. PICK d \in D : \A y \in D : d <= y
  <2> HIDE DEF D
  <2> QED BY <1>2, <1>3, Least
<1>5. PICK x \in T : d = K - x
  OBVIOUS
<1>6. ASSUME NEW y \in T PROVE y <= x
  <2>1. K - y \in D
    OBVIOUS
  <2>2. K - x <= K - y
    BY <1>4, <1>5, <2>1
  <2> QED BY <1>1, <2>2
<1> QED BY <1>6

-----------------------------------------------------------------------------
(* Records. *)

Users == User \cup {NoUser}

LEMMA RecordFields ==
  ASSUME NEW E \in EmpireRecord
  PROVE  /\ E.player \in [Slot -> Users] /\ E.vote \in [0 .. Capacity - 1 -> Blank .. Capacity - 1]
         /\ E.size \in Nat /\ E.size <= Capacity /\ E.politics \in [Office -> Users]
         /\ Seats(E) \subseteq 0 .. Capacity - 1 /\ Capacity \in Nat
         /\ \A i \in Seats(E) : i \in Nat /\ i < E.size /\ i \in Slot
<1>1. Capacity \in Nat /\ Capacity # 0
  BY EmpireAssumption
<1>2. /\ E.player \in [Slot -> Users] /\ E.vote \in [0 .. Capacity - 1 -> Blank .. Capacity - 1]
      /\ E.size \in 0 .. Capacity /\ E.politics \in [Office -> Users]
  BY DEF EmpireRecord, Users
<1> QED BY <1>1, <1>2 DEF Seats, Slot

(* The first seat of a member is one of his seats.                         *)
LEMMA SeatFound ==
  ASSUME NEW E \in EmpireRecord, NEW u \in Members(E)
  PROVE  /\ SeatOf(E, u) \in Seats(E) /\ E.player[SeatOf(E, u)] = u
         /\ \A j \in 0 .. SeatOf(E, u) - 1 : E.player[j] # u
<1> DEFINE T == {i \in Seats(E) : E.player[i] = u}
<1>1. T \in SUBSET Nat /\ T # {}
  BY RecordFields DEF Members
<1>2. PICK i \in T : \A j \in T : i <= j
  <2> HIDE DEF T
  <2> QED BY <1>1, Least
<1>3. i \in Seats(E) /\ E.player[i] = u /\ i \in Nat /\ i < E.size /\ E.size \in Nat
  BY RecordFields
<1>4. ASSUME NEW j \in 0 .. i - 1 PROVE E.player[j] # u
  <2>1. j \in Seats(E) /\ ~(i <= j)
    BY <1>3 DEF Seats
  <2> QED BY <1>2, <2>1
<1>5. \E k \in Seats(E) : E.player[k] = u /\ \A j \in 0 .. k - 1 : E.player[j] # u
  BY <1>3, <1>4
<1> QED BY <1>5 DEF SeatOf

LEMMA TallyType ==
  ASSUME NEW E \in EmpireRecord, NEW i
  PROVE  /\ Tally(E, i) \in Nat /\ Tally(E, i) <= E.size
         /\ Tally(E, i) >= 1 => \E a \in Seats(E) : E.vote[a] = i
<1> DEFINE T == {a \in Seats(E) : E.vote[a] = i}
<1>1. E.size \in Nat
  BY RecordFields
<1>2. IsFiniteSet(Seats(E)) /\ Cardinality(Seats(E)) = E.size
  <2>1. 0 \in Int /\ E.size - 1 \in Int
    BY <1>1
  <2>2. IsFiniteSet(0 .. E.size - 1)
        /\ Cardinality(0 .. E.size - 1) = IF 0 > E.size - 1 THEN 0 ELSE E.size - 1 - 0 + 1
    BY <2>1, FS_Interval
  <2> QED BY <1>1, <2>2 DEF Seats
<1>3. T \in SUBSET Seats(E)
  OBVIOUS
<1> HIDE DEF T
<1>4. Cardinality(T) \in Nat /\ Cardinality(T) <= E.size
  BY <1>2, <1>3, FS_Subset, FS_CardinalityType
<1>5. Cardinality(T) >= 1 => T # {}
  BY FS_EmptySet, <1>4
<1> QED BY <1>4, <1>5 DEF T, Tally

(* Somebody has the most votes, and a first seat among those who do.       *)
LEMMA FirstOfTheMost ==
  ASSUME NEW E \in EmpireRecord, Seats(E) # {}
  PROVE  \E a \in Seats(E) : /\ \A x \in Seats(E) : Tally(E, x) <= Tally(E, a)
                             /\ \A x \in 0 .. a - 1 : Tally(E, x) < Tally(E, a)
<1> DEFINE counts == {Tally(E, a) : a \in Seats(E)}
<1>1. E.size \in Nat /\ \A a \in Seats(E) : Tally(E, a) \in 0 .. E.size
  BY RecordFields, TallyType
<1>2. counts \in SUBSET (0 .. E.size) /\ counts # {}
  BY <1>1
<1>3. PICK m \in counts : \A n \in counts : n <= m
  <2> HIDE DEF counts
  <2> QED BY <1>1, <1>2, Greatest
<1> DEFINE most == {a \in Seats(E) : Tally(E, a) = m}
<1>4. most \in SUBSET Nat /\ most # {}
  BY RecordFields
<1>5. PICK a \in most : \A x \in most : a <= x
  <2> HIDE DEF most
  <2> QED BY <1>4, Least
<1>6. a \in Seats(E) /\ Tally(E, a) = m /\ a \in Nat /\ a < E.size
  BY RecordFields
<1>7. ASSUME NEW x \in 0 .. a - 1 PROVE Tally(E, x) < m
  <2>1. x \in Seats(E) /\ ~(a <= x)
    BY <1>1, <1>6 DEF Seats
  <2>2. Tally(E, x) \in Nat /\ Tally(E, x) <= m /\ Tally(E, x) # m /\ m \in Nat
    BY <1>1, <1>3, <1>5, <1>6, <2>1
  <2> QED BY <2>2
<1> QED BY <1>3, <1>6, <1>7

(* The winner sits where anybody does, and nobody has more votes; who sat  *)
(* before keeps the seat unless somebody has more.                         *)
LEMMA WinnerSits ==
  ASSUME NEW E \in EmpireRecord, Seats(E) # {}
  PROVE  /\ Winner(E) \in Seats(E)
         /\ \A s \in Nat : Sitting(E) = {s} =>
              Winner(E) = s \/ Tally(E, Winner(E)) > Tally(E, s)
<1> DEFINE last == CHOOSE a \in Sitting(E) : \A x \in Sitting(E) : x <= a
           start == IF Sitting(E) = {} THEN 0 ELSE last
           first == CHOOSE a \in Seats(E) : /\ \A x \in Seats(E) : Tally(E, x) <= Tally(E, a)
                                            /\ \A x \in 0 .. a - 1 : Tally(E, x) < Tally(E, a)
<1>1. E.size \in Nat /\ Capacity \in Nat /\ Seats(E) \subseteq 0 .. Capacity - 1
  BY RecordFields
<1>2. 0 \in Seats(E)
  BY <1>1 DEF Seats
<1>3. Sitting(E) # {} => last \in Sitting(E)
  <2>1. Sitting(E) \in SUBSET (0 .. Capacity)
    BY <1>1 DEF Sitting
  <2>2. Sitting(E) # {} => \E a \in Sitting(E) : \A x \in Sitting(E) : x <= a
    BY <1>1, <2>1, Greatest
  <2> QED BY <2>2
<1>4. start \in Seats(E)
  BY <1>2, <1>3 DEF Sitting
<1>5. /\ first \in Seats(E) /\ \A x \in Seats(E) : Tally(E, x) <= Tally(E, first)
  BY FirstOfTheMost
<1>6. Winner(E) = IF \A a \in Seats(E) : Tally(E, a) <= Tally(E, start) THEN start ELSE first
  BY DEF Winner
<1>7. \A s \in Nat : Sitting(E) = {s} => start = s
  BY <1>3
<1> HIDE DEF start, first
<1>8. ASSUME ~(\A a \in Seats(E) : Tally(E, a) <= Tally(E, start))
      PROVE  Tally(E, first) > Tally(E, start)
  <2>1. PICK a \in Seats(E) : ~(Tally(E, a) <= Tally(E, start))
    BY <1>8
  <2>2. Tally(E, a) \in Nat /\ Tally(E, start) \in Nat /\ Tally(E, first) \in Nat
    BY TallyType
  <2>3. Tally(E, a) <= Tally(E, first)
    BY <1>5
  <2> QED BY <2>1, <2>2, <2>3
<1> QED BY <1>4, <1>5, <1>6, <1>7, <1>8

-----------------------------------------------------------------------------
(* Elections and departures. *)

LEMMA ElectedSits ==
  ASSUME NEW E \in EmpireRecord, Elected(E) # NoUser
  PROVE  /\ Winner(E) \in Seats(E) /\ Elected(E) = E.player[Winner(E)]
         /\ Elected(E) \in Members(E) /\ Elected(E) \in User
         /\ \E a \in Seats(E) : E.vote[a] = Winner(E)
<1>1. Tally(E, Winner(E)) >= 1 /\ Elected(E) = E.player[Winner(E)]
  BY DEF Elected
<1>2. \E a \in Seats(E) : E.vote[a] = Winner(E)
  BY <1>1, TallyType
<1>3. Winner(E) \in Seats(E)
  BY <1>2, WinnerSits
<1>4. E.player[Winner(E)] \in Users
  BY <1>3, RecordFields
<1> QED BY <1>1, <1>2, <1>3, <1>4 DEF Members, Users

LEMMA ElectFields ==
  ASSUME NEW E \in EmpireRecord
  PROVE  /\ Elect(E) \in EmpireRecord
         /\ Elect(E).player = E.player /\ Elect(E).vote = E.vote /\ Elect(E).size = E.size
         /\ Seats(Elect(E)) = Seats(E) /\ Members(Elect(E)) = Members(E)
         /\ Elect(E).politics["leader"] = Elected(E)
         /\ \A o \in Ministry : Elect(E).politics[o] =
              IF E.politics[o] \in Purged(E) THEN NoUser ELSE E.politics[o]
<1> DEFINE p == [o \in Office |-> IF o = "leader" THEN Elected(E)
                                  ELSE IF E.politics[o] \in Purged(E) THEN NoUser ELSE E.politics[o]]
<1>1. Elect(E) = [E EXCEPT !.politics = p]
  BY DEF Elect
<1>2. Elected(E) \in Users
  BY ElectedSits DEF Users
<1>3. p \in [Office -> Users]
  BY <1>2, RecordFields DEF Users
<1>4. p["leader"] = Elected(E)
  BY DEF Office
<1>5. \A o \in Ministry : p[o] = IF E.politics[o] \in Purged(E) THEN NoUser ELSE E.politics[o]
  BY EmpireAssumption DEF Office
<1> HIDE DEF p
<1>6. /\ Elect(E) \in EmpireRecord /\ Elect(E).politics = p
      /\ Elect(E).player = E.player /\ Elect(E).vote = E.vote /\ Elect(E).size = E.size
  BY <1>1, <1>3 DEF EmpireRecord, Users
<1> QED BY <1>4, <1>5, <1>6 DEF Seats, Members

LEMMA WithoutFields ==
  ASSUME NEW E \in EmpireRecord, NEW u \in Members(E)
  PROVE  /\ Without(E, u) \in EmpireRecord
         /\ Without(E, u).size = E.size - 1
         /\ Members(E) \ {u} \subseteq Members(Without(E, u))
         /\ Members(Without(E, u)) \subseteq Members(E)
         /\ \A i \in Seats(Without(E, u)) :
              Without(E, u).player[i] = IF i < SeatOf(E, u) THEN E.player[i] ELSE E.player[i + 1]
         /\ \A o \in Office : Without(E, u).politics[o] =
              IF E.politics[o] = u THEN NoUser ELSE E.politics[o]
<1> DEFINE a == SeatOf(E, u)
           W == Without(E, u)
<1>1. a \in Seats(E) /\ E.player[a] = u
  BY SeatFound
<1>2. /\ E.player \in [Slot -> Users] /\ E.vote \in [0 .. Capacity - 1 -> Blank .. Capacity - 1]
      /\ E.size \in Nat /\ E.size <= Capacity /\ E.politics \in [Office -> Users] /\ Capacity \in Nat
  BY RecordFields
<1>3. a \in Nat /\ a < E.size
  BY <1>1, RecordFields
<1>4. /\ W.player = Closed(E.player, a, E.size)
      /\ W.vote = Renumbered(Closed(E.vote, a, E.size), a, E.size)
      /\ W.size = E.size - 1
      /\ W.politics = [o \in Office |-> IF E.politics[o] = u THEN NoUser ELSE E.politics[o]]
      /\ W = [player |-> W.player, vote |-> W.vote, size |-> W.size, politics |-> W.politics]
  BY DEF Without
<1> HIDE DEF a, W
<1>5. W.player \in [Slot -> Users]
  BY <1>2, <1>3, <1>4 DEF Closed, Slot
<1>6. W.vote \in [0 .. Capacity - 1 -> Blank .. Capacity - 1]
  <2>1. Closed(E.vote, a, E.size) \in [0 .. Capacity - 1 -> Blank .. Capacity - 1]
    <3>1. \A i \in 0 .. Capacity - 1 : i >= a /\ i < E.size - 1 => i + 1 \in 0 .. Capacity - 1
      BY <1>2, <1>3
    <3>2. \A i \in 0 .. Capacity - 1 : E.vote[i] \in Blank .. Capacity - 1
      BY <1>2
    <3> QED BY <1>2, <3>1, <3>2 DEF Closed
  <2>2. ASSUME NEW f \in [0 .. Capacity - 1 -> Blank .. Capacity - 1]
        PROVE  Renumbered(f, a, E.size) \in [0 .. Capacity - 1 -> Blank .. Capacity - 1]
    <3>1. \A i \in 0 .. Capacity - 1 : f[i] \in Blank .. Capacity - 1 /\ i \in Nat
      OBVIOUS
    <3>2. \A i \in 0 .. Capacity - 1 :
            (CASE i < a \/ i >= E.size -> f[i]
               [] i \in a .. E.size - 1 /\ f[i] = a -> Blank
               [] i \in a .. E.size - 1 /\ f[i] > a -> f[i] - 1
               [] OTHER -> f[i]) \in Blank .. Capacity - 1
      BY <1>2, <1>3, <3>1 DEF Blank
    <3> QED BY <3>2 DEF Renumbered
  <2> QED BY <1>4, <2>1, <2>2
<1>7. W.politics \in [Office -> Users]
  BY <1>2, <1>4 DEF Users
<1>8. W.size \in 0 .. Capacity
  BY <1>2, <1>3, <1>4
<1>9. W \in EmpireRecord
  BY <1>4, <1>5, <1>6, <1>7, <1>8 DEF EmpireRecord, Users
<1>10. \A i \in Seats(W) : /\ i \in Nat /\ i < E.size - 1
                           /\ W.player[i] = IF i < a THEN E.player[i] ELSE E.player[i + 1]
  BY <1>2, <1>3, <1>4 DEF Closed, Slot, Seats
<1>11. Members(W) \subseteq Members(E)
  <2>1. \A i \in Nat : i < E.size - 1 => i \in Seats(E) /\ i + 1 \in Seats(E)
    BY <1>2, RecordFields DEF Seats
  <2>2. \A i \in Seats(W) : \E j \in Seats(E) : W.player[i] = E.player[j]
    BY <1>10, <2>1
  <2> QED BY <2>2 DEF Members
<1>12. ASSUME NEW x \in Members(E) \ {u} PROVE x \in Members(W)
  <2>1. PICK i \in Seats(E) : E.player[i] = x /\ i # a /\ i \in Nat /\ i < E.size
    BY <1>1, RecordFields DEF Members
  <2>2. CASE i < a
    <3>1. i \in Seats(W) /\ W.player[i] = x
      BY <1>2, <1>3, <1>4, <1>10, <2>1, <2>2 DEF Seats
    <3> QED BY <3>1 DEF Members
  <2>3. CASE i > a
    <3>1. i - 1 \in Seats(W) /\ ~(i - 1 < a) /\ (i - 1) + 1 = i
      BY <1>2, <1>3, <1>4, <2>1, <2>3 DEF Seats
    <3>2. W.player[i - 1] = x
      BY <1>10, <2>1, <3>1
    <3> QED BY <3>1, <3>2 DEF Members
  <2> QED BY <1>3, <2>1, <2>2, <2>3
<1> QED BY <1>4, <1>9, <1>10, <1>11, <1>12 DEF W, a

-----------------------------------------------------------------------------
(* What a step does to the records. *)

Others(e) == \A d \in Home \ {e} : empire'[d] = empire[d]

(* A new seat, and nothing else.                                           *)
LEMMA JoinDoes ==
  ASSUME TypeOK, NEW u \in User, NEW e \in Home, Join(u, e)
  PROVE  /\ empire' \in [Home -> EmpireRecord] /\ Others(e)
         /\ empire'[e].size = empire[e].size + 1 /\ empire'[e].vote = empire[e].vote
         /\ empire'[e].politics = empire[e].politics
         /\ \A i \in Slot : empire'[e].player[i] = IF i = empire[e].size THEN u ELSE empire[e].player[i]
         /\ Members(empire'[e]) = Members(empire[e]) \cup {u}
<1> DEFINE E == empire[e]
           F == empire'[e]
<1>1. E \in EmpireRecord
  BY DEF TypeOK
<1>2. /\ E.player \in [Slot -> Users] /\ E.size \in Nat /\ E.size < Capacity /\ Capacity \in Nat
  BY <1>1, RecordFields DEF Join
<1>3. E.size \in Slot
  BY <1>2 DEF Slot
<1>4. empire' = [empire EXCEPT ![e] = [E EXCEPT !.player = [E.player EXCEPT ![E.size] = u],
                                                !.size = E.size + 1]]
  BY DEF Join
<1> DEFINE p == [E.player EXCEPT ![E.size] = u]
           n == E.size + 1
<1>5. p \in [Slot -> User \cup {NoUser}] /\ n \in 0 .. Capacity
  BY <1>2, <1>3 DEF Users
<1>6. \A i \in Slot : p[i] = IF i = E.size THEN u ELSE E.player[i]
  BY <1>2
<1>7. Others(e)
  BY <1>4 DEF Others, TypeOK
<1>8. F = [E EXCEPT !.player = p, !.size = n]
  BY <1>4 DEF TypeOK
<1> HIDE DEF p, n
<1>9. F \in EmpireRecord /\ F.player = p /\ F.size = n /\ F.vote = E.vote /\ F.politics = E.politics
  <2> HIDE DEF E, F
  <2> QED BY <1>1, <1>5, <1>8 DEF EmpireRecord
<1>10. empire' \in [Home -> EmpireRecord]
  BY <1>4, <1>7, <1>9 DEF TypeOK, Others
<1>11. Members(F) = Members(E) \cup {u}
  <2> HIDE DEF E, F
  <2>1. Seats(F) = Seats(E) \cup {E.size} /\ E.size \notin Seats(E) /\ Seats(E) \subseteq Slot
    <3>1. F.size = E.size + 1
      BY <1>9 DEF n
    <3>2. Seats(F) = Seats(E) \cup {E.size} /\ E.size \notin Seats(E)
      BY <1>2, <3>1 DEF Seats
    <3> QED BY <1>1, <3>2, RecordFields
  <2> QED BY <1>3, <1>6, <1>9, <2>1 DEF Members
<1> QED BY <1>6, <1>7, <1>9, <1>10, <1>11 DEF n

(* The record of the member who leaves, before the votes are counted.      *)
LEMMA LeaveDoes ==
  ASSUME TypeOK, NEW u \in User, Leave(u), u \in Members(empire[home[u]])
  PROVE  LET e == home[u]
             W == Without(empire[e], u)
         IN  /\ e \in Home /\ empire[e] \in EmpireRecord /\ W \in EmpireRecord
             /\ empire' \in [Home -> EmpireRecord] /\ Others(e) /\ empire'[e] = Elect(W)
             /\ flags' = [TagsAfter(W) EXCEPT ![u] = {}]
<1> DEFINE e == home[u]
           W == Without(empire[e], u)
<1>1. e \in Home /\ empire[e] \in EmpireRecord
  BY DEF Leave, TypeOK
<1>2. W \in EmpireRecord
  BY <1>1, WithoutFields
<1>3. Elect(W) \in EmpireRecord
  BY <1>2, ElectFields
<1>4. empire' = [empire EXCEPT ![e] = Elect(W)] /\ flags' = [TagsAfter(W) EXCEPT ![u] = {}]
  BY DEF Leave
<1> HIDE DEF W
<1>5. empire'[e] = Elect(W) /\ Others(e) /\ empire' \in [Home -> EmpireRecord]
  BY <1>1, <1>3, <1>4 DEF TypeOK, Others
<1> QED BY <1>1, <1>2, <1>4, <1>5 DEF W

(* The record with u's vote, before the votes are counted.                 *)
Voted(u, c) == [empire[home[u]] EXCEPT !.vote[SeatOf(empire[home[u]], u)] =
                  IF c = NoUser THEN Blank ELSE SeatOf(empire[home[u]], c)]

LEMMA VoteDoes ==
  ASSUME TypeOK, NEW u \in User, NEW c \in Users, ChangeVote(u, c)
  PROVE  LET e == home[u]
             V == Voted(u, c)
         IN  /\ e \in Home /\ empire[e] \in EmpireRecord /\ V \in EmpireRecord
             /\ V.player = empire[e].player /\ V.size = empire[e].size
             /\ V.politics = empire[e].politics /\ Members(V) = Members(empire[e])
             /\ empire' \in [Home -> EmpireRecord] /\ Others(e) /\ empire'[e] = Elect(V)
             /\ flags' = TagsAfter(V)
<1> DEFINE e == home[u]
           E == empire[e]
           V == Voted(u, c)
<1>1. e \in Home /\ E \in EmpireRecord
  BY DEF ChangeVote, TypeOK
<1>2. u \in Members(E) /\ c \in Members(E) \cup {NoUser}
  BY DEF ChangeVote
<1>3. /\ E.vote \in [0 .. Capacity - 1 -> Blank .. Capacity - 1] /\ Capacity \in Nat
      /\ \A i \in Seats(E) : i \in 0 .. Capacity - 1
  BY <1>1, RecordFields
<1> DEFINE v == IF c = NoUser THEN Blank ELSE SeatOf(E, c)
           w == [E.vote EXCEPT ![SeatOf(E, u)] = v]
<1>4. v \in Blank .. Capacity - 1 /\ SeatOf(E, u) \in 0 .. Capacity - 1
  BY <1>1, <1>2, <1>3, SeatFound DEF Blank
<1>5. w \in [0 .. Capacity - 1 -> Blank .. Capacity - 1]
  BY <1>3, <1>4
<1>6. V = [E EXCEPT !.vote = w]
  BY <1>1 DEF Voted
<1> HIDE DEF w
<1>7. V \in EmpireRecord /\ V.player = E.player /\ V.size = E.size /\ V.politics = E.politics
  <2> HIDE DEF E, V
  <2> QED BY <1>1, <1>5, <1>6 DEF EmpireRecord
<1>8. Members(V) = Members(E)
  BY <1>7 DEF Members, Seats
<1>9. empire' = [empire EXCEPT ![e] = Elect(V)] /\ flags' = TagsAfter(V)
  BY DEF ChangeVote, Voted
<1> HIDE DEF V
<1>10. Elect(V) \in EmpireRecord
  BY <1>7, ElectFields
<1>11. empire'[e] = Elect(V) /\ Others(e) /\ empire' \in [Home -> EmpireRecord]
  BY <1>1, <1>9, <1>10 DEF TypeOK, Others
<1> QED BY <1>1, <1>7, <1>8, <1>9, <1>11 DEF V

(* An appointment changes the ministries of one empire.                    *)
LEMMA AppointDoes ==
  ASSUME TypeOK, NEW e \in Home, NEW u \in User, NEW t \in (Tag \ {"leader"}) \cup {"none"},
         FamMemberFlags(e, u, t)
  PROVE  /\ empire' \in [Home -> EmpireRecord] /\ Others(e)
         /\ empire'[e].player = empire[e].player /\ empire'[e].vote = empire[e].vote
         /\ empire'[e].size = empire[e].size /\ Members(empire'[e]) = Members(empire[e])
         /\ empire'[e].politics["leader"] = empire[e].politics["leader"]
         /\ \A o \in Ministry : empire'[e].politics[o] =
              IF o = t THEN u ELSE IF o \in GivenUp(u, t) THEN NoUser ELSE empire[e].politics[o]
<1> DEFINE E == empire[e]
           p == [o \in Office |-> IF o = t THEN u ELSE IF o \in GivenUp(u, t) THEN NoUser
                                  ELSE E.politics[o]]
<1>1. E \in EmpireRecord /\ E.politics \in [Office -> Users]
  BY RecordFields DEF TypeOK
<1>2. empire' = [empire EXCEPT ![e] = [E EXCEPT !.politics = p]]
  BY DEF FamMemberFlags
<1>3. p \in [Office -> User \cup {NoUser}]
  BY <1>1 DEF Users
<1>4. p["leader"] = E.politics["leader"]
  BY DEF GivenUp, Office
<1>5. \A o \in Ministry : p[o] = IF o = t THEN u ELSE IF o \in GivenUp(u, t) THEN NoUser
                                 ELSE E.politics[o]
  BY DEF Office
<1> HIDE DEF p
<1> DEFINE F == [E EXCEPT !.politics = p]
<1>6. /\ F \in EmpireRecord /\ F.politics = p /\ F.player = E.player /\ F.vote = E.vote
      /\ F.size = E.size
  <2> HIDE DEF E
  <2> QED BY <1>1, <1>3 DEF EmpireRecord
<1> HIDE DEF F
<1>7. empire'[e] = F /\ Others(e) /\ empire' \in [Home -> EmpireRecord]
  BY <1>2, <1>6 DEF TypeOK, Others, F
<1>8. Members(F) = Members(E)
  BY <1>6 DEF Members, Seats
<1> QED BY <1>4, <1>5, <1>6, <1>7, <1>8

(* The tags on the users' records.                                         *)
LEMMA TagsType ==
  ASSUME TypeOK, NEW E \in EmpireRecord
  PROVE  TagsAfter(E) \in [User -> SUBSET Tag]
BY DEF TypeOK, TagsAfter, Tag, Office

LEMMA TypesKept ==
  ASSUME TypeOK, [Next]_vars
  PROVE  TypeOK'
<1>1. ASSUME NEW u \in User, NEW e \in Home, Join(u, e) PROVE TypeOK'
  BY <1>1, JoinDoes DEF Join, TypeOK
<1>2. ASSUME NEW u \in User, Leave(u) PROVE TypeOK'
  <2>1. home' \in [User -> Home \cup {NoEmpire}] /\ stripped' \in SUBSET User
    BY <1>2 DEF Leave, TypeOK
  <2>2. CASE u \in Members(empire[home[u]])
    <3>1. empire' \in [Home -> EmpireRecord]
      BY <1>2, <2>2, LeaveDoes
    <3>2. TagsAfter(Without(empire[home[u]], u)) \in [User -> SUBSET Tag]
      BY <1>2, <2>2, LeaveDoes, TagsType
    <3>3. flags' \in [User -> SUBSET Tag]
      BY <1>2, <2>2, <3>2, LeaveDoes
    <3> QED BY <2>1, <3>1, <3>3 DEF TypeOK
  <2>3. CASE u \notin Members(empire[home[u]])
    BY <1>2, <2>1, <2>3 DEF Leave, TypeOK
  <2> QED BY <2>2, <2>3
<1>3. ASSUME NEW u \in User, NEW c \in Users, ChangeVote(u, c) PROVE TypeOK'
  <2>1. empire' \in [Home -> EmpireRecord] /\ flags' \in [User -> SUBSET Tag]
    BY <1>3, VoteDoes, TagsType
  <2> QED BY <1>3, <2>1 DEF ChangeVote, TypeOK
<1>4. ASSUME NEW e \in Home, NEW u \in User, NEW t \in (Tag \ {"leader"}) \cup {"none"},
             FamMemberFlags(e, u, t)
      PROVE  TypeOK'
  <2>1. empire' \in [Home -> EmpireRecord]
    BY <1>4, AppointDoes
  <2>2. flags' \in [User -> SUBSET Tag]
    BY <1>4 DEF FamMemberFlags, TypeOK
  <2>3. stripped' \in SUBSET User
    BY <1>4 DEF FamMemberFlags, TypeOK, Elsewhere
  <2> QED BY <1>4, <2>1, <2>2, <2>3 DEF FamMemberFlags, TypeOK
<1>5. CASE UNCHANGED vars
  BY <1>5 DEF vars, TypeOK
<1> QED BY <1>1, <1>2, <1>3, <1>4, <1>5 DEF Next, Users

-----------------------------------------------------------------------------
(* Officers and votes, however often the form is sent.                     *)

Seated(E) == \A o \in Office : E.politics[o] \in Members(E) \cup {NoUser}
Backed(E) == E.politics["leader"] # NoUser =>
               \E a, i \in Seats(E) : E.vote[a] = i /\ E.player[i] = E.politics["leader"]

(* An election leaves officers who sit, and a leader with a vote.          *)
LEMMA ElectGoverns ==
  ASSUME NEW E \in EmpireRecord, Seated(E)
  PROVE  Seated(Elect(E)) /\ Backed(Elect(E))
<1>1. Seated(Elect(E))
  <2> SUFFICES ASSUME NEW o \in Office
               PROVE  Elect(E).politics[o] \in Members(E) \cup {NoUser}
    BY ElectFields DEF Seated
  <2>1. CASE o = "leader"
    BY <2>1, ElectFields, ElectedSits
  <2>2. CASE o \in Ministry
    BY <2>2, ElectFields DEF Seated
  <2> QED BY <2>1, <2>2 DEF Office
<1>2. Backed(Elect(E))
  <2> SUFFICES ASSUME Elected(E) # NoUser
               PROVE  \E a, i \in Seats(E) : E.vote[a] = i /\ E.player[i] = Elected(E)
    BY ElectFields DEF Backed
  <2> QED BY ElectedSits
<1> QED BY <1>1, <1>2

(* So does a departure.                                                    *)
LEMMA WithoutSeated ==
  ASSUME NEW E \in EmpireRecord, NEW u \in Members(E), Seated(E)
  PROVE  Seated(Without(E, u))
<1>1. \A o \in Office : Without(E, u).politics[o] = IF E.politics[o] = u THEN NoUser ELSE E.politics[o]
  BY WithoutFields
<1>2. Members(E) \ {u} \subseteq Members(Without(E, u))
  BY WithoutFields
<1> QED BY <1>1, <1>2 DEF Seated

Governed == \A e \in Home : Seated(empire[e]) /\ Backed(empire[e])

LEMMA GovernedKept ==
  ASSUME TypeOK, Governed, [Next]_vars
  PROVE  Governed'
<1> DEFINE Fine(e) == Seated(empire'[e]) /\ Backed(empire'[e])
<1>0. (\A e \in Home : Fine(e)) => Governed'
  BY DEF Governed, Seated, Backed, Members, Seats
<1>1. ASSUME NEW u \in User, NEW e \in Home, Join(u, e) PROVE Governed'
  <2>1. Others(e)
    BY <1>1, JoinDoes
  <2>2. Seated(empire'[e])
    <3>1. empire'[e].politics = empire[e].politics /\ Members(empire'[e]) = Members(empire[e]) \cup {u}
      BY <1>1, JoinDoes
    <3> QED BY <3>1 DEF Governed, Seated
  <2>3. Backed(empire'[e])
    <3>1. empire[e] \in EmpireRecord
      BY DEF TypeOK
    <3>2. /\ empire[e].size \in Nat /\ empire'[e].size = empire[e].size + 1
          /\ empire'[e].vote = empire[e].vote /\ empire'[e].politics = empire[e].politics
      BY <1>1, <3>1, RecordFields, JoinDoes
    <3>3. Seats(empire[e]) \subseteq Seats(empire'[e])
      BY <3>2 DEF Seats
    <3>4. \A i \in Seats(empire[e]) : empire'[e].player[i] = empire[e].player[i]
      <4> TAKE i \in Seats(empire[e])
      <4>1. i \in Slot /\ i < empire[e].size /\ i \in Nat
        BY <3>1, RecordFields
      <4>2. i # empire[e].size
        BY <4>1, <3>2
      <4> QED BY <1>1, <4>1, <4>2, JoinDoes
    <3> QED BY <3>2, <3>3, <3>4 DEF Governed, Backed
  <2> QED BY <1>0, <2>1, <2>2, <2>3 DEF Governed, Others
<1>2. ASSUME NEW u \in User, Leave(u) PROVE Governed'
  <2>1. CASE u \in Members(empire[home[u]])
    <3> DEFINE e == home[u]
               W == Without(empire[e], u)
    <3>1. e \in Home /\ empire[e] \in EmpireRecord /\ W \in EmpireRecord /\ Others(e)
          /\ empire'[e] = Elect(W)
      BY <1>2, <2>1, LeaveDoes
    <3>2. Seated(W)
      BY <2>1, <3>1, WithoutSeated DEF Governed
    <3> HIDE DEF W
    <3>3. Fine(e)
      BY <3>1, <3>2, ElectGoverns
    <3> QED BY <1>0, <3>1, <3>3 DEF Governed, Others
  <2>2. CASE u \notin Members(empire[home[u]])
    BY <1>0, <1>2, <2>2 DEF Leave, Governed
  <2> QED BY <2>1, <2>2
<1>3. ASSUME NEW u \in User, NEW c \in Users, ChangeVote(u, c) PROVE Governed'
  <2> DEFINE e == home[u]
             V == Voted(u, c)
  <2>1. /\ e \in Home /\ V \in EmpireRecord /\ Others(e) /\ empire'[e] = Elect(V)
        /\ V.politics = empire[e].politics /\ Members(V) = Members(empire[e])
    BY <1>3, VoteDoes
  <2> HIDE DEF V
  <2>2. Seated(V)
    BY <2>1 DEF Governed, Seated
  <2>3. Fine(e)
    BY <2>1, <2>2, ElectGoverns
  <2> QED BY <1>0, <2>1, <2>3 DEF Governed, Others
<1>4. ASSUME NEW e \in Home, NEW u \in User, NEW t \in (Tag \ {"leader"}) \cup {"none"},
             FamMemberFlags(e, u, t)
      PROVE  Governed'
  <2>1. Others(e)
    BY <1>4, AppointDoes
  <2>2. u \in Members(empire[e])
    BY <1>4 DEF FamMemberFlags
  <2>3. Seated(empire'[e])
    <3> SUFFICES ASSUME NEW o \in Office
                 PROVE  empire'[e].politics[o] \in Members(empire[e]) \cup {NoUser}
      BY <1>4, AppointDoes DEF Seated
    <3>1. CASE o = "leader"
      BY <1>4, <3>1, AppointDoes DEF Governed, Seated
    <3>2. CASE o \in Ministry
      BY <1>4, <2>2, <3>2, AppointDoes DEF Governed, Seated
    <3> QED BY <3>1, <3>2 DEF Office
  <2>4. Backed(empire'[e])
    BY <1>4, AppointDoes DEF Governed, Backed, Seats
  <2> QED BY <1>0, <2>1, <2>3, <2>4 DEF Governed, Others
<1>5. CASE UNCHANGED vars
  BY <1>0, <1>5 DEF vars, Governed
<1> QED BY <1>1, <1>2, <1>3, <1>4, <1>5 DEF Next, Users

LEMMA InitGoverned == Init => TypeOK /\ Governed
<1> SUFFICES ASSUME Init PROVE TypeOK /\ Governed
  OBVIOUS
<1>1. NewEmpire \in EmpireRecord
  BY EmpireAssumption DEF NewEmpire, EmpireRecord, Slot, Blank
<1>2. NewEmpire.politics = [o \in Office |-> NoUser]
  BY DEF NewEmpire
<1>3. TypeOK
  BY <1>1 DEF Init, TypeOK
<1> HIDE DEF NewEmpire
<1>4. Governed
  BY <1>2 DEF Init, Governed, Seated, Backed, Office
<1> QED BY <1>3, <1>4

(* Whoever holds an office of an empire sits in it, through every          *)
(* registration, departure, election and appointment, also where a member  *)
(* registers again (cmdExecUserDeactivate, cmdUserDelete, cmdEmpireLeader, *)
(* cmdExecFamMemberFlags).                                                 *)
THEOREM OfficersSit == Spec => [](TypeOK /\ OfficersSeated)
<1>1. TypeOK /\ Governed /\ [Next]_vars => TypeOK' /\ Governed'
  BY TypesKept, GovernedKept
<1>2. Governed => OfficersSeated
  BY DEF Governed, Seated, OfficersSeated
<1> QED BY <1>1, <1>2, InitGoverned, PTL DEF Spec

(* A Prime Minister has at least one vote at every moment (cmdEmpireLeader *)
(* after every change of votes and seats).                                 *)
THEOREM LeadersBacked == Spec => []LeaderBacked
<1>1. TypeOK /\ Governed /\ [Next]_vars => TypeOK' /\ Governed'
  BY TypesKept, GovernedKept
<1>2. Governed => LeaderBacked
  BY DEF Governed, Backed, LeaderBacked
<1> QED BY <1>1, <1>2, InitGoverned, PTL DEF Spec

-----------------------------------------------------------------------------
(* Tags, where nobody registers twice.                                     *)

Distinct(E) == \A i, j \in Seats(E) : E.player[i] \in User /\ (E.player[i] = E.player[j] => i = j)

(* Everybody has one seat, in the empire that the player's record names.   *)
Seating == /\ \A e \in Home : Distinct(empire[e])
           /\ \A u \in User, e \in Home : u \in Members(empire[e]) <=> home[u] = e

(* Of the tags a member may be given, nobody wears two.                    *)
OneTag == \A u \in User : \A o, p \in flags[u] \ {"leader"} : o = p

TagsInv == /\ TypeOK /\ Governed /\ Seating
           /\ LeaderTagged /\ TagsEarned /\ TagsWorn /\ OneTag

LEMMA SeatingKept ==
  ASSUME ~Resubmits, TypeOK, Seating, [Next]_vars
  PROVE  Seating'
<1>0. ASSUME \A e \in Home : Distinct(empire'[e]),
             \A u \in User, e \in Home : u \in Members(empire'[e]) <=> home'[u] = e
      PROVE  Seating'
  BY <1>0 DEF Seating, Distinct, Members, Seats
<1>1. ASSUME NEW u \in User, NEW e \in Home, Join(u, e) PROVE Seating'
  <2>1. /\ Others(e) /\ Members(empire'[e]) = Members(empire[e]) \cup {u}
        /\ empire'[e].size = empire[e].size + 1
        /\ \A i \in Slot : empire'[e].player[i] = IF i = empire[e].size THEN u ELSE empire[e].player[i]
    BY <1>1, JoinDoes
  <2>2. home[u] = NoEmpire /\ home' = [home EXCEPT ![u] = e]
    BY <1>1 DEF Join
  <2>3. \A d \in Home : u \notin Members(empire[d])
    BY <2>2, EmpireAssumption DEF Seating
  <2>4. Distinct(empire'[e])
    <3>1. empire[e] \in EmpireRecord
      BY DEF TypeOK
    <3>2. empire[e].size \in Nat /\ Seats(empire[e]) \subseteq Slot /\ empire[e].size \in Slot
      BY <1>1, <3>1, RecordFields DEF Join, Slot
    <3>3. Seats(empire'[e]) = Seats(empire[e]) \cup {empire[e].size}
      BY <2>1, <3>2 DEF Seats
    <3>4. \A i \in Seats(empire[e]) : empire[e].player[i] # u /\ i # empire[e].size
      BY <2>3, <3>1, RecordFields DEF Members
    <3>5. \A i \in Seats(empire'[e]) : i \in Slot
      BY <3>2, <3>3
    <3> QED BY <2>1, <3>3, <3>4, <3>5 DEF Seating, Distinct
  <2>5. \A d \in Home : Distinct(empire'[d])
    BY <2>1, <2>4 DEF Others, Seating
  <2>6. \A v \in User, d \in Home : v \in Members(empire'[d]) <=> home'[v] = d
    BY <2>1, <2>2, <2>3 DEF Others, Seating, TypeOK
  <2> QED BY <1>0, <2>5, <2>6
<1>2. ASSUME NEW u \in User, Leave(u) PROVE Seating'
  <2> DEFINE e == home[u]
             W == Without(empire[e], u)
             a == SeatOf(empire[e], u)
  <2>1. e \in Home /\ empire[e] \in EmpireRecord /\ u \in Members(empire[e])
    BY <1>2 DEF Leave, Seating, TypeOK
  <2>2. W \in EmpireRecord /\ Others(e) /\ empire'[e] = Elect(W)
    BY <1>2, <2>1, LeaveDoes
  <2>3. home' = [home EXCEPT ![u] = NoEmpire]
    BY <1>2 DEF Leave
  <2>4. a \in Seats(empire[e]) /\ empire[e].player[a] = u
    BY <2>1, SeatFound
  <2>5. /\ W.size = empire[e].size - 1 /\ empire[e].size \in Nat
        /\ Members(empire[e]) \ {u} \subseteq Members(W) /\ Members(W) \subseteq Members(empire[e])
        /\ \A i \in Seats(W) :
              W.player[i] = IF i < a THEN empire[e].player[i] ELSE empire[e].player[i + 1]
    BY <2>1, WithoutFields, RecordFields
  <2>6. Distinct(empire[e])
    BY <2>1 DEF Seating
  <2> HIDE DEF W, a
  <2>7. \A i \in Seats(W) : /\ i \in Nat /\ i \in Seats(empire[e]) /\ i + 1 \in Seats(empire[e])
                            /\ i < a \/ a <= i
    <3>1. a \in Nat
      BY <2>1, <2>4, RecordFields
    <3> QED BY <2>5, <3>1 DEF Seats
  <2>8. Distinct(W)
    <3> SUFFICES ASSUME NEW i \in Seats(W), NEW j \in Seats(W)
                 PROVE  W.player[i] \in User /\ (W.player[i] = W.player[j] => i = j)
      BY DEF Distinct
    <3>1. a \in Nat
      BY <2>1, <2>4, RecordFields
    <3> DEFINE s(k) == IF k < a THEN k ELSE k + 1
    <3>2. s(i) \in Seats(empire[e]) /\ s(j) \in Seats(empire[e]) /\ (s(i) = s(j) => i = j)
      BY <2>7, <3>1
    <3>3. W.player[i] = empire[e].player[s(i)] /\ W.player[j] = empire[e].player[s(j)]
      BY <2>5
    <3> HIDE DEF s
    <3> QED BY <2>6, <3>2, <3>3 DEF Distinct
  <2>9. u \notin Members(W)
    <3> SUFFICES ASSUME NEW i \in Seats(W), W.player[i] = u PROVE FALSE
      BY DEF Members
    <3>1. a \in Nat /\ i \in Nat
      BY <2>1, <2>4, <2>7, RecordFields
    <3>2. CASE i < a
      BY <2>4, <2>5, <2>6, <2>7, <3>1, <3>2 DEF Distinct
    <3>3. CASE a <= i
      <4>1. empire[e].player[i + 1] = u
        BY <2>5, <3>1, <3>3
      <4>2. i + 1 = a
        BY <2>4, <2>6, <2>7, <4>1 DEF Distinct
      <4> QED BY <3>1, <3>3, <4>2
    <3> QED BY <3>1, <3>2, <3>3
  <2>10. Distinct(empire'[e]) /\ Members(empire'[e]) = Members(empire[e]) \ {u}
    BY <2>2, <2>5, <2>8, <2>9, ElectFields DEF Distinct
  <2>11. \A d \in Home : Distinct(empire'[d])
    BY <2>2, <2>10 DEF Others, Seating
  <2>12. \A v \in User, d \in Home : v \in Members(empire'[d]) <=> home'[v] = d
    BY <2>1, <2>2, <2>3, <2>10, EmpireAssumption DEF Others, Seating, TypeOK
  <2> QED BY <1>0, <2>11, <2>12
<1>3. ASSUME NEW u \in User, NEW c \in Users, ChangeVote(u, c) PROVE Seating'
  <2> DEFINE e == home[u]
             V == Voted(u, c)
  <2>1. /\ e \in Home /\ V \in EmpireRecord /\ Others(e) /\ empire'[e] = Elect(V)
        /\ V.player = empire[e].player /\ V.size = empire[e].size /\ Members(V) = Members(empire[e])
    BY <1>3, VoteDoes
  <2> HIDE DEF V
  <2>2. Distinct(empire'[e]) /\ Members(empire'[e]) = Members(empire[e])
    BY <2>1, ElectFields DEF Distinct, Seating, Seats
  <2>3. home' = home
    BY <1>3 DEF ChangeVote
  <2> QED BY <1>0, <2>1, <2>2, <2>3 DEF Others, Seating
<1>4. ASSUME NEW e \in Home, NEW u \in User, NEW t \in (Tag \ {"leader"}) \cup {"none"},
             FamMemberFlags(e, u, t)
      PROVE  Seating'
  <2>1. /\ Others(e) /\ empire'[e].player = empire[e].player /\ empire'[e].size = empire[e].size
        /\ Members(empire'[e]) = Members(empire[e])
    BY <1>4, AppointDoes
  <2>2. Distinct(empire'[e])
    BY <2>1 DEF Distinct, Seating, Seats
  <2>3. home' = home
    BY <1>4 DEF FamMemberFlags
  <2> QED BY <1>0, <2>1, <2>2, <2>3 DEF Others, Seating
<1>5. CASE UNCHANGED vars
  BY <1>0, <1>5 DEF vars, Seating
<1> QED BY <1>1, <1>2, <1>3, <1>4, <1>5 DEF Next, Users

(* Officers are at home where they hold the office.                        *)
LEMMA AtHome ==
  ASSUME TypeOK, Governed, Seating, NEW d \in Home, NEW o \in Office, NEW x \in User,
         empire[d].politics[o] = x
  PROVE  x \in Members(empire[d]) /\ home[x] = d
BY EmpireAssumption DEF Governed, Seated, Seating

Tags == LeaderTagged /\ TagsEarned /\ TagsWorn /\ OneTag

(* An election after the departure of those in G, who may be nobody.       *)
LEMMA ElectionTags ==
  ASSUME TagsInv, (TypeOK /\ Governed /\ Seating)',
         NEW e \in Home, NEW V \in EmpireRecord, Seated(V), NEW G \in SUBSET User,
         G \subseteq Members(empire[e]), Members(V) \subseteq Members(empire[e]),
         Others(e), empire'[e] = Elect(V),
         \A o \in Office : V.politics[o] =
            IF empire[e].politics[o] \in G THEN NoUser ELSE empire[e].politics[o],
         \A x \in User : flags'[x] = IF x \in G THEN {} ELSE TagsAfter(V)[x],
         \A x \in User : home'[x] = IF x \in G THEN NoEmpire ELSE home[x],
         stripped' = stripped \ G
  PROVE  Tags'
<1> DEFINE L == Elected(V)
           P == Purged(V)
<1>1. \A d \in Home, o \in Office, x \in User : empire[d].politics[o] = x => home[x] = d
  BY AtHome DEF TagsInv
<1>2. \A d \in Home, o \in Office, x \in User : empire'[d].politics[o] = x => home'[x] = d /\ x \notin G
  <2> SUFFICES ASSUME NEW d \in Home, NEW o \in Office, NEW x \in User, empire'[d].politics[o] = x
               PROVE  home'[x] = d /\ x \notin G
    OBVIOUS
  <2>1. x \in Members(empire'[d])
    <3>1. empire'[d].politics[o] \in Members(empire'[d]) \cup {NoUser}
      BY DEF Governed, Seated, Members, Seats
    <3> QED BY <3>1, EmpireAssumption
  <2>2. home'[x] = d
    BY <2>1 DEF Seating, Members, Seats
  <2> QED BY <2>2, EmpireAssumption
<1>3. P \subseteq Members(V) \ {L}
  BY DEF Purged
<1>4. /\ empire'[e].politics["leader"] = L
      /\ \A o \in Ministry : empire'[e].politics[o] = IF V.politics[o] \in P THEN NoUser ELSE V.politics[o]
  BY ElectFields
<1>5. \A x \in User : flags'[x] = IF x \in G \cup P THEN {}
                                  ELSE IF x = L THEN flags[x] \cup {"leader"} ELSE flags[x]
  BY DEF TagsAfter
<1>6. \A x \in P : x \in User => home[x] = e
  BY <1>3 DEF TagsInv, Seating
<1>7. V.politics["leader"] # NoUser /\ V.politics["leader"] # L => V.politics["leader"] \in P
  BY DEF Purged, Seated, Office
<1>8. /\ "leader" \in Office /\ "leader" \notin Ministry /\ NoUser \notin User /\ NoEmpire \notin Home
      /\ \A o \in Ministry : o \in Office
  BY EmpireAssumption DEF Office
<1> HIDE DEF L, P
<1>9. ASSUME NEW x \in User
      PROVE  "leader" \in flags'[x] <=> \E d \in Home : empire'[d].politics["leader"] = x
  <2>1. CASE x \in G
    BY <1>2, <1>5, <1>8, <2>1
  <2>2. CASE x \notin G /\ x \in P
    <3>1. ~ \E d \in Home : empire'[d].politics["leader"] = x
      <4> SUFFICES ASSUME NEW d \in Home, empire'[d].politics["leader"] = x PROVE FALSE
        OBVIOUS
      <4>1. d = e
        BY <1>2, <1>6, <1>8, <2>2
      <4> QED BY <1>3, <1>4, <2>2, <4>1
    <3> QED BY <1>5, <2>2, <3>1
  <2>3. CASE x \notin G /\ x \notin P /\ x = L
    BY <1>4, <1>5, <2>3
  <2>4. CASE x \notin G /\ x \notin P /\ x # L
    <3>1. "leader" \in flags'[x] <=> "leader" \in flags[x]
      BY <1>5, <2>4
    <3>2. empire[e].politics["leader"] # x
      BY <1>7, <1>8, <2>4
    <3>3. empire'[e].politics["leader"] # x
      BY <1>4, <2>4
    <3> QED BY <3>1, <3>2, <3>3 DEF TagsInv, LeaderTagged, Others
  <2> QED BY <2>1, <2>2, <2>3, <2>4
<1>10. ASSUME NEW x \in User, NEW o \in Ministry, o \in flags'[x]
       PROVE  home'[x] # NoEmpire /\ empire'[home'[x]].politics[o] = x
  <2>1. x \notin G /\ x \notin P /\ o \in flags[x] /\ home'[x] = home[x]
    BY <1>5, <1>8, <1>10
  <2>2. home[x] # NoEmpire /\ empire[home[x]].politics[o] = x
    BY <2>1 DEF TagsInv, TagsEarned
  <2>3. home[x] \in Home
    BY <2>2 DEF TagsInv, TypeOK
  <2>4. CASE home[x] = e
    BY <1>4, <1>8, <2>1, <2>2, <2>4
  <2>5. CASE home[x] # e
    BY <2>1, <2>2, <2>3, <2>5 DEF Others
  <2> QED BY <2>4, <2>5
<1>11. ASSUME NEW d \in Home, NEW o \in Ministry, empire'[d].politics[o] # NoUser
       PROVE  empire'[d].politics[o] \in stripped' \/ o \in flags'[empire'[d].politics[o]]
  <2> DEFINE x == empire'[d].politics[o]
  <2>1. x \in User
    <3>1. empire'[d] \in EmpireRecord
      BY DEF TypeOK
    <3>2. empire'[d].politics \in [Office -> Users]
      BY <3>1, RecordFields
    <3> QED BY <1>8, <1>11, <3>2 DEF Users
  <2>2. x \notin G /\ home'[x] = d /\ home[x] = d
    BY <1>2, <1>8, <2>1
  <2>3. empire[d].politics[o] = x /\ x \notin P
    <3>1. CASE d = e
      BY <1>4, <1>8, <1>11, <3>1
    <3>2. CASE d # e
      BY <1>6, <2>1, <2>2, <3>2 DEF Others
    <3> QED BY <3>1, <3>2
  <2>4. x \in stripped \/ o \in flags[x]
    BY <1>8, <1>11, <2>3 DEF TagsInv, TagsWorn
  <2> HIDE DEF x
  <2>5. x \in stripped' \/ o \in flags'[x]
    BY <1>5, <2>1, <2>2, <2>3, <2>4
  <2> QED BY <2>5 DEF x
<1>12. ASSUME NEW x \in User, NEW o \in flags'[x] \ {"leader"}, NEW p \in flags'[x] \ {"leader"}
       PROVE  o = p
  <2>1. o \in flags[x] \ {"leader"} /\ p \in flags[x] \ {"leader"}
    BY <1>5, <1>12
  <2> QED BY <2>1 DEF TagsInv, OneTag
<1>13. LeaderTagged' /\ TagsEarned' /\ TagsWorn' /\ OneTag'
  BY <1>9, <1>10, <1>11, <1>12 DEF LeaderTagged, TagsEarned, TagsWorn, OneTag
<1> QED BY <1>13 DEF Tags

(* An appointment: the new minister is at home, whoever wore the tag in    *)
(* his empire is stripped, and a neighbour elsewhere is remembered.        *)
LEMMA AppointmentTags ==
  ASSUME TagsInv, (TypeOK /\ Governed /\ Seating)',
         NEW e \in Home, NEW u \in User, NEW t \in (Tag \ {"leader"}) \cup {"none"},
         FamMemberFlags(e, u, t)
  PROVE  Tags'
<1> DEFINE N == Neighbours(empire[e], u)
<1>1. /\ Others(e)
      /\ empire'[e].politics["leader"] = empire[e].politics["leader"]
      /\ \A o \in Ministry : empire'[e].politics[o] =
           IF o = t THEN u ELSE IF o \in GivenUp(u, t) THEN NoUser ELSE empire[e].politics[o]
  BY AppointDoes DEF TagsInv
<1>2. /\ u \in Members(empire[e]) /\ u # empire[e].politics["leader"] /\ home' = home
      /\ flags' = [x \in User |->
           CASE x = u -> (flags[u] \ GivenUp(u, t)) \cup ({t} \cap Tag)
             [] x # u /\ x \in N /\ t \in Ministry -> flags[x] \ {t}
             [] OTHER -> flags[x]]
      /\ stripped' = stripped \cup (IF t \in Ministry THEN Elsewhere(e, u, t) ELSE {})
  BY DEF FamMemberFlags
<1>3. home[u] = e /\ e # NoEmpire
  BY <1>2, EmpireAssumption DEF TagsInv, Seating
<1>4. \A d \in Home, o \in Office, x \in User : empire[d].politics[o] = x => home[x] = d
  BY AtHome DEF TagsInv
<1>5. /\ "leader" \in Office /\ "leader" \notin Ministry /\ NoUser \notin User /\ NoEmpire \notin Home
      /\ t # "leader" /\ \A o \in Ministry : o \in Office /\ o \in Tag
  BY EmpireAssumption DEF Office, Tag
<1>6. \A x \in User : home[x] = e /\ x # u => x \in N
  <2>1. \A x \in User : home[x] = e => \E i \in Seats(empire[e]) : empire[e].player[i] = x
    BY DEF TagsInv, Seating, Members
  <2>2. empire[e] \in EmpireRecord
    BY DEF TagsInv, TypeOK
  <2>3. \A i \in Seats(empire[e]) : i \in 0 .. empire[e].size
    BY <2>2, RecordFields
  <2> QED BY <2>1, <2>3 DEF Neighbours
<1>7. /\ flags'[u] = (flags[u] \ GivenUp(u, t)) \cup ({t} \cap Tag)
      /\ \A x \in User \ {u} : flags'[x] = IF x \in N /\ t \in Ministry THEN flags[x] \ {t} ELSE flags[x]
  BY <1>2
<1>8. \A o : o \in flags'[u] \ {"leader"} => o = t
  BY <1>7 DEF GivenUp
<1>9. \A x \in User : "leader" \in flags'[x] <=> "leader" \in flags[x]
  <2>1. "leader" \notin {t} /\ "leader" \notin GivenUp(u, t)
    BY <1>5 DEF GivenUp
  <2>2. "leader" \in flags'[u] <=> "leader" \in flags[u]
    BY <1>7, <2>1
  <2>3. ASSUME NEW x \in User \ {u} PROVE "leader" \in flags'[x] <=> "leader" \in flags[x]
    <3> HIDE DEF N
    <3> QED BY <1>7, <2>1
  <2> QED BY <2>2, <2>3
<1>10. \A x \in User : "leader" \in flags'[x] <=> \E d \in Home : empire'[d].politics["leader"] = x
  BY <1>1, <1>9 DEF TagsInv, LeaderTagged, Others
<1> HIDE DEF N
<1>11. ASSUME NEW x \in User, NEW o \in Ministry, o \in flags'[x]
       PROVE  home'[x] # NoEmpire /\ empire'[home'[x]].politics[o] = x
  <2>1. CASE x = u
    <3>1. o = t
      BY <1>5, <1>8, <1>11, <2>1
    <3> QED BY <1>1, <1>2, <1>3, <2>1, <3>1
  <2>2. CASE x # u
    <3>1. o \in flags[x] /\ home'[x] = home[x]
      BY <1>2, <1>7, <1>11, <2>2
    <3>2. home[x] # NoEmpire /\ empire[home[x]].politics[o] = x /\ home[x] \in Home
      BY <3>1 DEF TagsInv, TagsEarned, TypeOK
    <3>3. CASE home[x] # e
      BY <1>1, <3>1, <3>2, <3>3 DEF Others
    <3>4. CASE home[x] = e
      <4>1. o # t
        BY <1>6, <1>7, <1>11, <2>2, <3>4
      <4>2. o \notin GivenUp(u, t)
        <5>1. o \in flags[u] => empire[home[u]].politics[o] = u
          BY DEF TagsInv, TagsEarned
        <5> QED BY <1>3, <2>2, <3>2, <3>4, <5>1 DEF GivenUp
      <4> QED BY <1>1, <3>1, <3>2, <3>4, <4>1, <4>2
    <3> QED BY <3>3, <3>4
  <2> QED BY <2>1, <2>2
<1>12. ASSUME NEW d \in Home, NEW o \in Ministry, empire'[d].politics[o] # NoUser
       PROVE  empire'[d].politics[o] \in stripped' \/ o \in flags'[empire'[d].politics[o]]
  <2> DEFINE x == empire'[d].politics[o]
  <2>1. x \in User
    <3>1. empire'[d] \in EmpireRecord
      BY DEF TypeOK
    <3>2. empire'[d].politics \in [Office -> Users]
      BY <3>1, RecordFields
    <3> QED BY <1>5, <1>12, <3>2 DEF Users
  <2>2. CASE d = e /\ o = t
    <3>1. x = u /\ o \in flags'[u]
      BY <1>1, <1>5, <1>7, <2>2
    <3> QED BY <3>1
  <2>3. CASE ~(d = e /\ o = t)
    <3>1. empire[d].politics[o] = x /\ (d = e => o \notin GivenUp(u, t))
      <4>1. CASE d = e
        BY <1>1, <1>12, <2>3, <4>1
      <4>2. CASE d # e
        BY <1>1, <4>2 DEF Others
      <4> QED BY <4>1, <4>2
    <3>2. home[x] = d
      BY <1>4, <1>5, <2>1, <3>1
    <3>3. x \in stripped \/ o \in flags[x]
      BY <1>12, <3>1 DEF TagsInv, TagsWorn
    <3> HIDE DEF x
    <3>4. x \in stripped' \/ o \in flags'[x]
      <4>1. CASE x \in stripped
        BY <1>2, <4>1
      <4>2. CASE o \in flags[x] /\ x = u
        <5>1. d = e
          BY <1>3, <3>2, <4>2
        <5> QED BY <1>7, <3>1, <4>2, <5>1
      <4>3. CASE o \in flags[x] /\ x # u /\ o # t
        BY <1>7, <2>1, <4>3
      <4>4. CASE o \in flags[x] /\ x # u /\ o = t
        <5>1. home[x] # e
          BY <2>3, <3>2, <4>4
        <5>2. CASE x \in N
          <6>1. x \in Elsewhere(e, u, t)
            BY <2>1, <4>4, <5>1, <5>2 DEF Elsewhere, N
          <6> QED BY <1>2, <4>4, <6>1
        <5>3. CASE x \notin N
          BY <1>7, <2>1, <4>4, <5>3
        <5> QED BY <5>2, <5>3
      <4> QED BY <3>3, <4>1, <4>2, <4>3, <4>4
    <3> QED BY <3>4 DEF x
  <2> QED BY <2>2, <2>3
<1>13. ASSUME NEW x \in User, NEW o \in flags'[x] \ {"leader"}, NEW p \in flags'[x] \ {"leader"}
       PROVE  o = p
  <2>1. CASE x = u
    BY <1>8, <1>13, <2>1
  <2>2. CASE x # u
    <3>1. flags'[x] \subseteq flags[x]
      BY <1>7, <2>2
    <3>2. o \in flags[x] \ {"leader"} /\ p \in flags[x] \ {"leader"}
      BY <3>1
    <3> QED BY <3>2 DEF TagsInv, OneTag
  <2> QED BY <2>1, <2>2
<1>14. LeaderTagged' /\ TagsEarned' /\ TagsWorn' /\ OneTag'
  BY <1>10, <1>11, <1>12, <1>13 DEF LeaderTagged, TagsEarned, TagsWorn, OneTag
<1> QED BY <1>14 DEF Tags

LEMMA TagsKept ==
  ASSUME ~Resubmits, TagsInv, [Next]_vars
  PROVE  TagsInv'
<1>1. (TypeOK /\ Governed /\ Seating)'
  BY TypesKept, GovernedKept, SeatingKept DEF TagsInv
<1>2. ASSUME NEW u \in User, NEW e \in Home, Join(u, e) PROVE Tags'
  <2>1. Others(e) /\ empire'[e].politics = empire[e].politics
    BY <1>2, JoinDoes DEF TagsInv
  <2>2. \A d \in Home : empire'[d].politics = empire[d].politics
    BY <2>1 DEF Others
  <2>3. home[u] = NoEmpire /\ home' = [home EXCEPT ![u] = e] /\ flags' = flags /\ stripped' = stripped
    BY <1>2 DEF Join
  <2>4. \A x \in User, o \in Ministry : o \in flags[x] => x # u /\ home'[x] = home[x] /\ home[x] \in Home
    BY <2>3 DEF TagsInv, TagsEarned, TypeOK
  <2>5. LeaderTagged' /\ TagsWorn' /\ OneTag'
    BY <2>2, <2>3 DEF TagsInv, LeaderTagged, TagsWorn, OneTag
  <2>6. TagsEarned'
    BY <2>2, <2>3, <2>4 DEF TagsInv, TagsEarned
  <2> QED BY <2>5, <2>6 DEF Tags
<1>3. ASSUME NEW u \in User, Leave(u) PROVE Tags'
  <2> DEFINE e == home[u]
             W == Without(empire[e], u)
             G == {u}
  <2>1. e \in Home /\ u \in Members(empire[e])
    BY <1>3 DEF Leave, TagsInv, Seating, TypeOK
  <2>2. /\ empire[e] \in EmpireRecord /\ W \in EmpireRecord /\ Others(e) /\ empire'[e] = Elect(W)
        /\ flags' = [TagsAfter(W) EXCEPT ![u] = {}]
    BY <1>3, <2>1, LeaveDoes DEF TagsInv
  <2>3. /\ Members(W) \subseteq Members(empire[e])
        /\ \A o \in Office : W.politics[o] = IF empire[e].politics[o] \in G THEN NoUser
                                             ELSE empire[e].politics[o]
    BY <2>1, <2>2, WithoutFields
  <2>4. Seated(W)
    BY <2>1, <2>2, WithoutSeated DEF TagsInv, Governed
  <2>5. TagsAfter(W) \in [User -> SUBSET Tag]
    BY <2>2, TagsType DEF TagsInv
  <2>6. \A x \in User : flags'[x] = IF x \in G THEN {} ELSE TagsAfter(W)[x]
    BY <2>2, <2>5
  <2>7. (\A x \in User : home'[x] = IF x \in G THEN NoEmpire ELSE home[x]) /\ stripped' = stripped \ G
    BY <1>3 DEF Leave, TagsInv, TypeOK
  <2>8. G \in SUBSET User /\ G \subseteq Members(empire[e])
    BY <2>1
  <2> HIDE DEF G, W, e
  <2> QED BY <1>1, <2>1, <2>2, <2>3, <2>4, <2>6, <2>7, <2>8, ElectionTags
<1>4. ASSUME NEW u \in User, NEW c \in Users, ChangeVote(u, c) PROVE Tags'
  <2> DEFINE e == home[u]
             V == Voted(u, c)
             G == {}
  <2>1. /\ e \in Home /\ V \in EmpireRecord /\ Others(e) /\ empire'[e] = Elect(V)
        /\ V.politics = empire[e].politics /\ Members(V) = Members(empire[e])
        /\ flags' = TagsAfter(V)
    BY <1>4, VoteDoes DEF TagsInv
  <2>2. Seated(V)
    BY <2>1 DEF TagsInv, Governed, Seated
  <2>3. (\A x \in User : home'[x] = IF x \in G THEN NoEmpire ELSE home[x]) /\ stripped' = stripped \ G
    BY <1>4 DEF ChangeVote
  <2>4. G \in SUBSET User /\ G \subseteq Members(empire[e])
    OBVIOUS
  <2>5. \A o \in Office : V.politics[o] = IF empire[e].politics[o] \in G THEN NoUser
                                          ELSE empire[e].politics[o]
    BY <2>1
  <2>6. \A x \in User : flags'[x] = IF x \in G THEN {} ELSE TagsAfter(V)[x]
    BY <2>1
  <2>7. Members(V) \subseteq Members(empire[e])
    BY <2>1
  <2> HIDE DEF G, V, e
  <2> QED BY <1>1, <2>1, <2>2, <2>3, <2>4, <2>5, <2>6, <2>7, ElectionTags
<1>5. ASSUME NEW e \in Home, NEW u \in User, NEW t \in (Tag \ {"leader"}) \cup {"none"},
             FamMemberFlags(e, u, t)
      PROVE  Tags'
  BY <1>1, <1>5, AppointmentTags
<1>6. ASSUME UNCHANGED vars PROVE Tags'
  <2>1. empire' = empire /\ home' = home /\ flags' = flags /\ stripped' = stripped
    BY <1>6 DEF vars
  <2>2. LeaderTagged' /\ TagsEarned'
    BY <2>1 DEF TagsInv, LeaderTagged, TagsEarned
  <2>3. TagsWorn' /\ OneTag'
    BY <2>1 DEF TagsInv, TagsWorn, OneTag
  <2> QED BY <2>2, <2>3 DEF Tags
<1>7. Tags'
  <2>1. CASE Next
    BY <1>2, <1>3, <1>4, <1>5, <2>1 DEF Next, Users
  <2> QED BY <1>6, <2>1
<1> QED BY <1>1, <1>7 DEF TagsInv, Tags

LEMMA InitTags == Init => TagsInv
<1> SUFFICES ASSUME Init PROVE TagsInv
  OBVIOUS
<1>1. \A e \in Home : empire[e] = NewEmpire /\ Seats(empire[e]) = {}
  BY DEF Init, NewEmpire, Seats
<1>2. \A e \in Home, o \in Office : empire[e].politics[o] = NoUser
  <2>1. NewEmpire.politics = [o \in Office |-> NoUser]
    BY DEF NewEmpire
  <2> HIDE DEF NewEmpire
  <2> QED BY <1>1, <2>1
<1>3. Seating
  BY <1>1, EmpireAssumption DEF Init, Seating, Distinct, Members
<1>4. LeaderTagged /\ TagsEarned /\ TagsWorn /\ OneTag
  BY <1>2, EmpireAssumption DEF Init, LeaderTagged, TagsEarned, TagsWorn, OneTag, Office
<1> QED BY <1>3, <1>4, InitGoverned DEF TagsInv

(* Nobody who has the tags of his offices has two of them.                 *)
LEMMA OneMinistryEach == TagsInv => OneMinistry
<1> SUFFICES ASSUME TagsInv, NEW e \in Home, NEW u \in User \ stripped
             PROVE  Cardinality({o \in Ministry : empire[e].politics[o] = u}) <= 1
  BY DEF OneMinistry
<1> DEFINE T == {o \in Ministry : empire[e].politics[o] = u}
<1>1. \A o \in T : o \in flags[u] \ {"leader"}
  BY EmpireAssumption DEF TagsInv, TagsWorn
<1>2. \A o, p \in T : o = p
  BY <1>1 DEF TagsInv, OneTag
<1> HIDE DEF T
<1>3. CASE T = {}
  <2>1. Cardinality(T) = 0
    BY <1>3, FS_EmptySet
  <2> QED BY <2>1 DEF T
<1>4. CASE T # {}
  <2>1. PICK o \in T : T = {o}
    BY <1>2, <1>4
  <2>2. Cardinality(T) = 1
    BY <2>1, FS_Singleton
  <2> QED BY <2>2 DEF T
<1> QED BY <1>3, <1>4

(* The tags on the users' records agree with the offices in the empires'   *)
(* records, with any number of empires between which members move, but for *)
(* tags that an appointment in an empire a member has left took from him.  *)
THEOREM TagsAgreeWithOffices ==
  ASSUME ~Resubmits
  PROVE  Spec => []TagsAgree
<1>1. TagsInv /\ [Next]_vars => TagsInv'
  BY TagsKept
<1>2. TagsInv => TagsAgree
  BY DEF TagsInv, TagsAgree
<1> QED BY <1>1, <1>2, InitTags, PTL DEF Spec

(* Every officer is a member, and holds one ministry at most unless an     *)
(* appointment in an empire he has left took his tag.                      *)
THEOREM GovernmentsSound ==
  ASSUME ~Resubmits
  PROVE  Spec => []GovernmentSound
<1>1. TagsInv /\ [Next]_vars => TagsInv'
  BY TagsKept
<1>2. TagsInv => GovernmentSound
  BY OneMinistryEach DEF TagsInv, Governed, Seated, OfficersSeated, GovernmentSound
<1> QED BY <1>1, <1>2, InitTags, PTL DEF Spec

-----------------------------------------------------------------------------
(* The sitting leader, where nobody registers twice.                       *)

LEMMA SeatUnique ==
  ASSUME NEW E \in EmpireRecord, Distinct(E), NEW i \in Seats(E)
  PROVE  SeatOf(E, E.player[i]) = i
<1>1. E.player[i] \in Members(E)
  BY DEF Members
<1>2. SeatOf(E, E.player[i]) \in Seats(E) /\ E.player[SeatOf(E, E.player[i])] = E.player[i]
  BY <1>1, SeatFound
<1> QED BY <1>2 DEF Distinct

(* What an election writes has no part in seats and votes.                 *)
LEMMA ElectSame ==
  ASSUME NEW E \in EmpireRecord, NEW x
  PROVE  SeatOf(Elect(E), x) = SeatOf(E, x) /\ Tally(Elect(E), x) = Tally(E, x)
<1>1. Elect(E).player = E.player /\ Elect(E).vote = E.vote /\ Seats(Elect(E)) = Seats(E)
  BY ElectFields
<1> QED BY <1>1 DEF SeatOf, Tally

LEMMA ElectionTies ==
  ASSUME NEW E \in EmpireRecord, Distinct(E), NEW old \in Members(E),
         E.politics["leader"] = old, Elected(E) # old, Elected(E) # NoUser
  PROVE  \/ E.vote[SeatOf(E, old)] = Blank
         \/ Tally(E, SeatOf(E, Elected(E))) > Tally(E, SeatOf(E, old))
<1> DEFINE s == SeatOf(E, old)
<1>1. s \in Seats(E) /\ E.player[s] = old
  BY SeatFound
<1>2. s \in Nat
  BY <1>1, RecordFields
<1>3. Winner(E) \in Seats(E) /\ E.player[Winner(E)] = Elected(E)
  BY ElectedSits
<1>4. SeatOf(E, Elected(E)) = Winner(E)
  BY <1>3, SeatUnique
<1> HIDE DEF s
<1> SUFFICES ASSUME E.vote[s] # Blank PROVE Tally(E, Winner(E)) > Tally(E, s)
  BY <1>4 DEF s
<1>5. Sitting(E) = {s}
  BY <1>1 DEF Sitting, Distinct
<1>6. Winner(E) # s
  BY <1>1, <1>3
<1> QED BY <1>1, <1>2, <1>5, <1>6, WinnerSits

(* What TiesKeepTheLeader says of one empire.                              *)
Outvoted(e) ==
  LET old == empire[e].politics["leader"]
      E == empire'[e]
      new == E.politics["leader"]
  IN  (new # old /\ new # NoUser /\ old \in Members(E)) =>
        \/ E.vote[SeatOf(E, old)] = Blank
        \/ Tally(E, SeatOf(E, new)) > Tally(E, SeatOf(E, old))

LEMMA ElectOutvotes ==
  ASSUME NEW e \in Home, NEW V \in EmpireRecord, empire'[e] = Elect(V), Distinct(empire'[e]),
         empire[e].politics["leader"] \in Members(V) =>
            V.politics["leader"] = empire[e].politics["leader"]
  PROVE  Outvoted(e)
<1> DEFINE old == empire[e].politics["leader"]
<1>1. /\ Elect(V).player = V.player /\ Elect(V).vote = V.vote /\ Seats(Elect(V)) = Seats(V)
      /\ Members(Elect(V)) = Members(V) /\ Elect(V).politics["leader"] = Elected(V)
  BY ElectFields
<1>2. Distinct(V)
  BY <1>1 DEF Distinct
<1> HIDE DEF old
<1>3. ASSUME Elected(V) # old, Elected(V) # NoUser, old \in Members(V)
      PROVE  \/ V.vote[SeatOf(V, old)] = Blank
             \/ Tally(V, SeatOf(V, Elected(V))) > Tally(V, SeatOf(V, old))
  <2>1. V.politics["leader"] = old
    BY <1>3 DEF old
  <2> QED BY <1>2, <1>3, <2>1, ElectionTies
<1>4. SeatOf(Elect(V), old) = SeatOf(V, old) /\ SeatOf(Elect(V), Elected(V)) = SeatOf(V, Elected(V))
  BY ElectSame
<1>5. \A i : Tally(Elect(V), i) = Tally(V, i)
  BY ElectSame
<1> QED BY <1>1, <1>3, <1>4, <1>5 DEF Outvoted, old

LEMMA StepsOutvote ==
  ASSUME ~Resubmits, TypeOK, Governed, Seating, [Next]_vars, NEW e \in Home
  PROVE  Outvoted(e)
<1>1. \A d \in Home : Distinct(empire'[d])
  BY SeatingKept DEF Seating, Distinct, Seats
<1>2. ASSUME empire'[e].politics["leader"] = empire[e].politics["leader"] PROVE Outvoted(e)
  BY <1>2 DEF Outvoted
<1>3. ASSUME NEW u \in User, NEW d \in Home, Join(u, d) PROVE Outvoted(e)
  <2>1. empire'[e].politics = empire[e].politics
    BY <1>3, JoinDoes DEF Others
  <2> QED BY <1>2, <2>1
<1>4. ASSUME NEW u \in User, Leave(u) PROVE Outvoted(e)
  <2> DEFINE h == home[u]
             W == Without(empire[h], u)
  <2>1. h \in Home /\ u \in Members(empire[h]) /\ empire[h] \in EmpireRecord
    BY <1>4 DEF Leave, Seating, TypeOK
  <2>2. W \in EmpireRecord /\ Others(h) /\ empire'[h] = Elect(W)
    BY <1>4, <2>1, LeaveDoes
  <2>3. CASE e # h
    BY <1>2, <2>2, <2>3 DEF Others
  <2>4. CASE e = h
    <3>1. W.politics["leader"] = IF empire[h].politics["leader"] = u THEN NoUser
                                 ELSE empire[h].politics["leader"]
      BY <2>1, WithoutFields DEF Office
    <3>2. u \notin Members(empire'[h])
      <4>1. home'[u] # h
        BY <1>4, <2>1, EmpireAssumption DEF Leave, TypeOK
      <4>2. Seating'
        BY SeatingKept
      <4> HIDE DEF h
      <4> QED BY <2>1, <4>1, <4>2 DEF Seating, Members, Seats
    <3>3. u \notin Members(W)
      BY <2>2, <3>2, ElectFields
    <3> HIDE DEF W, h
    <3> QED BY <1>1, <2>1, <2>2, <2>4, <3>1, <3>3, ElectOutvotes
  <2> QED BY <2>3, <2>4
<1>5. ASSUME NEW u \in User, NEW c \in Users, ChangeVote(u, c) PROVE Outvoted(e)
  <2> DEFINE h == home[u]
             V == Voted(u, c)
  <2>1. /\ h \in Home /\ V \in EmpireRecord /\ Others(h) /\ empire'[h] = Elect(V)
        /\ V.politics = empire[h].politics
    BY <1>5, VoteDoes
  <2> HIDE DEF V, h
  <2>2. CASE e # h
    BY <1>2, <2>1, <2>2 DEF Others
  <2>3. CASE e = h
    BY <1>1, <2>1, <2>3, ElectOutvotes
  <2> QED BY <2>2, <2>3
<1>6. ASSUME NEW d \in Home, NEW u \in User, NEW t \in (Tag \ {"leader"}) \cup {"none"},
             FamMemberFlags(d, u, t)
      PROVE  Outvoted(e)
  BY <1>2, <1>6, AppointDoes DEF Others
<1>7. ASSUME UNCHANGED vars PROVE Outvoted(e)
  BY <1>2, <1>7 DEF vars
<1> QED BY <1>3, <1>4, <1>5, <1>6, <1>7 DEF Next, Users

(* A sitting leader who votes himself and stays is replaced only by a      *)
(* member with strictly more votes, whichever seats the elections, the     *)
(* departures and the renumbering of the votes leave them in               *)
(* (cmdEmpireLeader looks at the sitting leader first).                    *)
THEOREM TiesKeep ==
  ASSUME ~Resubmits
  PROVE  Spec => TiesKeepTheLeader
<1>1. TypeOK /\ Governed /\ Seating /\ [Next]_vars => TypeOK' /\ Governed' /\ Seating'
  BY TypesKept, GovernedKept, SeatingKept
<1>2. TypeOK /\ Governed /\ Seating /\ [Next]_vars =>
        \A e \in Home : LET old == empire[e].politics["leader"]
                            E == empire'[e]
                            new == E.politics["leader"]
                        IN  (new # old /\ new # NoUser /\ old \in Members(E)) =>
                              \/ E.vote[SeatOf(E, old)] = Blank
                              \/ Tally(E, SeatOf(E, new)) > Tally(E, SeatOf(E, old))
  BY StepsOutvote DEF Outvoted
<1>3. Init => TypeOK /\ Governed /\ Seating
  BY InitTags DEF TagsInv
<1> QED BY <1>1, <1>2, <1>3, PTL DEF Spec, TiesKeepTheLeader
=============================================================================
