--------------------------- MODULE PlanetsProofs ---------------------------
(* The map, the players' lists and their queues of builds agree, for any   *)
(* number of players and planets and through every way in which a planet   *)
(* changes hands.                                                          *)
(*                                                                         *)
(* First who owns what (OwnerLists, with the invariant IInv), which needs  *)
(* nothing but the lists: how often a list has a planet is followed through*)
(* an entry that is added and one that is removed.  What is under          *)
(* construction is a sum over a queue, and the queue is an array that a    *)
(* walk makes shorter, so there are lemmas on sums and on such walks in    *)
(* between.  They are proved by looking at the least counterexample, which *)
(* every set of numbers has.  Then the queues, the portals and the counts  *)
(* (MapInv).                                                               *)
EXTENDS Planets, FiniteSetTheorems, WellFoundedInduction, TLAPS

Fields == {"owner", "portal", "rising", "construction", "surrender"}

\* What is known of the records: their fields, whoever may be an owner, and
\* that the flags a list copies are flags.
PlanetsTyped ==
  /\ planet = [p \in Planet |-> planet[p]]
  /\ \A p \in Planet : /\ DOMAIN planet[p] = Fields
                       /\ planet[p].owner \in Player \cup {None}
                       /\ planet[p].portal \in BOOLEAN

ListsTyped == list \in [Player -> Seq(Entry)]

\* A civilisation is met once: the planet it lives on has been given to
\* nobody who was exploring it.
SpareTyped ==
  /\ spare \in [Planet -> Player \cup {None}]
  /\ ancient \subseteq Planet /\ \A p \in ancient : spare[p] = None

IInv == PlanetsTyped /\ ListsTyped /\ SpareTyped /\ OwnerLists

\* Where an array has something of planet p, and how many entries for it
\* the list of player u owes to the map and to the gifts.
Places(Q, p) == {i \in DOMAIN Q : Q[i].planet = p}
Due(u, p) == (IF planet[p].owner = u THEN 1 ELSE 0) + (IF spare[p] = u THEN 1 ELSE 0)
Owns(u) == {p \in Planet : planet[p].owner = u}

(* OwnerLists in the terms of the lemmas. *)
LEMMA Mirrored == OwnerLists <=> \A u \in Player, p \in Planet : Entries(list[u], p) = Due(u, p)
BY DEF OwnerLists, Due

LEMMA MirroredNext ==
  OwnerLists' <=> \A u \in Player, p \in Planet : Entries(list'[u], p) = Due(u, p)'
BY DEF OwnerLists, Due, Entries

----------------------------------------------------------------------------
(* How often a list has a planet.                                          *)

(* Every set of numbers has a least one. *)
LEMMA Least ==
  ASSUME NEW T \in SUBSET Nat, T # {}
  PROVE  \E x \in T : \A y \in T : x <= y
<1> DEFINE R == OpToRel(<, Nat)
<1>1. IsWellFoundedOn(R, Nat)
  BY NatLessThanWellFounded
<1>2. \A x, y \in Nat : x < y => <<x, y>> \in R
  BY DEF OpToRel
<1> HIDE DEF R
<1>3. PICK x \in T : \A y \in T : ~ (<<y, x>> \in R)
  BY <1>1, WFMin
<1>4. ASSUME NEW y \in T PROVE x <= y
  <2>1. x \in Nat /\ y \in Nat /\ ~(<<y, x>> \in R)
    BY <1>3
  <2>2. ~(y < x)
    BY <1>2, <2>1
  <2> QED BY <2>1, <2>2
<1> QED BY <1>4

(* The entries of a planet are finitely many. *)
LEMMA Spots ==
  ASSUME NEW L \in Seq(Entry), NEW p
  PROVE  /\ Entries(L, p) = Cardinality(Places(L, p))
         /\ IsFiniteSet(Places(L, p)) /\ Entries(L, p) \in Nat
         /\ Entries(L, p) = 0 <=> Places(L, p) = {}
         /\ Places(L, p) \subseteq 1 .. Len(L) /\ Len(L) \in Nat /\ DOMAIN L = 1 .. Len(L)
<1>1. Len(L) \in Nat /\ DOMAIN L = 1 .. Len(L)
  OBVIOUS
<1>2. IsFiniteSet(1 .. Len(L))
  BY <1>1, FS_Interval
<1>3. IsFiniteSet(Places(L, p))
  BY <1>1, <1>2, FS_Subset DEF Places
<1>4. Cardinality(Places(L, p)) \in Nat /\ (Cardinality(Places(L, p)) = 0 <=> Places(L, p) = {})
  BY <1>3, FS_CardinalityType, FS_EmptySet
<1> QED BY <1>1, <1>3, <1>4 DEF Entries, Places

(* Sets of places with an element more, and one less. *)
LEMMA Countup ==
  ASSUME NEW S, IsFiniteSet(S), NEW x
  PROVE  /\ x \notin S => IsFiniteSet(S \cup {x}) /\ Cardinality(S \cup {x}) = Cardinality(S) + 1
         /\ x \in S => IsFiniteSet(S \ {x}) /\ Cardinality(S \ {x}) = Cardinality(S) - 1
<1>1. x \notin S => IsFiniteSet(S \cup {x}) /\ Cardinality(S \cup {x}) = Cardinality(S) + 1
  BY FS_AddElement
<1>2. x \in S => IsFiniteSet(S \ {x}) /\ Cardinality(S \ {x}) = Cardinality(S) - 1
  BY FS_RemoveElement
<1> QED BY <1>1, <1>2

(* A list that gets an entry. *)
LEMMA Added ==
  ASSUME NEW L \in Seq(Entry), NEW e \in Entry
  PROVE  /\ Append(L, e) \in Seq(Entry)
         /\ \A q : Entries(Append(L, e), q) = Entries(L, q) + (IF e.planet = q THEN 1 ELSE 0)
<1> DEFINE M == Append(L, e)  n == Len(L)
<1>1. M \in Seq(Entry) /\ DOMAIN M = 1 .. n + 1 /\ DOMAIN L = 1 .. n /\ n \in Nat
  OBVIOUS
<1>2. (\A i \in 1 .. n : M[i] = L[i]) /\ M[n + 1] = e
  OBVIOUS
<1> HIDE DEF M, n
<1>3. ASSUME NEW q PROVE Entries(M, q) = Entries(L, q) + (IF e.planet = q THEN 1 ELSE 0)
  <2>1. /\ Entries(L, q) = Cardinality(Places(L, q)) /\ Entries(M, q) = Cardinality(Places(M, q))
        /\ IsFiniteSet(Places(L, q)) /\ Cardinality(Places(L, q)) \in Nat
    BY <1>1, Spots
  <2>2. CASE e.planet = q
    <3>1. Places(M, q) = Places(L, q) \cup {n + 1} /\ n + 1 \notin Places(L, q)
      BY <1>1, <1>2, <2>2 DEF Places
    <3> QED BY <2>1, <2>2, <3>1, Countup
  <2>3. CASE e.planet # q
    <3>1. Places(M, q) = Places(L, q)
      BY <1>1, <1>2, <2>3 DEF Places
    <3> QED BY <2>1, <2>3, <3>1
  <2> QED BY <2>2, <2>3
<1> QED BY <1>1, <1>3 DEF M

(* The place of a planet in a list: its first. *)
LEMMA Found ==
  ASSUME NEW L \in Seq(Entry), NEW p
  PROVE  /\ Entries(L, p) # 0 => At(L, p) \in 1 .. Len(L) /\ L[At(L, p)].planet = p
         /\ Entries(L, p) = 0 <=> At(L, p) = 0
<1>1. Entries(L, p) = 0 <=> Places(L, p) = {}
  BY Spots
<1>2. DOMAIN L = 1 .. Len(L) /\ Len(L) \in Nat
  OBVIOUS
<1>3. CASE Places(L, p) # {}
  <2>1. Places(L, p) \in SUBSET Nat
    BY <1>2 DEF Places
  <2>2. PICK x \in Places(L, p) : \A y \in Places(L, p) : x <= y
    BY <1>3, <2>1, Least
  <2>3. \A j \in 1 .. x - 1 : L[j].planet # p
    <3> SUFFICES ASSUME NEW j \in 1 .. x - 1, L[j].planet = p PROVE FALSE
      OBVIOUS
    <3>1. x \in 1 .. Len(L)
      BY <1>2 DEF Places
    <3>2. j \in Places(L, p)
      BY <1>2, <3>1 DEF Places
    <3> QED BY <2>2, <3>1, <3>2
  <2>4. \E i \in DOMAIN L : L[i].planet = p /\ \A j \in 1 .. i - 1 : L[j].planet # p
    BY <2>3 DEF Places
  <2>5. At(L, p) \in DOMAIN L /\ L[At(L, p)].planet = p
    BY <2>4 DEF At
  <2> QED BY <1>1, <1>2, <1>3, <2>5
<1>4. CASE Places(L, p) = {}
  <2>1. At(L, p) = 0
    BY <1>4 DEF At, Places
  <2> QED BY <1>1, <1>4, <2>1
<1> QED BY <1>3, <1>4

(* What is left of a list: every entry but the one that goes, the last one *)
(* in its place.                                                           *)
LEMMA Gap ==
  ASSUME NEW L \in Seq(Entry), NEW p, Entries(L, p) # 0
  PROVE  LET i == At(L, p)  n == Len(L)  M == Unlisted(L, p)
         IN  /\ i \in 1 .. n /\ L[i].planet = p /\ n \in Nat \ {0} /\ DOMAIN L = 1 .. n
             /\ M \in Seq(Entry) /\ DOMAIN M = 1 .. n - 1
             /\ \A k \in 1 .. n - 1 : M[k] = IF k = i THEN L[n] ELSE L[k]
<1> DEFINE i == At(L, p)  n == Len(L)  M == Unlisted(L, p)
<1>1. i \in 1 .. n /\ L[i].planet = p /\ n \in Nat \ {0} /\ DOMAIN L = 1 .. n
  BY Found
<1>2. M = SwapRemove(L, i)
  BY <1>1 DEF Unlisted
<1>3. /\ Front(L) \in Seq(Entry) /\ Len(Front(L)) = n - 1
      /\ \A k \in 1 .. n - 1 : Front(L)[k] = L[k]
  BY <1>1 DEF Front
<1> HIDE DEF i
<1>4. L[n] \in Entry
  BY <1>1
<1>5. M \in Seq(Entry) /\ DOMAIN M = 1 .. n - 1
      /\ \A k \in 1 .. n - 1 : M[k] = IF k = i THEN L[n] ELSE L[k]
  <2>1. CASE i < n
    <3>1. M = [Front(L) EXCEPT ![i] = L[n]]
      BY <1>2, <2>1 DEF SwapRemove, Last
    <3> HIDE DEF M
    <3>2. DOMAIN Front(L) = 1 .. n - 1 /\ i \in 1 .. n - 1
      BY <1>1, <1>3, <2>1
    <3>3. M \in Seq(Entry)
      BY <3>1, <3>2, <1>3, <1>4
    <3> QED BY <3>1, <3>2, <3>3, <1>3
  <2>2. CASE i = n
    <3>1. M = Front(L)
      BY <1>2, <2>2, <1>1 DEF SwapRemove
    <3> QED BY <3>1, <1>3, <1>1, <2>2
  <2> HIDE DEF M, n
  <2> QED BY <1>1, <2>1, <2>2
<1> QED BY <1>1, <1>5 DEF i

(* A list that loses an entry for a planet. *)
LEMMA Removed ==
  ASSUME NEW L \in Seq(Entry), NEW p
  PROVE  /\ Unlisted(L, p) \in Seq(Entry)
         /\ \A q : Entries(Unlisted(L, p), q) =
                     Entries(L, q) - (IF q = p /\ Entries(L, p) # 0 THEN 1 ELSE 0)
<1>1. CASE Entries(L, p) = 0
  <2>1. Unlisted(L, p) = L
    BY <1>1, Found DEF Unlisted
  <2>2. \A q : Entries(L, q) \in Nat
    BY Spots
  <2> QED BY <1>1, <2>1, <2>2
<1>2. CASE Entries(L, p) # 0
  <2> DEFINE i == At(L, p)  n == Len(L)  M == Unlisted(L, p)
  <2>1. /\ i \in 1 .. n /\ L[i].planet = p /\ n \in Nat \ {0} /\ DOMAIN L = 1 .. n
        /\ M \in Seq(Entry) /\ DOMAIN M = 1 .. n - 1
        /\ \A k \in 1 .. n - 1 : M[k] = IF k = i THEN L[n] ELSE L[k]
    BY <1>2, Gap
  <2> HIDE DEF i, n, M
  <2>2. ASSUME NEW q PROVE Entries(M, q) = Entries(L, q) - (IF q = p THEN 1 ELSE 0)
    <3>1. /\ Entries(L, q) = Cardinality(Places(L, q)) /\ Entries(M, q) = Cardinality(Places(M, q))
          /\ IsFiniteSet(Places(L, q)) /\ Cardinality(Places(L, q)) \in Nat
      BY <2>1, Spots
    <3>2. CASE q = p /\ L[n].planet = p
      <4>1. Places(M, q) = Places(L, q) \ {n} /\ n \in Places(L, q)
        BY <2>1, <3>2 DEF Places
      <4> QED BY <3>1, <3>2, <4>1, Countup
    <3>3. CASE q = p /\ L[n].planet # p
      <4>1. i \in 1 .. n - 1
        BY <2>1, <3>3
      <4>2. Places(M, q) = Places(L, q) \ {i} /\ i \in Places(L, q)
        BY <2>1, <3>3, <4>1 DEF Places
      <4> QED BY <3>1, <3>3, <4>2, Countup
    <3>4. CASE q # p /\ L[n].planet # q
      <4>1. Places(M, q) = Places(L, q)
        BY <2>1, <3>4 DEF Places
      <4> QED BY <3>1, <3>4, <4>1
    <3>5. CASE q # p /\ L[n].planet = q
      <4> DEFINE T == Places(L, q) \ {n}
      <4>1. i \in 1 .. n - 1
        BY <2>1, <3>5
      <4>2. n \in Places(L, q) /\ i \notin T /\ Places(M, q) = T \cup {i}
        BY <2>1, <3>5, <4>1 DEF Places
      <4>3. IsFiniteSet(T) /\ Cardinality(T) = Cardinality(Places(L, q)) - 1
        BY <3>1, <4>2, Countup
      <4> HIDE DEF T
      <4>4. Cardinality(T \cup {i}) = Cardinality(T) + 1
        BY <4>2, <4>3, Countup
      <4> QED BY <3>1, <3>5, <4>2, <4>3, <4>4
    <3> QED BY <3>2, <3>3, <3>4, <3>5
  <2> QED BY <1>2, <2>1, <2>2 DEF M
<1> QED BY <1>1, <1>2

(* A list whose entries keep their planets. *)
LEMMA Relabelled ==
  ASSUME NEW L, NEW M, DOMAIN M = DOMAIN L,
         \A i \in DOMAIN L : M[i].planet = L[i].planet
  PROVE  \A q : Entries(M, q) = Entries(L, q)
<1> TAKE q
<1>1. {i \in DOMAIN M : M[i].planet = q} = {i \in DOMAIN L : L[i].planet = q}
  OBVIOUS
<1> QED BY <1>1 DEF Entries

LEMMA Joined ==
  ASSUME NEW S, NEW L \in Seq(S), NEW E \in Seq(S)
  PROVE  /\ L \o E \in Seq(S) /\ Len(L \o E) = Len(L) + Len(E)
         /\ \A i \in 1 .. Len(L) + Len(E) : (L \o E)[i] = IF i <= Len(L) THEN L[i] ELSE E[i - Len(L)]
OBVIOUS

\* What Explore makes of a list.
Longer(L, gift, p) ==
  LET new == Append(gift, p)
  IN  L \o [i \in DOMAIN new |-> [planet |-> new[i], portal |-> FALSE]]

\* How many entries for planet q are among those.
Given(gift, p, q) == (IF q \in ToSet(gift) THEN 1 ELSE 0) + (IF q = p THEN 1 ELSE 0)

\* Such a list M: the list, then the planets of the gift, then the planet.
IsLonger(M, L, gift, p) ==
  LET n == Len(L)  m == Len(gift)
  IN  /\ n \in Nat /\ m \in Nat /\ DOMAIN L = 1 .. n /\ DOMAIN gift = 1 .. m
      /\ M \in Seq(Entry) /\ DOMAIN M = 1 .. n + m + 1
      /\ \A i \in 1 .. n : M[i] = L[i]
      /\ \A k \in 1 .. m : M[n + k].planet = gift[k] /\ M[n + k].portal = FALSE
      /\ M[n + m + 1].planet = p /\ M[n + m + 1].portal = FALSE

(* A list that gets the planets of a gift, each of them once, and then the *)
(* one that is explored.                                                   *)
LEMMA Lengthened ==
  ASSUME NEW L \in Seq(Entry), NEW gift \in Seq(Planet), NEW p \in Planet
  PROVE  IsLonger(Longer(L, gift, p), L, gift, p)
<1> DEFINE M == Longer(L, gift, p)
           n == Len(L)  m == Len(gift)  new == Append(gift, p)
           E == [i \in DOMAIN new |-> [planet |-> new[i], portal |-> FALSE]]
<1>1. n \in Nat /\ m \in Nat /\ DOMAIN L = 1 .. n /\ DOMAIN gift = 1 .. m
  OBVIOUS
<1>2. /\ new \in Seq(Planet) /\ Len(new) = m + 1 /\ DOMAIN new = 1 .. m + 1
      /\ \A k \in 1 .. m : new[k] = gift[k]
      /\ new[m + 1] = p
  OBVIOUS
<1> HIDE DEF new
<1>3. E \in Seq(Entry) /\ Len(E) = m + 1 /\ DOMAIN E = 1 .. m + 1
      /\ \A k \in 1 .. m + 1 : E[k] = [planet |-> new[k], portal |-> FALSE]
  <2>1. \A k \in 1 .. m + 1 : [planet |-> new[k], portal |-> FALSE] \in Entry
    BY <1>1, <1>2 DEF Entry
  <2> QED BY <1>1, <1>2, <2>1
<1>4. M = L \o E
  BY DEF Longer, new
<1> HIDE DEF E, M
<1>5. /\ M \in Seq(Entry) /\ Len(M) = n + m + 1 /\ DOMAIN M = 1 .. n + m + 1
      /\ \A i \in 1 .. n : M[i] = L[i]
      /\ \A k \in 1 .. m + 1 : M[n + k] = E[k]
  <2>1. /\ M \in Seq(Entry) /\ Len(M) = n + Len(E)
        /\ \A i \in 1 .. n + Len(E) : M[i] = IF i <= n THEN L[i] ELSE E[i - n]
    BY <1>3, <1>4, Joined
  <2> HIDE DEF n, m
  <2>2. Len(M) = n + m + 1 /\ DOMAIN M = 1 .. n + m + 1
    BY <1>1, <1>3, <2>1
  <2>3. \A i \in 1 .. n : M[i] = L[i]
    BY <1>1, <1>3, <2>1
  <2>4. ASSUME NEW k \in 1 .. m + 1 PROVE M[n + k] = E[k]
    <3>1. n + k \in 1 .. n + Len(E) /\ ~(n + k <= n) /\ (n + k) - n = k
      BY <1>1, <1>3
    <3> QED BY <2>1, <3>1
  <2> QED BY <2>1, <2>2, <2>3, <2>4
<1> HIDE DEF n, m
<1>6. /\ \A k \in 1 .. m : M[n + k].planet = gift[k] /\ M[n + k].portal = FALSE
      /\ M[n + m + 1].planet = p /\ M[n + m + 1].portal = FALSE
  <2>1. ASSUME NEW k \in 1 .. m + 1 PROVE M[n + k].planet = new[k] /\ M[n + k].portal = FALSE
    <3>1. M[n + k] = [planet |-> new[k], portal |-> FALSE]
      BY <1>3, <1>5
    <3>2. /\ [planet |-> new[k], portal |-> FALSE].planet = new[k]
          /\ [planet |-> new[k], portal |-> FALSE].portal = FALSE
      OBVIOUS
    <3> HIDE DEF E
    <3> QED BY <3>1, <3>2
  <2>2. m + 1 \in 1 .. m + 1 /\ n + (m + 1) = n + m + 1 /\ \A k \in 1 .. m : k \in 1 .. m + 1
    BY <1>1
  <2> QED BY <2>1, <2>2, <1>2
<1> QED BY <1>1, <1>5, <1>6 DEF n, m, M, IsLonger

LEMMA Extended ==
  ASSUME NEW L \in Seq(Entry), NEW gift \in Seq(Planet), NEW p \in Planet,
         IsInjective(gift), NEW q
  PROVE  Entries(Longer(L, gift, p), q) = Entries(L, q) + Given(gift, p, q)
<1> DEFINE n == Len(L)  m == Len(gift)  M == Longer(L, gift, p)
<1>0. IsLonger(M, L, gift, p)
  BY Lengthened
<1>1. n \in Nat /\ m \in Nat /\ DOMAIN L = 1 .. n /\ DOMAIN gift = 1 .. m
  BY <1>0 DEF IsLonger
<1>5. M \in Seq(Entry) /\ DOMAIN M = 1 .. n + m + 1 /\ \A i \in 1 .. n : M[i] = L[i]
  BY <1>0 DEF IsLonger
<1>6. /\ \A k \in 1 .. m : M[n + k].planet = gift[k] /\ M[n + k].portal = FALSE
      /\ M[n + m + 1].planet = p /\ M[n + m + 1].portal = FALSE
  BY <1>0 DEF IsLonger
<1> HIDE DEF n, m, M
<1>7. Entries(M, q) = Entries(L, q) + Given(gift, p, q)
  <2> DEFINE F == {i \in 1 .. n + m : M[i].planet = q}
  <2>1. /\ Entries(L, q) = Cardinality(Places(L, q)) /\ Entries(M, q) = Cardinality(Places(M, q))
        /\ IsFiniteSet(Places(L, q)) /\ Cardinality(Places(L, q)) \in Nat
    BY <1>5, Spots
  <2>2. IsFiniteSet(F) /\ Cardinality(F) = Cardinality(Places(L, q)) + (IF q \in ToSet(gift) THEN 1 ELSE 0)
    <3>1. CASE q \in ToSet(gift)
      <4>1. PICK k \in 1 .. m : gift[k] = q
        BY <1>1, <3>1 DEF ToSet
      <4>2. \A j \in 1 .. m : gift[j] = q => j = k
        BY <1>1, <4>1 DEF IsInjective
      <4>3. n + k \notin Places(L, q)
        BY <1>1, <4>1 DEF Places
      <4>4. F = Places(L, q) \cup {n + k}
        <5>1. ASSUME NEW i \in F PROVE i \in Places(L, q) \cup {n + k}
          <6>1. CASE i <= n
            BY <1>1, <1>5, <5>1, <6>1 DEF Places
          <6>2. CASE i > n
            <7>1. i - n \in 1 .. m /\ i = n + (i - n)
              BY <1>1, <5>1, <6>2
            <7>2. gift[i - n] = q
              BY <1>6, <7>1, <5>1
            <7> QED BY <4>2, <7>1, <7>2
          <6> QED BY <1>1, <5>1, <6>1, <6>2
        <5>2. ASSUME NEW i \in Places(L, q) PROVE i \in F
          BY <1>1, <1>5, <5>2 DEF Places
        <5>3. n + k \in F
          <6>1. n + k \in 1 .. n + m
            BY <1>1
          <6> QED BY <1>6, <4>1, <6>1
        <5> QED BY <5>1, <5>2, <5>3
      <4> HIDE DEF F
      <4> QED BY <2>1, <3>1, <4>3, <4>4, Countup
    <3>2. CASE q \notin ToSet(gift)
      <4>1. \A k \in 1 .. m : gift[k] # q
        BY <1>1, <3>2 DEF ToSet
      <4>2. F = Places(L, q)
        <5>1. ASSUME NEW i \in F PROVE i \in Places(L, q)
          <6>1. CASE i <= n
            BY <1>1, <1>5, <5>1, <6>1 DEF Places
          <6>2. CASE i > n
            <7>1. i - n \in 1 .. m /\ i = n + (i - n)
              BY <1>1, <5>1, <6>2
            <7> QED BY <1>6, <4>1, <5>1, <7>1
          <6> QED BY <1>1, <5>1, <6>1, <6>2
        <5>2. ASSUME NEW i \in Places(L, q) PROVE i \in F
          BY <1>1, <1>5, <5>2 DEF Places
        <5> QED BY <5>1, <5>2
      <4> HIDE DEF F
      <4> QED BY <2>1, <3>2, <4>2
    <3> QED BY <3>1, <3>2
  <2>3. CASE q = p
    <3>1. Places(M, q) = F \cup {n + m + 1} /\ n + m + 1 \notin F
      <4>1. n + m \in Nat
        BY <1>1
      <4> HIDE DEF F
      <4>2. n + m + 1 \notin F
        BY <4>1 DEF F
      <4>3. \A i : i \in Places(M, q) <=> i \in F \/ i = n + m + 1
        BY <4>1, <1>5, <1>6, <2>3 DEF Places, F
      <4> QED BY <4>2, <4>3
    <3> HIDE DEF F
    <3>2. Cardinality(Places(M, q)) = Cardinality(F) + 1
      BY <2>2, <3>1, Countup
    <3> QED BY <2>1, <2>2, <2>3, <3>2 DEF Given
  <2>4. CASE q # p
    <3>1. Places(M, q) = F
      <4>1. n + m \in Nat
        BY <1>1
      <4>2. \A i : i \in Places(M, q) <=> i \in F
        BY <4>1, <1>5, <1>6, <2>4 DEF Places
      <4> QED BY <4>2
    <3> HIDE DEF F
    <3>2. Cardinality(Places(M, q)) = Cardinality(F)
      BY <3>1
    <3>3. Given(gift, p, q) = IF q \in ToSet(gift) THEN 1 ELSE 0
      BY <2>4 DEF Given
    <3> QED BY <2>1, <2>2, <3>2, <3>3
  <2> QED BY <2>3, <2>4
<1> QED BY <1>7 DEF M

(* The entries of the longer list are those of the list and new ones. *)
LEMMA NewEntries ==
  ASSUME NEW L \in Seq(Entry), NEW gift \in Seq(Planet), NEW p \in Planet,
         NEW i \in DOMAIN Longer(L, gift, p)
  PROVE  IF i <= Len(L)
           THEN i \in DOMAIN L /\ Longer(L, gift, p)[i] = L[i]
           ELSE /\ Longer(L, gift, p)[i].planet \in ToSet(gift) \cup {p}
                /\ Longer(L, gift, p)[i].portal = FALSE
<1> DEFINE n == Len(L)  m == Len(gift)  M == Longer(L, gift, p)
<1>0. IsLonger(M, L, gift, p)
  BY Lengthened
<1>1. n \in Nat /\ m \in Nat /\ DOMAIN L = 1 .. n /\ DOMAIN gift = 1 .. m
  BY <1>0 DEF IsLonger
<1>5. M \in Seq(Entry) /\ DOMAIN M = 1 .. n + m + 1 /\ \A j \in 1 .. n : M[j] = L[j]
  BY <1>0 DEF IsLonger
<1>6. /\ \A k \in 1 .. m : M[n + k].planet = gift[k] /\ M[n + k].portal = FALSE
      /\ M[n + m + 1].planet = p /\ M[n + m + 1].portal = FALSE
  BY <1>0 DEF IsLonger
<1> HIDE DEF n, m, M
<1>7. i \in DOMAIN M
  BY DEF M
<1>8. ASSUME i > n
      PROVE  M[i].planet \in ToSet(gift) \cup {p} /\ M[i].portal = FALSE
  <2>1. i - n \in 1 .. m + 1 /\ i = n + (i - n)
    BY <1>1, <1>5, <1>7, <1>8
  <2>2. CASE i - n = m + 1
    BY <1>1, <1>6, <2>1, <2>2
  <2>3. CASE i - n \in 1 .. m
    <3>1. M[i].planet = gift[i - n] /\ M[i].portal = FALSE
      BY <1>6, <2>1, <2>3
    <3>2. gift[i - n] \in ToSet(gift)
      BY <1>1, <2>3 DEF ToSet
    <3> QED BY <3>1, <3>2
  <2>4. i - n = m + 1 \/ i - n \in 1 .. m
    BY <1>1, <2>1
  <2> QED BY <2>2, <2>3, <2>4
<1>9. IF i <= n THEN i \in DOMAIN L /\ M[i] = L[i]
               ELSE M[i].planet \in ToSet(gift) \cup {p} /\ M[i].portal = FALSE
  <2>1. CASE i <= n
    BY <1>1, <1>5, <1>7, <2>1
  <2>2. CASE ~(i <= n)
    <3>1. i > n
      BY <1>1, <1>5, <1>7, <2>2
    <3> QED BY <1>8, <2>2, <3>1
  <2> QED BY <2>1, <2>2
<1> QED BY <1>9 DEF n, M

(* A planet that a list has once is at one place of it. *)
LEMMA Single ==
  ASSUME NEW L \in Seq(Entry), NEW p, Entries(L, p) = 1
  PROVE  \A i \in DOMAIN L : L[i].planet = p => At(L, p) = i
<1> SUFFICES ASSUME NEW i \in DOMAIN L, L[i].planet = p PROVE At(L, p) = i
  OBVIOUS
<1>1. PICK x : Places(L, p) = {x}
  BY Spots, FS_Singleton
<1>2. At(L, p) \in Places(L, p)
  BY Found DEF Places
<1>3. i \in Places(L, p)
  BY DEF Places
<1> QED BY <1>1, <1>2, <1>3

----------------------------------------------------------------------------
(* The ways in which the map and the lists change together.                *)

LEMMA Records ==
  ASSUME PlanetsTyped, NEW p \in Planet, NEW u \in Player \cup {None}
  PROVE  /\ DOMAIN Owned(p, u) = Fields /\ Owned(p, u).owner = u /\ Owned(p, u).portal = FALSE
         /\ DOMAIN Surrendered(p) = Fields /\ Surrendered(p).owner = None
         /\ Surrendered(p).portal = planet[p].portal
BY DEF PlanetsTyped, Owned, Surrendered, Fields

(* What a record must be to be put into the map. *)
Fit(R, u) == DOMAIN R = Fields /\ R.owner = u /\ R.portal \in BOOLEAN

\* Nothing is given away: only a civilisation may be met.
NoGift == ancient' \subseteq ancient /\ spare' = spare

LEMMA SpareStays ==
  ASSUME IInv, NoGift
  PROVE  SpareTyped'
BY DEF IInv, SpareTyped, NoGift

LEMMA Replaced ==
  ASSUME PlanetsTyped, NEW p \in Planet, NEW u \in Player \cup {None}, NEW R, Fit(R, u),
         planet' = [planet EXCEPT ![p] = R]
  PROVE  /\ PlanetsTyped'
         /\ \A q \in Planet : planet'[q].owner = IF q = p THEN u ELSE planet[q].owner
<1>1. planet' = [q \in Planet |-> IF q = p THEN R ELSE planet[q]]
  BY DEF PlanetsTyped
<1>2. PlanetsTyped'
  BY <1>1 DEF PlanetsTyped, Fit
<1>3. \A q \in Planet : planet'[q].owner = IF q = p THEN u ELSE planet[q].owner
  BY <1>1 DEF Fit
<1> QED BY <1>2, <1>3

(* A planet that nobody had gets an owner. *)
LEMMA Gains ==
  ASSUME IInv, NoGift, NEW p \in Planet, NEW u \in Player, planet[p].owner = None,
         NEW R, Fit(R, u), planet' = [planet EXCEPT ![p] = R],
         NEW e \in Entry, e.planet = p, list' = [list EXCEPT ![u] = Append(list[u], e)]
  PROVE  IInv'
<1>0. PlanetsTyped /\ u \in Player \cup {None}
  BY DEF IInv
<1>1. PlanetsTyped' /\ \A q \in Planet : planet'[q].owner = IF q = p THEN u ELSE planet[q].owner
  BY <1>0, Replaced
<1>2. \A w \in Player : list[w] \in Seq(Entry) /\ \A q \in Planet : Entries(list[w], q) = Due(w, q)
  BY Mirrored DEF IInv, ListsTyped
<1>3. /\ Append(list[u], e) \in Seq(Entry)
      /\ \A q : Entries(Append(list[u], e), q) = Entries(list[u], q) + (IF q = p THEN 1 ELSE 0)
  BY <1>2, Added
<1>4. /\ list' \in [Player -> Seq(Entry)]
      /\ \A v \in Player : list'[v] = IF v = u THEN Append(list[u], e) ELSE list[v]
  BY <1>3 DEF IInv, ListsTyped
<1>5. \A w \in Player, q \in Planet : Entries(list'[w], q) = Due(w, q)'
  <2> TAKE w \in Player, q \in Planet
  <2>1. Due(w, q)' = Due(w, q) + (IF w = u /\ q = p THEN 1 ELSE 0) /\ Due(w, q) \in Nat
    BY <1>1, PlanetsConstants DEF Due, NoGift
  <2> HIDE DEF Due
  <2>2. CASE w = u
    BY <1>2, <1>3, <1>4, <2>1, <2>2
  <2>3. CASE w # u
    BY <1>2, <1>4, <2>1, <2>3
  <2> QED BY <2>2, <2>3
<1>6. OwnerLists'
  BY <1>5, MirroredNext
<1> QED BY <1>1, <1>4, <1>6, SpareStays DEF IInv, ListsTyped

(* A planet is taken from its owner and left without one. *)
LEMMA Frees ==
  ASSUME IInv, NoGift, NEW p \in Planet, NEW v \in Player, planet[p].owner = v,
         NEW R, Fit(R, None), planet' = [planet EXCEPT ![p] = R],
         list' = [list EXCEPT ![v] = Unlisted(list[v], p)]
  PROVE  IInv'
<1>1. PlanetsTyped' /\ \A q \in Planet : planet'[q].owner = IF q = p THEN None ELSE planet[q].owner
  BY Replaced DEF IInv
<1>2. \A w \in Player : list[w] \in Seq(Entry) /\ \A q \in Planet : Entries(list[w], q) = Due(w, q)
  BY Mirrored DEF IInv, ListsTyped
<1>3. Entries(list[v], p) # 0
  BY <1>2 DEF Due
<1>4. /\ Unlisted(list[v], p) \in Seq(Entry)
      /\ \A q : Entries(Unlisted(list[v], p), q) = Entries(list[v], q) - (IF q = p THEN 1 ELSE 0)
  BY <1>2, <1>3, Removed
<1>5. /\ list' \in [Player -> Seq(Entry)]
      /\ \A w \in Player : list'[w] = IF w = v THEN Unlisted(list[v], p) ELSE list[w]
  BY <1>4 DEF IInv, ListsTyped
<1>6. \A w \in Player, q \in Planet : Entries(list'[w], q) = Due(w, q)'
  <2> TAKE w \in Player, q \in Planet
  <2>1. Due(w, q)' = Due(w, q) - (IF w = v /\ q = p THEN 1 ELSE 0) /\ Due(w, q) \in Nat
    BY <1>1, PlanetsConstants DEF Due, NoGift
  <2>2. CASE w = v
    BY <1>2, <1>4, <1>5, <2>1, <2>2
  <2>3. CASE w # v
    BY <1>2, <1>5, <2>1, <2>3
  <2> QED BY <2>2, <2>3
<1>7. OwnerLists'
  BY <1>6, MirroredNext
<1> QED BY <1>1, <1>5, <1>7, SpareStays DEF IInv, ListsTyped

(* A planet goes from one player to another. *)
LEMMA Moves ==
  ASSUME IInv, NoGift, NEW p \in Planet, NEW v \in Player, NEW u \in Player,
         planet[p].owner = v, u # v,
         NEW R, Fit(R, u), planet' = [planet EXCEPT ![p] = R],
         NEW e \in Entry, e.planet = p,
         list' = [list EXCEPT ![v] = Unlisted(list[v], p), ![u] = Append(@, e)]
  PROVE  IInv'
<1>0. PlanetsTyped /\ u \in Player \cup {None}
  BY DEF IInv
<1>1. PlanetsTyped' /\ \A q \in Planet : planet'[q].owner = IF q = p THEN u ELSE planet[q].owner
  BY <1>0, Replaced
<1>2. \A w \in Player : list[w] \in Seq(Entry) /\ \A q \in Planet : Entries(list[w], q) = Due(w, q)
  BY Mirrored DEF IInv, ListsTyped
<1>3. Entries(list[v], p) # 0
  BY <1>2 DEF Due
<1>4. /\ Unlisted(list[v], p) \in Seq(Entry)
      /\ \A q : Entries(Unlisted(list[v], p), q) = Entries(list[v], q) - (IF q = p THEN 1 ELSE 0)
  BY <1>2, <1>3, Removed
<1>5. /\ Append(list[u], e) \in Seq(Entry)
      /\ \A q : Entries(Append(list[u], e), q) = Entries(list[u], q) + (IF q = p THEN 1 ELSE 0)
  BY <1>2, Added
<1>6. /\ list' \in [Player -> Seq(Entry)]
      /\ \A w \in Player : list'[w] = CASE w = u -> Append(list[u], e)
                                        [] w = v -> Unlisted(list[v], p)
                                        [] OTHER -> list[w]
  BY <1>4, <1>5 DEF IInv, ListsTyped
<1>7. \A w \in Player, q \in Planet : Entries(list'[w], q) = Due(w, q)'
  <2> TAKE w \in Player, q \in Planet
  <2>1. Due(w, q) \in Nat
    BY DEF Due
  <2>2. CASE w = u
    <3>1. Due(w, q)' = Due(w, q) + (IF q = p THEN 1 ELSE 0)
      BY <1>1, <2>2 DEF Due, NoGift
    <3> QED BY <1>2, <1>5, <1>6, <2>1, <2>2, <3>1
  <2>3. CASE w = v
    <3>1. Due(w, q)' = Due(w, q) - (IF q = p THEN 1 ELSE 0)
      BY <1>1, <2>3 DEF Due, NoGift
    <3> QED BY <1>2, <1>4, <1>6, <2>1, <2>3, <3>1
  <2>4. CASE w # u /\ w # v
    <3>1. Due(w, q)' = Due(w, q)
      BY <1>1, <2>4 DEF Due, NoGift
    <3> QED BY <1>2, <1>6, <2>4, <3>1
  <2> QED BY <2>2, <2>3, <2>4
<1>8. OwnerLists'
  BY <1>7, MirroredNext
<1> QED BY <1>1, <1>6, <1>8, SpareStays DEF IInv, ListsTyped

(* No owner changes, and the lists keep their planets. *)
LEMMA Stays ==
  ASSUME IInv, NoGift, PlanetsTyped', ListsTyped',
         \A p \in Planet : planet'[p].owner = planet[p].owner,
         \A u \in Player : /\ DOMAIN list'[u] = DOMAIN list[u]
                           /\ \A i \in DOMAIN list[u] : list'[u][i].planet = list[u][i].planet
  PROVE  IInv'
<1>1. \A w \in Player, q \in Planet : Entries(list'[w], q) = Due(w, q)'
  <2> TAKE w \in Player, q \in Planet
  <2>1. Due(w, q)' = Due(w, q)
    BY DEF Due, NoGift
  <2>2. Entries(list[w], q) = Due(w, q)
    BY Mirrored DEF IInv
  <2>3. Entries(list'[w], q) = Entries(list[w], q)
    BY Relabelled
  <2> QED BY <2>1, <2>2, <2>3
<1>2. OwnerLists'
  BY <1>1, MirroredNext
<1> QED BY <1>2, SpareStays DEF IInv

(* A player is out of the game: what he listed and what he has just lost is *)
(* nobody's.                                                                *)
LEMMA Left ==
  ASSUME IInv, NEW u \in Player, NEW lost, \A p \in lost : planet[p].owner = u, Leaves(u, lost)
  PROVE  IInv'
<1> DEFINE mine == {p \in Planet \ lost : At(list[u], p) # 0 /\ planet[p].owner = u}
<1>1. \A w \in Player : list[w] \in Seq(Entry) /\ \A q \in Planet : Entries(list[w], q) = Due(w, q)
  BY Mirrored DEF IInv, ListsTyped
<1>2. mine = Owns(u) \ lost
  <2>1. \A p \in Owns(u) : At(list[u], p) # 0
    <3> TAKE p \in Owns(u)
    <3>1. Entries(list[u], p) # 0
      BY <1>1 DEF Owns, Due
    <3> QED BY <1>1, <3>1, Found
  <2> QED BY <2>1 DEF Owns
<1>3. /\ planet' = [p \in Planet |-> CASE p \in mine -> Owned(p, None)
                                       [] p \in lost -> Surrendered(p)
                                       [] OTHER      -> planet[p]]
      /\ list' = [list EXCEPT ![u] = <<>>]
      /\ spare' = [p \in Planet |-> IF spare[p] = u THEN None ELSE spare[p]]
      /\ ancient' = ancient
  BY DEF Leaves, wonders
<1> HIDE DEF mine
<1>4. \A p \in Planet : planet'[p] = IF p \in mine THEN Owned(p, None)
                                     ELSE IF p \in lost THEN Surrendered(p) ELSE planet[p]
  <2> TAKE p \in Planet
  <2>1. planet'[p] = CASE p \in mine -> Owned(p, None)
                       [] p \in lost -> Surrendered(p)
                       [] OTHER      -> planet[p]
    BY <1>3
  <2>2. ~(p \in mine /\ p \in lost)
    BY <1>2
  <2> QED BY <2>1, <2>2
<1>5. \A p \in Planet : /\ DOMAIN planet'[p] = Fields /\ planet'[p].portal \in BOOLEAN
                        /\ planet'[p].owner = IF planet[p].owner = u THEN None ELSE planet[p].owner
  <2> TAKE p \in Planet
  <2>1. /\ DOMAIN Owned(p, None) = Fields /\ Owned(p, None).owner = None
        /\ Owned(p, None).portal = FALSE
        /\ DOMAIN Surrendered(p) = Fields /\ Surrendered(p).owner = None
        /\ Surrendered(p).portal = planet[p].portal
    BY Records DEF IInv
  <2>2. DOMAIN planet[p] = Fields /\ planet[p].portal \in BOOLEAN
    BY DEF IInv, PlanetsTyped
  <2>3. CASE p \in mine
    BY <2>1, <2>3, <1>2, <1>4 DEF Owns
  <2>4. CASE p \notin mine /\ p \in lost
    BY <2>1, <2>2, <2>4, <1>4
  <2>5. CASE p \notin mine /\ p \notin lost
    BY <2>2, <2>5, <1>2, <1>4 DEF Owns
  <2> QED BY <2>3, <2>4, <2>5
<1>6. PlanetsTyped'
  BY <1>3, <1>5 DEF IInv, PlanetsTyped
<1>7. SpareTyped'
  BY <1>3 DEF IInv, SpareTyped
<1>8. ListsTyped' /\ \A w \in Player : list'[w] = IF w = u THEN <<>> ELSE list[w]
  BY <1>3 DEF IInv, ListsTyped
<1>9. \A w \in Player, q \in Planet : Entries(list'[w], q) = Due(w, q)'
  <2> TAKE w \in Player, q \in Planet
  <2>1. CASE w = u
    <3>1. Places(list'[w], q) = {}
      BY <1>8, <2>1 DEF Places
    <3>2. Entries(list'[w], q) = 0
      BY <1>8, <2>1, <3>1, Spots DEF ListsTyped
    <3>3. planet'[q].owner # w /\ spare'[q] # w
      BY <1>3, <1>5, <2>1, PlanetsConstants
    <3> QED BY <3>2, <3>3 DEF Due
  <2>2. CASE w # u
    <3>1. (planet'[q].owner = w <=> planet[q].owner = w) /\ (spare'[q] = w <=> spare[q] = w)
      BY <1>3, <1>5, <2>2, PlanetsConstants
    <3> QED BY <1>1, <1>8, <2>2, <3>1 DEF Due
  <2> QED BY <2>1, <2>2
<1>10. OwnerLists'
  BY <1>9, MirroredNext
<1> QED BY <1>6, <1>7, <1>8, <1>10 DEF IInv

----------------------------------------------------------------------------
(* Every step.                                                             *)

LEMMA Initially == Init => IInv
<1> SUFFICES ASSUME Init PROVE IInv
  OBVIOUS
<1>1. PlanetsTyped
  <2> DEFINE R == [owner |-> None, portal |-> FALSE, rising |-> FALSE,
                   construction |-> 0, surrender |-> None]
  <2>1. planet = [p \in Planet |-> R]
    BY DEF Init
  <2>2. DOMAIN R = Fields /\ R.owner = None /\ R.portal = FALSE
    BY DEF Fields
  <2> HIDE DEF R
  <2> QED BY <2>1, <2>2 DEF PlanetsTyped
<1>2. ListsTyped /\ SpareTyped
  BY PlanetsConstants DEF Init, ListsTyped, SpareTyped
<1>3. \A u \in Player, p \in Planet : Due(u, p) = 0
  BY PlanetsConstants DEF Init, Due
<1>4. ASSUME NEW u \in Player, NEW p \in Planet PROVE Entries(list[u], p) = 0
  <2>1. list[u] = <<>> /\ list[u] \in Seq(Entry)
    BY DEF Init
  <2>2. Places(list[u], p) = {}
    BY <2>1 DEF Places
  <2> QED BY <2>1, <2>2, Spots
<1>5. OwnerLists
  BY <1>3, <1>4, Mirrored
<1> QED BY <1>1, <1>2, <1>5 DEF IInv

(* An owner other than nobody is a player. *)
LEMMA OwnerIsPlayer ==
  ASSUME IInv, NEW p \in Planet, planet[p].owner # None
  PROVE  planet[p].owner \in Player
BY DEF IInv, PlanetsTyped

LEMMA JoinKeeps ==
  ASSUME IInv, NEW u \in Player, NEW h \in Home, Join(u, h)
  PROVE  IInv'
<1> DEFINE R == [planet[h] EXCEPT !.owner = u, !.portal = TRUE]
           e == [planet |-> h, portal |-> TRUE]
<1>1. h \in Planet /\ planet[h].owner = None /\ e \in Entry /\ e.planet = h
  BY PlanetsConstants DEF Join, Entry
<1>2. Fit(R, u)
  BY <1>1 DEF Fit, Fields, IInv, PlanetsTyped
<1>3. planet' = [planet EXCEPT ![h] = R] /\ list' = [list EXCEPT ![u] = Append(list[u], e)]
  BY <1>1 DEF Join, IInv, PlanetsTyped, ListsTyped
<1>4. NoGift
  BY DEF Join, NoGift, wonders, history
<1> HIDE DEF R, e
<1> QED BY <1>1, <1>2, <1>3, <1>4, Gains

(* An exploration and the gift of a civilisation: the planet explored is   *)
(* listed once more when it is in the gift.                                *)
LEMMA ExploreKeeps ==
  ASSUME IInv, NEW u \in Player, NEW p \in Planet, NEW gift \in Seq(Planet), Explore(u, p, gift)
  PROVE  IInv'
<1> DEFINE new == Append(gift, p)
           M == Longer(list[u], gift, p)
           G == ToSet(gift)
<1>1. \A w \in Player : list[w] \in Seq(Entry) /\ \A q \in Planet : Entries(list[w], q) = Due(w, q)
  BY Mirrored DEF IInv, ListsTyped
<1>2. IsInjective(gift) /\ G \subseteq Vacant /\ p \in Vacant /\ (p \in G => p \in ancient)
  <2>1. gift = <<>> => G = {}
    BY DEF ToSet
  <2> QED BY <2>1 DEF Explore, Gift
<1>3. ToSet(new) = G \cup {p}
  <2>1. /\ DOMAIN gift = 1 .. Len(gift) /\ DOMAIN new = 1 .. Len(gift) + 1 /\ Len(gift) \in Nat
        /\ \A k \in 1 .. Len(gift) : new[k] = gift[k]
        /\ new[Len(gift) + 1] = p
    OBVIOUS
  <2> HIDE DEF new
  <2> QED BY <2>1 DEF ToSet
<1>4. /\ planet' = [q \in Planet |-> IF q \in G \cup {p} THEN Owned(q, u) ELSE planet[q]]
      /\ list' = [list EXCEPT ![u] = M]
      /\ ancient' = ancient \ {p}
      /\ spare' = IF p \in G THEN [spare EXCEPT ![p] = u] ELSE spare
  BY <1>3 DEF Explore, Longer
<1>5. /\ M \in Seq(Entry)
      /\ \A q : Entries(M, q) = Entries(list[u], q) + Given(gift, p, q)
  <2>1. list[u] \in Seq(Entry) /\ IsInjective(gift)
    BY <1>1, <1>2
  <2> HIDE DEF G, new
  <2>2. M \in Seq(Entry)
    BY <2>1, Lengthened DEF IsLonger
  <2>3. \A q : Entries(M, q) = Entries(list[u], q) + Given(gift, p, q)
    BY <2>1, Extended
  <2> QED BY <2>2, <2>3
<1> HIDE DEF M, new, G
<1>6. PlanetsTyped' /\ \A q \in Planet : planet'[q].owner = IF q \in G \cup {p} THEN u ELSE planet[q].owner
  <2>1. \A q \in Planet : /\ DOMAIN Owned(q, u) = Fields /\ Owned(q, u).owner = u
                          /\ Owned(q, u).portal = FALSE
    BY Records DEF IInv
  <2> QED BY <1>4, <2>1 DEF IInv, PlanetsTyped
<1>7. SpareTyped'
  BY <1>4 DEF IInv, SpareTyped
<1>8. ListsTyped' /\ \A w \in Player : list'[w] = IF w = u THEN M ELSE list[w]
  BY <1>4, <1>5 DEF IInv, ListsTyped
<1>9. \A w \in Player, q \in Planet : Entries(list'[w], q) = Due(w, q)'
  <2> TAKE w \in Player, q \in Planet
  <2>1. CASE w # u
    <3>1. spare'[q] = w <=> spare[q] = w
      BY <1>2, <1>4, <2>1, PlanetsConstants DEF IInv, SpareTyped
    <3>2. planet'[q].owner = w <=> planet[q].owner = w
      BY <1>2, <1>6, <2>1, PlanetsConstants DEF Vacant
    <3> QED BY <1>1, <1>8, <2>1, <3>1, <3>2 DEF Due
  <2>2. CASE w = u /\ q = p
    <3>1. planet[q].owner # u /\ planet'[q].owner = u
      BY <1>2, <1>6, <2>2, PlanetsConstants DEF Vacant
    <3>2. p \in G => spare[q] # u /\ spare'[q] = u
      BY <1>2, <1>4, <2>2, PlanetsConstants DEF IInv, SpareTyped
    <3>3. p \notin G => spare' = spare
      BY <1>4
    <3>4. Given(gift, p, q) = (IF p \in G THEN 1 ELSE 0) + 1
      BY <2>2 DEF Given, G
    <3> QED BY <1>1, <1>5, <1>8, <2>2, <3>1, <3>2, <3>3, <3>4 DEF Due
  <2>3. CASE w = u /\ q # p
    <3>1. spare'[q] = spare[q]
      BY <1>4, <2>3 DEF IInv, SpareTyped
    <3>2. q \in G => planet[q].owner # u /\ planet'[q].owner = u
      BY <1>2, <1>6, PlanetsConstants DEF Vacant
    <3>3. q \notin G => planet'[q].owner = planet[q].owner
      BY <1>6, <2>3
    <3>4. Due(w, q) \in Nat /\ Due(w, q)' = Due(w, q) + (IF q \in G THEN 1 ELSE 0)
      BY <2>3, <3>1, <3>2, <3>3 DEF Due
    <3>5. Given(gift, p, q) = IF q \in G THEN 1 ELSE 0
      BY <2>3 DEF Given, G
    <3> QED BY <1>1, <1>5, <1>8, <2>3, <3>4, <3>5
  <2> QED BY <2>1, <2>2, <2>3
<1>10. OwnerLists'
  BY <1>9, MirroredNext
<1> QED BY <1>6, <1>7, <1>8, <1>10 DEF IInv

(* What conquest, mind control and taking an offer share. *)
LEMMA PassesKeeps ==
  ASSUME IInv, NoGift, NEW u \in Player, NEW p \in Planet, planet[p].owner \notin {None, u},
         Passes(planet[p].owner, u, p)
  PROVE  IInv'
<1> DEFINE v == planet[p].owner  e == [planet |-> p, portal |-> FALSE]
<1>1. v \in Player /\ u # v /\ e \in Entry /\ e.planet = p
  BY OwnerIsPlayer DEF Entry
<1>2. Fit(Owned(p, u), u)
  BY Records DEF Fit, IInv
<1>3. /\ planet' = [planet EXCEPT ![p] = Owned(p, u)]
      /\ list' = [list EXCEPT ![v] = Unlisted(list[v], p), ![u] = Append(@, e)]
  BY DEF Passes
<1> HIDE DEF v, e
<1>4. planet[p].owner = v
  BY DEF v
<1> QED BY <1>1, <1>2, <1>3, <1>4, Moves

LEMMA TakeKeeps ==
  ASSUME IInv, NEW u \in Player, NEW p \in Planet, TakePlanet(u, p)
  PROVE  IInv'
<1> DEFINE v == planet[p].owner  e == [planet |-> p, portal |-> FALSE]
           R == [Owned(p, u) EXCEPT !.surrender = None]
<1>1. v \in Player /\ u # v /\ e \in Entry /\ e.planet = p
  BY OwnerIsPlayer DEF Entry, TakePlanet
<1>2. Fit(R, u)
  BY Records DEF Fit, Fields, IInv
<1>3. /\ planet' = [planet EXCEPT ![p] = R]
      /\ list' = [list EXCEPT ![v] = Unlisted(list[v], p), ![u] = Append(@, e)]
  BY DEF TakePlanet
<1>5. NoGift
  BY DEF TakePlanet, NoGift, wonders, history
<1> HIDE DEF v, e, R
<1>4. planet[p].owner = v
  BY DEF v
<1> QED BY <1>1, <1>2, <1>3, <1>4, <1>5, Moves

LEMMA NukeKeeps ==
  ASSUME IInv, NEW u \in Player, NEW p \in Planet, NukePlanet(u, p)
  PROVE  IInv'
<1>1. planet[p].owner \in Player
  BY OwnerIsPlayer DEF NukePlanet
<1>2. Fit(Owned(p, None), None)
  BY Records DEF Fit, IInv
<1>3. /\ planet' = [planet EXCEPT ![p] = Owned(p, None)]
      /\ list' = [list EXCEPT ![planet[p].owner] = Unlisted(list[planet[p].owner], p)]
      /\ NoGift
  BY DEF NukePlanet, Loses, NoGift, wonders, history
<1> QED BY <1>1, <1>2, <1>3, Frees

LEMMA HomeKeeps ==
  ASSUME IInv, NEW u \in Player, NEW h \in Home, ConquerHome(u, h)
  PROVE  IInv'
<1> DEFINE v == planet[h].owner
<1>1. h \in Planet /\ v \in Player
  BY OwnerIsPlayer, PlanetsConstants DEF ConquerHome
<1>2. CASE counted[v] = 1
  <2>1. Leaves(v, {h})
    BY <1>2 DEF ConquerHome
  <2> QED BY <1>1, <2>1, Left
<1>3. CASE counted[v] # 1
  <2>1. Fit(Surrendered(h), None)
    BY <1>1, Records DEF Fit, IInv, PlanetsTyped
  <2>2. /\ planet' = [planet EXCEPT ![h] = Surrendered(h)]
        /\ list' = [list EXCEPT ![v] = Unlisted(list[v], h)]
        /\ NoGift
    BY <1>3 DEF ConquerHome, Loses, NoGift, wonders, history
  <2> QED BY <1>1, <2>1, <2>2, Frees
<1> QED BY <1>2, <1>3

(* A list in which some entries get another flag. *)
LEMMA Reflagged ==
  ASSUME NEW L \in Seq(Entry), NEW M, M = [i \in DOMAIN L |-> M[i]],
         \A i \in DOMAIN L : M[i] \in Entry /\ M[i].planet = L[i].planet
  PROVE  M \in Seq(Entry) /\ DOMAIN M = DOMAIN L
OBVIOUS

LEMMA FlaggedKeeps ==
  ASSUME NEW L \in Seq(Entry), NEW p, NEW portal \in BOOLEAN
  PROVE  /\ Flagged(L, p, portal) \in Seq(Entry) /\ DOMAIN Flagged(L, p, portal) = DOMAIN L
         /\ \A i \in DOMAIN L : Flagged(L, p, portal)[i].planet = L[i].planet
<1> DEFINE k == At(L, p)
<1>1. CASE k = 0
  BY <1>1 DEF Flagged
<1>2. CASE k # 0
  <2>1. k \in 1 .. Len(L)
    BY <1>2, Found
  <2>2. Flagged(L, p, portal) = [L EXCEPT ![k].portal = portal]
    BY <1>2 DEF Flagged
  <2> HIDE DEF k
  <2>3. L[k] \in Entry
    BY <2>1
  <2>4. [L[k] EXCEPT !.portal = portal] \in Entry
        /\ [L[k] EXCEPT !.portal = portal].planet = L[k].planet
    BY <2>3 DEF Entry
  <2> QED BY <2>1, <2>2, <2>4
<1> QED BY <1>1, <1>2

LEMMA AddBuildKeeps ==
  ASSUME IInv, NEW u \in Player, NEW p \in Planet, NEW portal \in BOOLEAN, NEW qty,
         AddBuild(u, p, portal, qty)
  PROVE  IInv'
<1>1. PlanetsTyped' /\ \A q \in Planet : planet'[q].owner = planet[q].owner
  BY DEF AddBuild, IInv, PlanetsTyped, Fields
<1>2. /\ ListsTyped'
      /\ \A v \in Player : /\ DOMAIN list'[v] = DOMAIN list[v]
                           /\ \A i \in DOMAIN list[v] : list'[v][i].planet = list[v][i].planet
  <2>1. CASE portal
    <3> DEFINE M == Flagged(list[u], p, planet[p].portal)
    <3>1. list' = [list EXCEPT ![u] = M]
      BY <2>1 DEF AddBuild
    <3>2. /\ M \in Seq(Entry) /\ DOMAIN M = DOMAIN list[u]
          /\ \A i \in DOMAIN list[u] : M[i].planet = list[u][i].planet
      BY FlaggedKeeps DEF IInv, PlanetsTyped, ListsTyped
    <3> HIDE DEF M
    <3> QED BY <3>1, <3>2 DEF IInv, ListsTyped
  <2>2. CASE ~portal
    BY <2>2 DEF AddBuild, IInv, ListsTyped
  <2> QED BY <2>1, <2>2
<1>3. NoGift
  BY DEF AddBuild, NoGift, wonders, history
<1> QED BY <1>1, <1>2, <1>3, Stays

LEMMA RazeKeeps ==
  ASSUME IInv, NEW u \in Player, NEW p \in Planet, RazePortal(u, p)
  PROVE  IInv'
<1>1. PlanetsTyped' /\ \A q \in Planet : planet'[q].owner = planet[q].owner
  BY DEF RazePortal, IInv, PlanetsTyped, Fields
<1> DEFINE M == Flagged(list[u], p, FALSE)
<1>2. list' = [list EXCEPT ![u] = M]
  BY DEF RazePortal
<1>3. /\ M \in Seq(Entry) /\ DOMAIN M = DOMAIN list[u]
      /\ \A i \in DOMAIN list[u] : M[i].planet = list[u][i].planet
  BY FlaggedKeeps DEF IInv, ListsTyped
<1> HIDE DEF M
<1>4. /\ ListsTyped'
      /\ \A v \in Player : /\ DOMAIN list'[v] = DOMAIN list[v]
                           /\ \A i \in DOMAIN list[v] : list'[v][i].planet = list[v][i].planet
  BY <1>2, <1>3 DEF IInv, ListsTyped
<1>5. NoGift
  BY DEF RazePortal, NoGift, wonders, history
<1> QED BY <1>1, <1>4, <1>5, Stays

LEMMA OfferKeeps ==
  ASSUME IInv, NEW u \in Player, NEW v \in Player \cup {None}, NEW p \in Planet, OfferPlanet(u, v, p)
  PROVE  IInv'
<1>1. PlanetsTyped' /\ \A q \in Planet : planet'[q].owner = planet[q].owner
  BY DEF OfferPlanet, IInv, PlanetsTyped, Fields
<1>2. ListsTyped' /\ list' = list /\ NoGift
  BY DEF OfferPlanet, IInv, ListsTyped, NoGift, wonders, history
<1> QED BY <1>1, <1>2, Stays

LEMMA CancelKeeps ==
  ASSUME IInv, NEW u \in Player, NEW S, CancelBuilds(u, S)
  PROVE  IInv'
<1> DEFINE Q == queue[u]
           On(p) == {i \in S : Q[i].planet = p}
           Portals(p) == {i \in On(p) : Q[i].portal}
           L == list[u]
           M == [i \in DOMAIN L |-> IF Portals(L[i].planet) = {} \/ At(L, L[i].planet) # i THEN L[i]
                                    ELSE [L[i] EXCEPT !.portal = planet[L[i].planet].portal]]
<1>1. /\ planet' = [p \in Planet |-> [planet[p] EXCEPT !.construction = @ - Qty(Q, On(p)),
                                                       !.rising = @ /\ Portals(p) = {}]]
      /\ list' = [list EXCEPT ![u] = M]
      /\ NoGift
  BY DEF CancelBuilds, NoGift, wonders, history
<1> HIDE DEF On, Portals
<1>2. PlanetsTyped' /\ \A q \in Planet : planet'[q].owner = planet[q].owner
  BY <1>1 DEF IInv, PlanetsTyped, Fields
<1>3. L \in Seq(Entry)
  BY DEF IInv, ListsTyped
<1>4. \A i \in DOMAIN L : M[i] \in Entry /\ M[i].planet = L[i].planet
  <2> TAKE i \in DOMAIN L
  <2>1. L[i] \in Entry
    BY <1>3
  <2>2. planet[L[i].planet].portal \in BOOLEAN
    BY <2>1 DEF Entry, IInv, PlanetsTyped
  <2> QED BY <2>1, <2>2 DEF Entry
<1>5. M = [i \in DOMAIN L |-> M[i]]
  OBVIOUS
<1> HIDE DEF M
<1>7. M \in Seq(Entry) /\ DOMAIN M = DOMAIN L
  BY <1>3, <1>4, <1>5, Reflagged
<1>6. /\ ListsTyped'
      /\ \A v \in Player : /\ DOMAIN list'[v] = DOMAIN list[v]
                           /\ \A i \in DOMAIN list[v] : list'[v][i].planet = list[v][i].planet
  BY <1>1, <1>4, <1>7 DEF IInv, ListsTyped
<1> QED BY <1>1, <1>2, <1>6, Stays

(* The tick serves whoever comes next, player or not: nothing here depends *)
(* on the order.                                                           *)
LEMMA ServeKeeps ==
  ASSUME IInv, NoGift, NEW u, Serve(u)
  PROVE  IInv'
<1> DEFINE Q == [i \in DOMAIN queue[u] |-> [queue[u][i] EXCEPT !.left = @ - 1]]
           On(p) == {i \in Done(Q) : Q[i].planet = p}
           Portals(p) == {i \in On(p) : Q[i].portal}
           L == list[u]
           M == [i \in DOMAIN L |-> [L[i] EXCEPT !.portal = @ \/ (Portals(L[i].planet) # {}
                                                                    /\ At(L, L[i].planet) = i)]]
<1>1. /\ planet' = [p \in Planet |-> [planet[p] EXCEPT !.construction = @ - Qty(Q, On(p)),
                                                       !.rising = @ /\ Portals(p) = {},
                                                       !.portal = @ \/ Portals(p) # {}]]
      /\ list' = [list EXCEPT ![u] = M]
  BY DEF Serve
<1> HIDE DEF Q, On, Portals
<1>2. PlanetsTyped' /\ \A q \in Planet : planet'[q].owner = planet[q].owner
  BY <1>1 DEF IInv, PlanetsTyped, Fields
<1>3. CASE u \in Player
  <2>1. L \in Seq(Entry)
    BY <1>3 DEF IInv, ListsTyped
  <2>2. \A i \in DOMAIN L : M[i] \in Entry /\ M[i].planet = L[i].planet
    <3> TAKE i \in DOMAIN L
    <3>1. L[i] \in Entry
      BY <2>1
    <3> QED BY <3>1 DEF Entry
  <2>3. M = [i \in DOMAIN L |-> M[i]]
    OBVIOUS
  <2> HIDE DEF M
  <2>4. M \in Seq(Entry) /\ DOMAIN M = DOMAIN L
    BY <2>1, <2>2, <2>3, Reflagged
  <2>5. /\ ListsTyped'
        /\ \A v \in Player : /\ DOMAIN list'[v] = DOMAIN list[v]
                             /\ \A i \in DOMAIN list[v] : list'[v][i].planet = list[v][i].planet
    BY <1>1, <1>3, <2>2, <2>4 DEF IInv, ListsTyped
  <2> QED BY <1>2, <2>5, Stays
<1>4. CASE u \notin Player
  <2>1. ListsTyped' /\ list' = list
    BY <1>1, <1>4 DEF IInv, ListsTyped
  <2> QED BY <1>2, <2>1, Stays
<1> QED BY <1>3, <1>4

LEMMA Unmoved ==
  ASSUME IInv, NoGift, planet' = planet, list' = list
  PROVE  IInv'
<1>1. PlanetsTyped' /\ ListsTyped'
  BY DEF IInv, PlanetsTyped, ListsTyped
<1> QED BY <1>1, Stays

LEMMA StepKeeps == IInv /\ [Next]_vars => IInv'
<1> SUFFICES ASSUME IInv, [Next]_vars PROVE IInv'
  OBVIOUS
<1>1. CASE Tick \/ TickOn
  <2>1. PICK rest : ServeNext(rest)
    BY <1>1 DEF Tick, TickOn
  <2>5. NoGift
    BY <2>1 DEF ServeNext, NoGift, wonders, history
  <2>2. CASE planet' = planet /\ list' = list
    BY <2>2, <2>5, Unmoved
  <2>3. CASE \E u : Serve(u)
    BY <2>3, <2>5, ServeKeeps
  <2>4. (planet' = planet /\ list' = list) \/ \E u : Serve(u)
    BY <2>1 DEF ServeNext
  <2> QED BY <2>2, <2>3, <2>4
<1>2. ASSUME NEW u \in Player, NEW h \in Home, Join(u, h) \/ ConquerHome(u, h) PROVE IInv'
  BY <1>2, JoinKeeps, HomeKeeps
<1>3. ASSUME NEW u \in Player, Leave(u) PROVE IInv'
  BY <1>3, Left DEF Leave
<1>4. ASSUME NEW u \in Player, NEW S \in SUBSET (1 .. MaxQueue), CancelBuilds(u, S) PROVE IInv'
  BY <1>4, CancelKeeps
<1>5. ASSUME NEW u \in Player, NEW p \in Planet,
             \/ \E portal \in BOOLEAN, qty \in 1 .. MaxQty : AddBuild(u, p, portal, qty)
             \/ RazePortal(u, p) \/ NukePlanet(u, p) \/ TakePlanet(u, p)
             \/ \E v \in Player \cup {None} : OfferPlanet(u, v, p)
      PROVE  IInv'
  BY <1>5, AddBuildKeeps, RazeKeeps, NukeKeeps, TakeKeeps, OfferKeeps
<1>6. ASSUME NEW u \in Player, NEW p \in Planet, Conquer(u, p) \/ MindControl(u, p) PROVE IInv'
  <2>1. planet[p].owner \notin {None, u} /\ Passes(planet[p].owner, u, p) /\ NoGift
    BY <1>6 DEF Conquer, MindControl, NoGift, wonders, history
  <2> QED BY <2>1, PassesKeeps
<1>7. ASSUME NEW u \in Player, NEW p \in Planet,
             NEW n \in 0 .. MaxGift, NEW gift \in [1 .. n -> Planet \ Home], Explore(u, p, gift)
      PROVE  IInv'
  <2>1. gift \in Seq(Planet)
    BY PlanetsConstants
  <2> QED BY <1>7, <2>1, ExploreKeeps
<1>8. ASSUME NEW u \in Player, NEW p \in Planet, LayWaste(u, p) PROVE IInv'
  <2>1. planet' = planet /\ list' = list /\ NoGift
    BY <1>8 DEF LayWaste, NoGift, history
  <2> QED BY <2>1, Unmoved
<1>9. CASE UNCHANGED vars
  <2>1. planet' = planet /\ list' = list /\ NoGift
    BY <1>9 DEF vars, NoGift, wonders, history
  <2> QED BY <2>1, Unmoved
<1> QED BY <1>1, <1>2, <1>3, <1>4, <1>5, <1>6, <1>7, <1>8, <1>9 DEF Next

(* A planet is in one place of its owner's list and in no other list:      *)
(* joining, exploring, conquest, mind control, nuking, offers, leaving and *)
(* being thrown out keep the map file and the players' files together.  The*)
(* gift of a civilisation (cmd.c:1190-1223) does not leave out the planet  *)
(* that is being explored, which is then listed a second time: the theorem *)
(* says that this is the only way to an entry too many, one for each such  *)
(* gift, and that the entry stays until the player is out of the game.     *)
THEOREM ListsNameOwners == Spec => []OwnerLists
<1>1. IInv => OwnerLists
  BY DEF IInv
<1> QED BY <1>1, Initially, StepKeeps, PTL DEF Spec

----------------------------------------------------------------------------
(* Sums.                                                                   *)


(* A fold over the subsets of a finite set, one element after another.     *)
Foldable(S, V, base, c, st) ==
  /\ IsFiniteSet(S) /\ base \in V
  /\ \A s \in SUBSET S : s # {} => c[s] \in s
  /\ \A x \in S, v \in V : st[<<x, v>>] \in V

IsFold(f, S, base, c, st) ==
  \A s \in SUBSET S : f[s] = IF s = {} THEN base ELSE st[<<c[s], f[s \ {c[s]}]>>]

LEMMA FoldExists ==
  ASSUME NEW S, NEW V, NEW base, NEW c, NEW st, Foldable(S, V, base, c, st)
  PROVE  \E f \in [SUBSET S -> V] : IsFold(f, S, base, c, st)
<1> DEFINE Upto(n) == {s \in SUBSET S : Cardinality(s) <= n}
           Good(n) == \E f \in [SUBSET S -> V] :
                        \A s \in Upto(n) : f[s] = IF s = {} THEN base ELSE st[<<c[s], f[s \ {c[s]}]>>]
           Bad == {n \in Nat : ~Good(n)}
<1>1. \A s \in SUBSET S : IsFiniteSet(s) /\ Cardinality(s) \in Nat /\ Cardinality(s) <= Cardinality(S)
  BY FS_Subset, FS_CardinalityType DEF Foldable
<1>2. \A s \in SUBSET S : s # {} => /\ s \ {c[s]} \in SUBSET S
                                    /\ Cardinality(s \ {c[s]}) = Cardinality(s) - 1
  BY <1>1, FS_RemoveElement DEF Foldable
<1>3. ASSUME NEW n \in Nat, \A m \in Nat : m < n => Good(m) PROVE Good(n)
  <2>1. CASE n = 0
    <3>1. \A s \in Upto(0) : s = {}
      BY <1>1, FS_EmptySet
    <3>2. [s \in SUBSET S |-> base] \in [SUBSET S -> V]
      BY DEF Foldable
    <3> QED BY <2>1, <3>1, <3>2
  <2>2. CASE n # 0
    <3>1. n - 1 \in Nat /\ n - 1 < n
      BY <2>2
    <3>2. PICK g \in [SUBSET S -> V] :
            \A s \in Upto(n - 1) : g[s] = IF s = {} THEN base ELSE st[<<c[s], g[s \ {c[s]}]>>]
      BY <1>3, <3>1
    <3> DEFINE f == [s \in SUBSET S |-> IF s = {} THEN base ELSE st[<<c[s], g[s \ {c[s]}]>>]]
    <3>3. f \in [SUBSET S -> V]
      <4>1. \A s \in SUBSET S : s # {} => c[s] \in S /\ g[s \ {c[s]}] \in V
        BY <1>2 DEF Foldable
      <4> QED BY <4>1 DEF Foldable
    <3>4. \A s \in Upto(n - 1) : f[s] = g[s]
      BY <3>2
    <3>5. \A s \in Upto(n) : s # {} => s \ {c[s]} \in Upto(n - 1)
      BY <1>1, <1>2, <3>1
    <3>6. \A s \in Upto(n) : f[s] = IF s = {} THEN base ELSE st[<<c[s], f[s \ {c[s]}]>>]
      <4> TAKE s \in Upto(n)
      <4>1. CASE s = {}
        BY <4>1
      <4>2. CASE s # {}
        BY <3>4, <3>5, <4>2
      <4> QED BY <4>1, <4>2
    <3> HIDE DEF f, Upto
    <3> QED BY <3>3, <3>6
  <2> QED BY <2>1, <2>2
<1>4. Bad = {}
  <2> HIDE DEF Good
  <2> SUFFICES ASSUME Bad # {} PROVE FALSE
    OBVIOUS
  <2>1. PICK n \in Bad : \A m \in Bad : n <= m
    <3>1. Bad \in SUBSET Nat
      OBVIOUS
    <3> HIDE DEF Bad
    <3> QED BY <3>1, Least
  <2>2. \A m \in Nat : m < n => Good(m)
    BY <2>1
  <2> QED BY <1>3, <2>1, <2>2
<1>5. Cardinality(S) \in Nat /\ Upto(Cardinality(S)) = SUBSET S
  BY <1>1 DEF Foldable
<1> HIDE DEF Upto
<1>6. Good(Cardinality(S))
  BY <1>4, <1>5
<1> QED BY <1>5, <1>6 DEF IsFold

(* What holds of the empty set, and of a set once it holds without one of  *)
(* its elements, holds of every subset.                                    *)
Grows(S, G) == \A s \in SUBSET S : (\A x \in s : s \ {x} \in G) => s \in G

LEMMA SetInduction ==
  ASSUME NEW S, IsFiniteSet(S), NEW G, Grows(S, G)
  PROVE  SUBSET S \subseteq G
<1> DEFINE Bad == {n \in Nat : \E s \in SUBSET S : s \notin G /\ Cardinality(s) = n}
<1>1. \A s \in SUBSET S : IsFiniteSet(s) /\ Cardinality(s) \in Nat
  BY FS_Subset, FS_CardinalityType
<1>2. SUFFICES ASSUME Bad # {} PROVE FALSE
  BY <1>1
<1>3. PICK n \in Bad : \A m \in Bad : n <= m
  <2>1. Bad \in SUBSET Nat
    OBVIOUS
  <2> HIDE DEF Bad
  <2> QED BY <1>2, <2>1, Least
<1>4. PICK s \in SUBSET S : s \notin G /\ Cardinality(s) = n
  OBVIOUS
<1>5. PICK x \in s : s \ {x} \notin G
  BY <1>4 DEF Grows
<1>6. s \ {x} \in SUBSET S /\ Cardinality(s \ {x}) = n - 1
  BY <1>1, <1>4, FS_RemoveElement
<1>7. n - 1 \in Bad
  BY <1>1, <1>5, <1>6
<1> QED BY <1>3, <1>7

(* The sums that MapThenSumSet computes, one element after another.        *)
Chosen(s) == CHOOSE x \in s : TRUE
Weighed(Q, S) == IsFiniteSet(S) /\ \A i \in S : Q[i].qty \in Nat
Sums(f, Q, S) == \A s \in SUBSET S :
                   f[s] = IF s = {} THEN 0 ELSE Q[Chosen(s)].qty + f[s \ {Chosen(s)}]

LEMMA SumsExist ==
  ASSUME NEW Q, NEW S, Weighed(Q, S)
  PROVE  \E f \in [SUBSET S -> Nat] : Sums(f, Q, S)
<1> DEFINE c == [s \in SUBSET S |-> Chosen(s)]
           st == [z \in S \X Nat |-> Q[z[1]].qty + z[2]]
<1>1. \A s \in SUBSET S : c[s] = Chosen(s) /\ (s # {} => c[s] \in s)
  BY DEF Chosen
<1>2. \A x \in S, v \in Nat : st[<<x, v>>] = Q[x].qty + v /\ st[<<x, v>>] \in Nat
  BY DEF Weighed
<1>3. Foldable(S, Nat, 0, c, st)
  BY <1>1, <1>2 DEF Foldable, Weighed
<1> HIDE DEF c, st
<1>4. PICK f \in [SUBSET S -> Nat] : IsFold(f, S, 0, c, st)
  BY <1>3, FoldExists
<1>5. Sums(f, Q, S)
  <2> SUFFICES ASSUME NEW s \in SUBSET S
               PROVE  f[s] = IF s = {} THEN 0 ELSE Q[Chosen(s)].qty + f[s \ {Chosen(s)}]
    BY DEF Sums
  <2>1. CASE s = {}
    BY <1>4, <2>1 DEF IsFold
  <2>2. CASE s # {}
    <3>1. Chosen(s) \in S /\ f[s \ {Chosen(s)}] \in Nat
      BY <1>1, <2>2
    <3>2. f[s] = st[<<Chosen(s), f[s \ {Chosen(s)}]>>]
      BY <1>1, <1>4, <2>2 DEF IsFold
    <3> QED BY <1>2, <2>2, <3>1, <3>2
  <2> QED BY <2>1, <2>2
<1> QED BY <1>5

LEMMA SumsSame ==
  ASSUME NEW Q, NEW S, Weighed(Q, S), NEW T \in SUBSET S,
         NEW f, Sums(f, Q, S), NEW g, Sums(g, Q, T)
  PROVE  g[T] = f[T]
<1> DEFINE G == {s \in SUBSET T : g[s] = f[s]}
<1>1. ASSUME NEW s \in SUBSET T, \A x \in s : s \ {x} \in G PROVE s \in G
  <2>1. g[s] = f[s]
    <3>1. CASE s = {}
      BY <3>1 DEF Sums
    <3>2. CASE s # {}
      <4>1. Chosen(s) \in s
        BY <3>2 DEF Chosen
      <4> QED BY <1>1, <3>2, <4>1 DEF Sums
    <3> QED BY <3>1, <3>2
  <2> QED BY <2>1
<1> HIDE DEF G
<1>2. Grows(T, G)
  BY <1>1 DEF Grows
<1>3. IsFiniteSet(T)
  BY FS_Subset DEF Weighed
<1>4. SUBSET T \subseteq G
  BY <1>2, <1>3, SetInduction
<1> QED BY <1>4 DEF G

LEMMA QtyFold ==
  ASSUME NEW Q, NEW S, Weighed(Q, S)
  PROVE  /\ Qty(Q, {}) = 0
         /\ \A s \in SUBSET S : Qty(Q, s) \in Nat
         /\ \A s \in SUBSET S : s # {} => /\ Chosen(s) \in s
                                          /\ Qty(Q, s) = Q[Chosen(s)].qty + Qty(Q, s \ {Chosen(s)})
<1>1. PICK f \in [SUBSET S -> Nat] : Sums(f, Q, S)
  BY SumsExist
<1>2. ASSUME NEW T \in SUBSET S PROVE Qty(Q, T) = f[T]
  <2> DEFINE is(g) == g = [s \in SUBSET T |->
                             IF s = {} THEN 0
                             ELSE Q[CHOOSE x \in s : TRUE].qty + g[s \ {CHOOSE x \in s : TRUE}]]
             it == CHOOSE g : is(g)
             g0 == [s \in SUBSET T |-> f[s]]
  <2>1. \A s \in SUBSET T : g0[s] = f[s] /\ g0[s \ {CHOOSE x \in s : TRUE}] = f[s \ {CHOOSE x \in s : TRUE}]
    OBVIOUS
  <2>2. is(g0)
    BY <1>1, <2>1 DEF Sums, Chosen
  <2>3. is(it)
    BY <2>2
  <2>4. Qty(Q, T) = it[T]
    BY DEF Qty, MapThenSumSet, MapThenFoldSet
  <2> HIDE DEF it
  <2>5. Sums(it, Q, T)
    BY <2>3 DEF Sums, Chosen
  <2> QED BY <1>1, <2>4, <2>5, SumsSame
<1>3. \A s \in SUBSET S : s # {} => Chosen(s) \in s
  BY DEF Chosen
<1> QED BY <1>1, <1>2, <1>3 DEF Sums

LEMMA QtyAdds ==
  ASSUME NEW Q, NEW S, Weighed(Q, S), NEW x \in S
  PROVE  /\ Qty(Q, S) = Q[x].qty + Qty(Q, S \ {x}) /\ Qty(Q, S \ {x}) \in Nat
         /\ Qty(Q, S) \in Nat /\ Q[x].qty \in Nat
<1> DEFINE G == {s \in SUBSET S : \A y \in s : Qty(Q, s) = Q[y].qty + Qty(Q, s \ {y})}
<1>1. ASSUME NEW s \in SUBSET S, \A y \in s : s \ {y} \in G PROVE s \in G
  <2> SUFFICES ASSUME NEW y \in s PROVE Qty(Q, s) = Q[y].qty + Qty(Q, s \ {y})
    OBVIOUS
  <2> DEFINE z == Chosen(s)
  <2>1. z \in s /\ Qty(Q, s) = Q[z].qty + Qty(Q, s \ {z})
    BY QtyFold
  <2>2. Q[z].qty \in Nat /\ Q[y].qty \in Nat
    BY <2>1 DEF Weighed
  <2> HIDE DEF z
  <2>3. CASE y = z
    BY <2>1, <2>3
  <2>4. CASE y # z
    <3>1. (s \ {z}) \ {y} = (s \ {y}) \ {z} /\ (s \ {z}) \ {y} \in SUBSET S
      OBVIOUS
    <3>2. Qty(Q, s \ {z}) = Q[y].qty + Qty(Q, (s \ {z}) \ {y})
      BY <1>1, <2>1, <2>4
    <3>3. Qty(Q, s \ {y}) = Q[z].qty + Qty(Q, (s \ {y}) \ {z})
      BY <1>1, <2>1, <2>4
    <3>4. Qty(Q, (s \ {z}) \ {y}) \in Nat
      BY <3>1, QtyFold
    <3>5. Qty(Q, (s \ {z}) \ {y}) = Qty(Q, (s \ {y}) \ {z})
      BY <3>1
    <3> QED BY <2>1, <2>2, <3>2, <3>3, <3>4, <3>5
  <2> QED BY <2>3, <2>4
<1> HIDE DEF G
<1>2. Grows(S, G)
  BY <1>1 DEF Grows
<1>3. SUBSET S \subseteq G
  BY <1>2, SetInduction DEF Weighed
<1>4. S \in G
  BY <1>3
<1>5. Qty(Q, S) \in Nat /\ Qty(Q, S \ {x}) \in Nat
  BY QtyFold
<1> QED BY <1>4, <1>5 DEF G, Weighed

(* A sum over other places of the same weights.                            *)
LEMMA QtyMoves ==
  ASSUME NEW Q, NEW R, NEW T, Weighed(R, T), NEW m,
         \A i, j \in T : m[i] = m[j] => i = j,
         \A i \in T : Q[m[i]].qty = R[i].qty
  PROVE  Qty(R, T) = Qty(Q, {m[i] : i \in T})
<1> DEFINE img(t) == {m[i] : i \in t}
           G == {t \in SUBSET T : Qty(R, t) = Qty(Q, img(t))}
<1>1. ASSUME NEW t \in SUBSET T, \A y \in t : t \ {y} \in G PROVE t \in G
  <2>1. CASE t = {}
    <3>1. img(t) = {}
      BY <2>1
    <3>2. Weighed(Q, {})
      BY FS_EmptySet DEF Weighed
    <3>3. Qty(R, t) = 0 /\ Qty(Q, img(t)) = 0
      BY <2>1, <3>1, <3>2, QtyFold
    <3> QED BY <3>3
  <2>2. CASE t # {}
    <3>1. PICK x \in t : TRUE
      BY <2>2
    <3>2. Weighed(R, t)
      BY FS_Subset DEF Weighed
    <3>3. IsFiniteSet(img(t))
        <4> DEFINE h == [i \in t |-> m[i]]
      <4>1. h \in Surjection(t, img(t))
        BY DEF Surjection
      <4> HIDE DEF h, img
      <4> QED BY <3>2, <4>1, FS_Surjection DEF Weighed
    <3>4. Weighed(Q, img(t)) /\ m[x] \in img(t)
      BY <3>2, <3>3 DEF Weighed
    <3>5. img(t) \ {m[x]} = img(t \ {x})
      OBVIOUS
    <3> HIDE DEF img
    <3>6. Qty(R, t) = R[x].qty + Qty(R, t \ {x})
      BY <3>2, QtyAdds
    <3>7. Qty(Q, img(t)) = Q[m[x]].qty + Qty(Q, img(t) \ {m[x]})
      BY <3>4, QtyAdds
    <3> QED BY <1>1, <3>5, <3>6, <3>7
  <2> QED BY <2>1, <2>2
<1> HIDE DEF G
<1>2. Grows(T, G)
  BY <1>1 DEF Grows
<1>3. SUBSET T \subseteq G
  BY <1>2, SetInduction DEF Weighed
<1> QED BY <1>3 DEF G

LEMMA QtySplits ==
  ASSUME NEW Q, NEW S, Weighed(Q, S), NEW A \in SUBSET S
  PROVE  /\ Qty(Q, S) = Qty(Q, A) + Qty(Q, S \ A)
         /\ Qty(Q, S) \in Nat /\ Qty(Q, A) \in Nat /\ Qty(Q, S \ A) \in Nat
<1> DEFINE G == {a \in SUBSET A : Qty(Q, S) = Qty(Q, a) + Qty(Q, S \ a)}
<1>0. \A s \in SUBSET S : Qty(Q, s) \in Nat
  BY QtyFold
<1>1. ASSUME NEW a \in SUBSET A, \A y \in a : a \ {y} \in G PROVE a \in G
  <2>1. CASE a = {}
    <3>1. Qty(Q, a) = 0 /\ S \ a = S
      BY <2>1, QtyFold
    <3> QED BY <1>0, <3>1
  <2>2. CASE a # {}
    <3>1. PICK x \in a : TRUE
      BY <2>2
    <3> DEFINE b == a \ {x}
    <3>2. Qty(Q, S) = Qty(Q, b) + Qty(Q, S \ b)
      BY <1>1
    <3>3. Weighed(Q, a) /\ Weighed(Q, S \ b) /\ x \in S \ b
      BY FS_Subset DEF Weighed
    <3>4. (S \ b) \ {x} = S \ a
      OBVIOUS
    <3> HIDE DEF b
    <3>5. Qty(Q, a) = Q[x].qty + Qty(Q, a \ {x}) /\ Q[x].qty \in Nat
      BY <3>3, QtyAdds
    <3>6. Qty(Q, S \ b) = Q[x].qty + Qty(Q, S \ a) /\ Qty(Q, S \ a) \in Nat
      <4>1. Qty(Q, S \ b) = Q[x].qty + Qty(Q, (S \ b) \ {x}) /\ Qty(Q, (S \ b) \ {x}) \in Nat
        BY <3>3, QtyAdds
      <4> QED BY <3>4, <4>1
    <3>7. Qty(Q, a \ {x}) \in Nat
      BY <1>0
    <3> QED BY <3>2, <3>5, <3>6, <3>7 DEF b
  <2> QED BY <2>1, <2>2
<1> HIDE DEF G
<1>2. Grows(A, G)
  BY <1>1 DEF Grows
<1>3. IsFiniteSet(A)
  BY FS_Subset DEF Weighed
<1>4. SUBSET A \subseteq G
  BY <1>2, <1>3, SetInduction
<1> QED BY <1>0, <1>4 DEF G

LEMMA Greatest ==
  ASSUME NEW K \in Nat, NEW T \in SUBSET (0 .. K), T # {}
  PROVE  \E x \in T : \A y \in T : y <= x
<1> DEFINE D == {K - x : x \in T}
<1>1. \A x \in T : x \in Nat /\ K - x \in Nat
  OBVIOUS
<1>2. D \in SUBSET Nat
  BY <1>1
<1>3. D # {}
  OBVIOUS
<1>4. PICK d \in D : \A y \in D : d <= y
  <2> HIDE DEF D
  <2> QED BY <1>2, <1>3, Least
<1>5. PICK x \in T : d = K - x
  OBVIOUS
<1>6. ASSUME NEW y \in T PROVE y <= x
  <2>1. K - y \in D
    OBVIOUS
  <2>2. K - x <= K - y
    BY <1>4, <1>5, <2>1
  <2> QED BY <1>1, <2>2
<1> QED BY <1>6

----------------------------------------------------------------------------
(* Arrays that lose elements.                                              *)

LEMMA SwapRemoved ==
  ASSUME NEW X, NEW s \in Seq(X), NEW i \in 1 .. Len(s)
  PROVE  /\ SwapRemove(s, i) \in Seq(X) /\ Len(SwapRemove(s, i)) = Len(s) - 1
         /\ \A k \in 1 .. Len(s) - 1 : SwapRemove(s, i)[k] = IF k = i THEN s[Len(s)] ELSE s[k]
<1> DEFINE n == Len(s)  M == SwapRemove(s, i)
<1>1. n \in Nat \ {0} /\ s[n] \in X
  OBVIOUS
<1>2. /\ Front(s) \in Seq(X) /\ Len(Front(s)) = n - 1
      /\ \A k \in 1 .. n - 1 : Front(s)[k] = s[k]
  <2>1. Front(s) = SubSeq(s, 1, n - 1)
    BY DEF Front
  <2>2. 1 \in 1 .. n + 1 /\ n - 1 \in 0 .. n /\ n = Len(s)
    BY <1>1
  <2> HIDE DEF n
  <2>3. /\ SubSeq(s, 1, n - 1) \in Seq(X) /\ Len(SubSeq(s, 1, n - 1)) = n - 1
        /\ \A k \in 1 .. n - 1 : SubSeq(s, 1, n - 1)[k] = s[k]
    BY <1>1, <2>2
  <2> QED BY <2>1, <2>3
<1>3. CASE i < n
  <2>1. M = [Front(s) EXCEPT ![i] = s[n]]
    BY <1>3 DEF SwapRemove, Last
  <2> HIDE DEF M
  <2> QED BY <1>1, <1>2, <1>3, <2>1 DEF M
<1>4. CASE i = n
  <2>1. M = Front(s)
    BY <1>1, <1>4 DEF SwapRemove
  <2> HIDE DEF M
  <2> QED BY <1>1, <1>2, <1>4, <2>1 DEF M
<1> QED BY <1>1, <1>3, <1>4

LEMMA SwapRemoveType ==
  ASSUME NEW X, NEW s \in Seq(X), NEW i \in Nat \ {0}
  PROVE  SwapRemove(s, i) \in Seq(X)
<1>1. CASE i <= Len(s)
  BY <1>1, SwapRemoved
<1>2. CASE ~(i <= Len(s))
  <2>1. SwapRemove(s, i) = Front(s)
    BY <1>2 DEF SwapRemove
  <2>2. Front(s) \in Seq(X)
    <3>1. CASE Len(s) = 0
      <4>1. s = <<>> /\ Front(s) = <<>>
        BY <3>1 DEF Front
      <4> QED BY <4>1
    <3>2. CASE Len(s) # 0
      BY <3>2 DEF Front
    <3> QED BY <3>1, <3>2
  <2> QED BY <2>1, <2>2
<1> QED BY <1>1, <1>2

(* W has the elements that s has at the places K, each of them once.       *)
Reindexed(W, s, m, K) ==
  /\ \A j \in 1 .. Len(W) : m[j] \in K /\ W[j] = s[m[j]]
  /\ \A i, j \in 1 .. Len(W) : m[i] = m[j] => i = j
  /\ \A k \in K : \E j \in 1 .. Len(W) : m[j] = k

(* A walk from the end that has come down to place n - k.                  *)
Walked(W, s, S, k) ==
  LET n == Len(s)
  IN  /\ Len(W) >= n - k
      /\ \E m : /\ Reindexed(W, s, m, (1 .. n) \ {i \in S : i > n - k})
                /\ \A j \in 1 .. n - k : m[j] = j

LEMMA WalkStarts ==
  ASSUME NEW X, NEW s \in Seq(X), NEW S
  PROVE  Walked(s, s, S, 0)
<1> DEFINE m == [j \in 1 .. Len(s) |-> j]
<1>1. Len(s) \in Nat /\ (1 .. Len(s)) \ {i \in S : i > Len(s) - 0} = 1 .. Len(s)
  OBVIOUS
<1>2. Reindexed(s, s, m, 1 .. Len(s)) /\ \A j \in 1 .. Len(s) : m[j] = j
  BY <1>1 DEF Reindexed
<1> HIDE DEF m
<1>3. Reindexed(s, s, m, (1 .. Len(s)) \ {i \in S : i > Len(s) - 0})
  BY <1>1, <1>2
<1>4. Len(s) >= Len(s) - 0 /\ \A j \in 1 .. Len(s) - 0 : m[j] = j
  BY <1>1, <1>2
<1> QED BY <1>3, <1>4 DEF Walked

LEMMA WalkStep ==
  ASSUME NEW X, NEW s \in Seq(X), NEW S, NEW k \in Nat, k < Len(s),
         NEW W \in Seq(X), Walked(W, s, S, k)
  PROVE  LET i == Len(s) - k
         IN  Walked(IF i \in S THEN SwapRemove(W, i) ELSE W, s, S, k + 1)
<1> DEFINE n == Len(s)  i == n - k  L == Len(W)
           K == (1 .. n) \ {x \in S : x > n - k}
           J == (1 .. n) \ {x \in S : x > n - (k + 1)}
<1>1. n \in Nat /\ L \in Nat /\ i \in 1 .. n /\ i <= L /\ n - (k + 1) = i - 1
  BY DEF Walked
<1>2. PICK m : Reindexed(W, s, m, K) /\ \A j \in 1 .. n - k : m[j] = j
  BY DEF Walked
<1>3. J = IF i \in S THEN K \ {i} ELSE K
  BY <1>1
<1>4. m[i] = i /\ i \in 1 .. L
  BY <1>1, <1>2
<1>5. CASE i \notin S
  <2>1. \A j \in 1 .. n - (k + 1) : m[j] = j
    BY <1>1, <1>2
  <2>2. Len(W) >= n - (k + 1)
    BY <1>1
  <2> HIDE DEF K, J
  <2>3. Reindexed(W, s, m, J)
    BY <1>2, <1>3, <1>5
  <2>4. Walked(W, s, S, k + 1)
    BY <2>1, <2>2, <2>3 DEF Walked, J
  <2> QED BY <1>5, <2>4
<1>6. CASE i \in S
  <2> DEFINE R == SwapRemove(W, i)
             q == [j \in 1 .. L - 1 |-> IF j = i THEN m[L] ELSE m[j]]
  <2>1. Len(R) = L - 1 /\ \A j \in 1 .. L - 1 : R[j] = IF j = i THEN W[L] ELSE W[j]
    BY <1>4, SwapRemoved
  <2>2. \A j \in 1 .. L - 1 : q[j] = IF j = i THEN m[L] ELSE m[j]
    OBVIOUS
  <2> HIDE DEF R, q, K, J, i, L
  <2>3. /\ \A j \in 1 .. L : m[j] \in K /\ W[j] = s[m[j]]
        /\ \A a, b \in 1 .. L : m[a] = m[b] => a = b
        /\ \A x \in K : \E j \in 1 .. L : m[j] = x
    BY <1>2 DEF Reindexed, L
  <2>4. \A j \in 1 .. L - 1 : q[j] \in J /\ R[j] = s[q[j]]
    <3> TAKE j \in 1 .. L - 1
    <3>1. CASE j = i
      <4>1. q[j] = m[L] /\ R[j] = W[L] /\ L \in 1 .. L /\ L # i
        BY <1>1, <2>1, <2>2, <3>1
      <4>2. m[L] \in K /\ m[L] # i /\ W[L] = s[m[L]]
        BY <1>4, <2>3, <4>1
      <4> QED BY <1>3, <1>6, <4>1, <4>2
    <3>2. CASE j # i
      <4>1. q[j] = m[j] /\ R[j] = W[j] /\ j \in 1 .. L
        BY <1>1, <2>1, <2>2, <3>2
      <4>2. m[j] \in K /\ m[j] # i /\ W[j] = s[m[j]]
        BY <1>4, <2>3, <3>2, <4>1
      <4> QED BY <1>3, <1>6, <4>1, <4>2
    <3> QED BY <3>1, <3>2
  <2>5. \A a, b \in 1 .. L - 1 : q[a] = q[b] => a = b
    BY <1>1, <1>4, <2>2, <2>3
  <2>6. \A x \in J : \E j \in 1 .. L - 1 : q[j] = x
    <3> TAKE x \in J
    <3>1. x \in K /\ x # i
      BY <1>3, <1>6
    <3>2. PICK j \in 1 .. L : m[j] = x
      BY <2>3, <3>1
    <3>3. j # i
      BY <1>4, <3>1, <3>2
    <3>4. CASE j < L
      <4>1. j \in 1 .. L - 1 /\ q[j] = x
        BY <1>1, <2>2, <3>2, <3>3, <3>4
      <4> QED BY <4>1
    <3>5. CASE j = L
      <4>1. i \in 1 .. L - 1 /\ q[i] = x
        BY <1>1, <1>4, <2>2, <3>2, <3>3, <3>5
      <4> QED BY <4>1
    <3> QED BY <1>1, <3>4, <3>5
  <2>7. Reindexed(R, s, q, J)
    BY <2>1, <2>4, <2>5, <2>6 DEF Reindexed
  <2>8. \A j \in 1 .. n - (k + 1) : q[j] = j
    <3> TAKE j \in 1 .. n - (k + 1)
    <3>1. j \in 1 .. n - k /\ j \in 1 .. L - 1 /\ j # i
      BY <1>1
    <3> QED BY <1>2, <2>2, <3>1
  <2>9. Len(R) >= n - (k + 1)
    BY <1>1, <2>1
  <2>10. Walked(R, s, S, k + 1)
    BY <2>7, <2>8, <2>9 DEF Walked, J
  <2> QED BY <1>6, <2>10 DEF R, i
<1> QED BY <1>5, <1>6

(* What is left of an array after a walk over it.                          *)
LEMMA SweptIs ==
  ASSUME NEW X, NEW s \in Seq(X), NEW S
  PROVE  /\ Swept(s, S) \in Seq(X)
         /\ \E m : Reindexed(Swept(s, S), s, m, (1 .. Len(s)) \ S)
<1> DEFINE n == Len(s)
           D == 1 .. n
           seq == Reverse([i \in DOMAIN s |-> i])
           c == [t \in SUBSET D |-> Max(t)]
           after(w, i) == IF i \in S THEN SwapRemove(w, i) ELSE w
           st == [z \in D \X Seq(X) |-> after(z[2], n - z[1] + 1)]
           is(f) == f = [t \in SUBSET D |->
                           IF t = {} THEN s ELSE after(f[t \ {Max(t)}], seq[Max(t)])]
           it == CHOOSE f : is(f)
<1>1. n \in Nat /\ DOMAIN seq = D /\ \A k \in D : seq[k] = n - k + 1
  <2>1. [i \in DOMAIN s |-> i] \in Seq(Nat) /\ Len([i \in DOMAIN s |-> i]) = n
    OBVIOUS
  <2> QED BY <2>1 DEF Reverse
<1>2. ASSUME NEW t \in SUBSET D, t # {}
      PROVE  Max(t) \in t /\ \A y \in t : Max(t) >= y
  <2>1. t \in SUBSET (0 .. n)
    BY <1>1
  <2>2. \E x \in t : \A y \in t : y <= x
    BY <1>1, <1>2, <2>1, Greatest
  <2>3. \E x \in t : \A y \in t : x >= y
    BY <2>2
  <2> QED BY <2>3 DEF Max
<1>3. Foldable(D, Seq(X), s, c, st)
  <2>1. IsFiniteSet(D)
    BY <1>1, FS_Interval
  <2>2. \A x \in D, v \in Seq(X) : st[<<x, v>>] \in Seq(X)
    <3> TAKE x \in D, v \in Seq(X)
    <3>1. n - x + 1 \in Nat \ {0}
      BY <1>1
    <3>2. SwapRemove(v, n - x + 1) \in Seq(X)
      BY <3>1, SwapRemoveType
    <3>3. st[<<x, v>>] = after(v, n - x + 1)
      OBVIOUS
    <3> QED BY <3>2, <3>3
  <2>3. \A t \in SUBSET D : t # {} => c[t] \in t
    BY <1>2
  <2> HIDE DEF c, st, D
  <2> QED BY <2>1, <2>2, <2>3 DEF Foldable
<1>4. PICK f \in [SUBSET D -> Seq(X)] : IsFold(f, D, s, c, st)
  <2> HIDE DEF c, st, D
  <2> QED BY <1>3, FoldExists
<1>5. \A t \in SUBSET D : f[t] = IF t = {} THEN s ELSE after(f[t \ {Max(t)}], seq[Max(t)])
  <2> TAKE t \in SUBSET D
  <2>1. CASE t = {}
    BY <1>4, <2>1 DEF IsFold
  <2>2. CASE t # {}
    <3>1. Max(t) \in D /\ f[t \ {Max(t)}] \in Seq(X)
      BY <1>2, <2>2
    <3>2. f[t] = st[<<Max(t), f[t \ {Max(t)}]>>]
      BY <1>4, <2>2 DEF IsFold
    <3>3. st[<<Max(t), f[t \ {Max(t)}]>>] = after(f[t \ {Max(t)}], n - Max(t) + 1)
      BY <3>1
    <3> QED BY <1>1, <2>2, <3>1, <3>2, <3>3
  <2> QED BY <2>1, <2>2
<1>6. is(f)
  BY <1>5
<1>7. is(it)
  BY <1>6
<1>8. Swept(s, S) = it[D]
  BY <1>1 DEF Swept, FoldLeft, MapThenFoldSet
<1>9. \A t \in SUBSET D : it[t] = IF t = {} THEN s ELSE after(it[t \ {Max(t)}], seq[Max(t)])
  <2> HIDE DEF it
  <2> QED BY <1>7
<1> HIDE DEF it, seq
<1>10. \A k \in Nat : k <= n => 1 .. k \in SUBSET D
  BY <1>1
<1>11. it[1 .. 0] = s
  <2>1. 1 .. 0 = {} /\ {} \in SUBSET D
    OBVIOUS
  <2> HIDE DEF D
  <2> QED BY <1>9, <2>1
<1>12. ASSUME NEW k \in Nat, k < n
       PROVE  it[1 .. k + 1] = after(it[1 .. k], n - k)
  <2>1. 1 .. k + 1 \in SUBSET D /\ 1 .. k + 1 # {}
    <3>1. k + 1 \in Nat /\ k + 1 <= n /\ 1 \in 1 .. k + 1
      BY <1>1, <1>12
    <3> QED BY <1>10, <3>1
  <2>2. Max(1 .. k + 1) \in 1 .. k + 1 /\ \A y \in 1 .. k + 1 : Max(1 .. k + 1) >= y
    BY <1>2, <2>1
  <2>3. Max(1 .. k + 1) = k + 1
    BY <2>2
  <2>4. (1 .. k + 1) \ {k + 1} = 1 .. k /\ k + 1 \in D /\ n - (k + 1) + 1 = n - k
    BY <1>1, <1>12
  <2>5. seq[k + 1] = n - k
    BY <1>1, <2>4
  <2> HIDE DEF D
  <2> QED BY <1>9, <2>1, <2>3, <2>4, <2>5
<1> DEFINE Good(k) == it[1 .. k] \in Seq(X) /\ Walked(it[1 .. k], s, S, k)
           Bad == {k \in Nat : k <= n /\ ~Good(k)}
<1>13. Good(0)
  BY <1>11, WalkStarts
<1>14. ASSUME NEW k \in Nat, k < n, Good(k) PROVE Good(k + 1)
  <2>1. n - k \in Nat \ {0}
    BY <1>1, <1>14
  <2>2. it[1 .. k + 1] \in Seq(X)
    <3>1. it[1 .. k] \in Seq(X)
      BY <1>14
    <3>2. SwapRemove(it[1 .. k], n - k) \in Seq(X)
      BY <2>1, <3>1, SwapRemoveType
    <3>3. it[1 .. k + 1] = IF n - k \in S THEN SwapRemove(it[1 .. k], n - k) ELSE it[1 .. k]
      BY <1>12, <1>14
    <3> QED BY <3>1, <3>2, <3>3
  <2>3. Walked(after(it[1 .. k], n - k), s, S, k + 1)
    <3> DEFINE W == it[1 .. k]
    <3>1. W \in Seq(X) /\ Walked(W, s, S, k)
      BY <1>14
    <3> HIDE DEF W
    <3>2. Walked(IF n - k \in S THEN SwapRemove(W, n - k) ELSE W, s, S, k + 1)
      BY <1>14, <3>1, WalkStep
    <3> QED BY <3>2 DEF W
  <2> QED BY <1>12, <1>14, <2>2, <2>3
<1>15. Bad = {}
  <2> HIDE DEF Good
  <2> SUFFICES ASSUME Bad # {} PROVE FALSE
    OBVIOUS
  <2>1. PICK k \in Bad : \A j \in Bad : k <= j
    <3>1. Bad \in SUBSET Nat
      OBVIOUS
    <3> HIDE DEF Bad
    <3> QED BY <3>1, Least
  <2>2. k # 0
    BY <1>13, <2>1
  <2>3. k - 1 \in Nat /\ k - 1 < n /\ (k - 1) + 1 = k /\ ~(k <= k - 1)
    BY <1>1, <2>1, <2>2
  <2>4. Good(k - 1)
    BY <1>1, <2>1, <2>3
  <2> QED BY <1>14, <2>1, <2>3, <2>4
<1>16. Good(n)
  BY <1>1, <1>15
<1>17. Walked(Swept(s, S), s, S, n) /\ Swept(s, S) \in Seq(X)
  BY <1>8, <1>16
<1>18. PICK m : Reindexed(Swept(s, S), s, m, (1 .. n) \ {i \in S : i > n - n})
  BY <1>17 DEF Walked
<1>19. (1 .. n) \ {i \in S : i > n - n} = (1 .. n) \ S
  BY <1>1
<1> QED BY <1>17, <1>18, <1>19

----------------------------------------------------------------------------
(* What a queue has for a planet.                                          *)

\* A build of a queue, also at the moment when its time has come.
Loose == [planet: Planet, portal: BOOLEAN, qty: 1 .. MaxQty, left: 0 .. Time]

Out(Q, S, p) == {i \in S : Q[i].planet = p}
Work(Q, p) == Qty(Q, Places(Q, p))
Promised(Q, p) == \E i \in DOMAIN Q : Q[i].planet = p /\ Q[i].portal
Alike(Q, R, p) == /\ Places(R, p) = {} <=> Places(Q, p) = {}
                  /\ Work(R, p) = Work(Q, p)
                  /\ Promised(R, p) <=> Promised(Q, p)

LEMMA QueueWeighed ==
  ASSUME NEW Q \in Seq(Loose), NEW T \in SUBSET DOMAIN Q
  PROVE  Weighed(Q, T)
<1>1. DOMAIN Q = 1 .. Len(Q) /\ Len(Q) \in Nat /\ \A i \in DOMAIN Q : Q[i] \in Loose
  OBVIOUS
<1>2. IsFiniteSet(1 .. Len(Q))
  BY <1>1, FS_Interval
<1>3. IsFiniteSet(T)
  BY <1>1, <1>2, FS_Subset
<1>4. \A i \in T : Q[i].qty \in 1 .. MaxQty /\ MaxQty \in Nat
  BY <1>1, PlanetsConstants DEF Loose
<1>5. \A i \in T : Q[i].qty \in Nat
  BY <1>4
<1> QED BY <1>3, <1>5 DEF Weighed

LEMMA QtyPositive ==
  ASSUME NEW Q, NEW P, Weighed(Q, P), \A k \in P : Q[k].qty > 0
  PROVE  Qty(Q, P) \in Nat /\ (Qty(Q, P) = 0 <=> P = {})
<1>1. CASE P = {}
  BY <1>1, QtyFold
<1>2. CASE P # {}
  <2>1. PICK k \in P : TRUE
    BY <1>2
  <2>2. Qty(Q, P) = Q[k].qty + Qty(Q, P \ {k}) /\ Qty(Q, P \ {k}) \in Nat /\ Q[k].qty \in Nat
    BY <2>1, QtyAdds
  <2> QED BY <1>2, <2>1, <2>2
<1> QED BY <1>1, <1>2

LEMMA NoWork ==
  ASSUME NEW Q \in Seq(Loose), NEW p
  PROVE  Work(Q, p) \in Nat /\ (Work(Q, p) = 0 <=> Places(Q, p) = {})
<1>1. Weighed(Q, Places(Q, p))
  BY QueueWeighed DEF Places
<1>2. \A k \in Places(Q, p) : Q[k].qty > 0
  <2> TAKE k \in Places(Q, p)
  <2>1. Q[k] \in Loose
    BY DEF Places
  <2>2. Q[k].qty \in 1 .. MaxQty /\ MaxQty \in Nat
    BY <2>1, PlanetsConstants DEF Loose
  <2> QED BY <2>2
<1> QED BY <1>1, <1>2, QtyPositive DEF Work

(* The same elements in other places.                                      *)
LEMMA QtyCopied ==
  ASSUME NEW Q, NEW R, NEW T, Weighed(R, T), \A i \in T : Q[i].qty = R[i].qty
  PROVE  Qty(R, T) = Qty(Q, T)
<1> DEFINE m == [i \in T |-> i]
<1>1. (\A i, j \in T : m[i] = m[j] => i = j) /\ (\A i \in T : Q[m[i]].qty = R[i].qty)
  OBVIOUS
<1>2. {m[i] : i \in T} = T
  OBVIOUS
<1> HIDE DEF m
<1> QED BY <1>1, <1>2, QtyMoves

LEMMA Queued ==
  ASSUME NEW Q \in Seq(Build), NEW b \in Build
  PROVE  /\ Append(Q, b) \in Seq(Build)
         /\ \A p : p # b.planet => Alike(Q, Append(Q, b), p)
         /\ Work(Append(Q, b), b.planet) = Work(Q, b.planet) + b.qty
         /\ Places(Append(Q, b), b.planet) # {}
         /\ Promised(Append(Q, b), b.planet) <=> Promised(Q, b.planet) \/ b.portal
<1> DEFINE R == Append(Q, b)  n == Len(Q) + 1
<1>1. Build \subseteq Loose
  BY PlanetsConstants DEF Build, Loose
<1>2. /\ R \in Seq(Build) /\ R \in Seq(Loose) /\ Q \in Seq(Loose)
      /\ DOMAIN R = DOMAIN Q \cup {n} /\ n \notin DOMAIN Q /\ R[n] = b
      /\ \A i \in DOMAIN Q : R[i] = Q[i]
  BY <1>1
<1> HIDE DEF R, n
<1>3. ASSUME NEW p PROVE Qty(R, Places(Q, p)) = Work(Q, p)
  <2>1. Weighed(R, Places(Q, p)) /\ \A i \in Places(Q, p) : Q[i].qty = R[i].qty
    BY <1>2, QueueWeighed DEF Places
  <2> QED BY <2>1, QtyCopied DEF Work
<1>4. \A p : Places(R, p) = IF p = b.planet THEN Places(Q, p) \cup {n} ELSE Places(Q, p)
  BY <1>2 DEF Places
<1>5. \A p : p # b.planet => Alike(Q, R, p)
  BY <1>2, <1>3, <1>4 DEF Alike, Work, Promised
<1>6. Work(R, b.planet) = Work(Q, b.planet) + b.qty
  <2> DEFINE P == Places(R, b.planet)
  <2>1. Weighed(R, P) /\ n \in P
    BY <1>2, <1>4, QueueWeighed DEF Places
  <2>2. P \ {n} = Places(Q, b.planet)
    BY <1>2, <1>4 DEF Places
  <2>3. Qty(R, P) = R[n].qty + Qty(R, P \ {n}) /\ Qty(R, P \ {n}) \in Nat /\ R[n].qty \in Nat
    BY <2>1, QtyAdds
  <2>4. Qty(R, P \ {n}) = Work(Q, b.planet)
    BY <1>3, <2>2
  <2>5. Work(R, b.planet) = Qty(R, P)
    BY DEF Work
  <2> HIDE DEF P
  <2> QED BY <1>2, <2>3, <2>4, <2>5
<1>7. Places(R, b.planet) # {} /\ (Promised(R, b.planet) <=> Promised(Q, b.planet) \/ b.portal)
  BY <1>2, <1>4 DEF Promised
<1> QED BY <1>2, <1>5, <1>6, <1>7 DEF R

(* The queue after a walk that removes the builds at the places S.         *)
LEMMA WorkSwept ==
  ASSUME NEW Q \in Seq(Loose), NEW S \in SUBSET DOMAIN Q, NEW R, R = Swept(Q, S)
  PROVE  /\ R \in Seq(Loose)
         /\ \A j \in DOMAIN R : \E i \in DOMAIN Q \ S : R[j] = Q[i]
         /\ \A i \in DOMAIN Q \ S : \E j \in DOMAIN R : R[j] = Q[i]
         /\ \A p : /\ Work(Q, p) = Work(R, p) + Qty(Q, Out(Q, S, p))
                   /\ Work(R, p) \in Nat /\ Qty(Q, Out(Q, S, p)) \in Nat
                   /\ Out(Q, S, p) = {} => Alike(Q, R, p)
<1> DEFINE K == (1 .. Len(Q)) \ S
<1>1. R \in Seq(Loose) /\ DOMAIN R = 1 .. Len(R) /\ DOMAIN Q = 1 .. Len(Q)
  <2>1. R \in Seq(Loose)
    BY SweptIs
  <2> QED BY <2>1
<1>2. PICK m : Reindexed(R, Q, m, K)
  BY SweptIs
<1>3. /\ \A j \in DOMAIN R : m[j] \in DOMAIN Q \ S /\ R[j] = Q[m[j]]
      /\ \A i, j \in DOMAIN R : m[i] = m[j] => i = j
      /\ \A k \in DOMAIN Q \ S : \E j \in DOMAIN R : m[j] = k
  BY <1>1, <1>2 DEF Reindexed
<1>4. \A i \in DOMAIN Q \ S : \E j \in DOMAIN R : R[j] = Q[i]
  BY <1>3
<1>5. ASSUME NEW p
      PROVE  /\ Work(Q, p) = Work(R, p) + Qty(Q, Out(Q, S, p))
             /\ Work(R, p) \in Nat /\ Qty(Q, Out(Q, S, p)) \in Nat
             /\ Out(Q, S, p) = {} => Alike(Q, R, p)
  <2> DEFINE A == Out(Q, S, p)  P == Places(Q, p)  T == Places(R, p)
  <2>1. Weighed(R, T) /\ Weighed(Q, P) /\ A \in SUBSET P
    BY <1>1, QueueWeighed DEF Places, Out
  <2>2. /\ \A i, j \in T : m[i] = m[j] => i = j
        /\ \A i \in T : Q[m[i]].qty = R[i].qty
    BY <1>3 DEF Places
  <2>3. {m[i] : i \in T} = P \ A
    <3>1. ASSUME NEW k \in P \ A PROVE k \in {m[i] : i \in T}
      <4>1. PICK j \in DOMAIN R : m[j] = k
        BY <1>3 DEF Places, Out
      <4>2. j \in T
        BY <1>3, <4>1 DEF Places, Out
      <4> QED BY <4>1, <4>2
    <3>2. ASSUME NEW i \in T PROVE m[i] \in P \ A
      BY <1>3 DEF Places, Out
    <3> QED BY <3>1, <3>2
  <2>4. Qty(R, T) = Qty(Q, P \ A)
    BY <2>1, <2>2, <2>3, QtyMoves
  <2>5. Qty(Q, P) = Qty(Q, A) + Qty(Q, P \ A) /\ Qty(Q, A) \in Nat /\ Qty(Q, P \ A) \in Nat
    <3> HIDE DEF P, A
    <3> QED BY <2>1, QtySplits
  <2>6. A = {} => Alike(Q, R, p)
    <3> SUFFICES ASSUME A = {} PROVE Alike(Q, R, p)
      OBVIOUS
    <3>1. Work(R, p) = Work(Q, p)
      BY <2>4 DEF Work
    <3>2. Promised(R, p) <=> Promised(Q, p)
      BY <1>3 DEF Promised, Out
    <3>3. Places(R, p) = {} <=> Places(Q, p) = {}
      BY <1>3 DEF Places, Out, Out
    <3> QED BY <3>1, <3>2, <3>3 DEF Alike
  <2> QED BY <2>4, <2>5, <2>6 DEF Work
<1> QED BY <1>1, <1>3, <1>4, <1>5

----------------------------------------------------------------------------
(* The map and the queues.                                                 *)

RecordsTyped == planet \in [Planet -> Record]
QueuesTyped  == queue \in [Player -> Seq(Build)]

\* QueuesAgree for one planet, in the terms of the lemmas.
QueueAgrees(p) ==
  /\ \A u \in Player : Places(queue[u], p) # {} => planet[p].owner = u
  /\ planet[p].construction =
       IF planet[p].owner = None THEN 0 ELSE Work(queue[planet[p].owner], p)
  /\ planet[p].rising /\ planet[p].owner # None =>
       planet[p].portal \/ Promised(queue[planet[p].owner], p)

LEMMA Builds == Build \subseteq Loose /\ Seq(Build) \subseteq Seq(Loose)
<1>1. Build \subseteq Loose
  BY PlanetsConstants DEF Build, Loose
<1> QED BY <1>1

LEMMA QueuesAgreeIs == QueuesAgree <=> \A p \in Planet : QueueAgrees(p)
<1>1. ConstructionCounts <=>
        \A p \in Planet :
          /\ \A u \in Player : Places(queue[u], p) # {} => planet[p].owner = u
          /\ planet[p].construction =
               IF planet[p].owner = None THEN 0 ELSE Work(queue[planet[p].owner], p)
  BY DEF ConstructionCounts, Places, Work
<1>2. PortalWillCome <=>
        \A p \in Planet : planet[p].rising /\ planet[p].owner # None =>
                            planet[p].portal \/ Promised(queue[planet[p].owner], p)
  BY DEF PortalWillCome, Promised
<1> QED BY <1>1, <1>2 DEF QueuesAgree, QueueAgrees

(* Nothing happens at a planet but that it may lose its hope of a portal.  *)
LEMMA KeptPlace ==
  ASSUME NEW p \in Planet, QueueAgrees(p), planet[p].owner \in Player \cup {None},
         planet'[p].owner = planet[p].owner, planet'[p].construction = planet[p].construction,
         planet'[p].rising => planet[p].rising /\ (planet[p].portal => planet'[p].portal),
         \A u \in Player : Alike(queue[u], queue'[u], p)
  PROVE  QueueAgrees(p)'
<1> DEFINE o == planet[p].owner
<1>1. \A u \in Player : Places(queue'[u], p) # {} => planet'[p].owner = u
  BY DEF QueueAgrees, Alike
<1>2. CASE o = None
  BY <1>1, <1>2 DEF QueueAgrees
<1>3. CASE o # None
  <2>1. o \in Player /\ Alike(queue[o], queue'[o], p)
    BY <1>3
  <2>2. Work(queue'[o], p) = Work(queue[o], p) /\ (Promised(queue'[o], p) <=> Promised(queue[o], p))
    BY <2>1 DEF Alike
  <2> QED BY <1>1, <1>3, <2>2 DEF QueueAgrees
<1> QED BY <1>2, <1>3

(* Nothing is under construction at a planet.                              *)
LEMMA EmptyPlace ==
  ASSUME NEW p \in Planet, QueuesTyped', planet'[p].owner \in Player \cup {None},
         planet'[p].construction = 0,
         planet'[p].rising => planet'[p].owner = None \/ planet'[p].portal,
         \A u \in Player : Places(queue'[u], p) = {}
  PROVE  QueueAgrees(p)'
<1>1. \A u \in Player : Work(queue'[u], p) = 0
  <2> TAKE u \in Player
  <2>1. queue'[u] \in Seq(Loose)
    BY Builds DEF QueuesTyped
  <2> QED BY <2>1, NoWork
<1> QED BY <1>1 DEF QueueAgrees

(* A queue that has nothing for a planet, before and after.                *)
LEMMA NothingThere ==
  ASSUME NEW Q \in Seq(Build), NEW R \in Seq(Build), NEW p, Places(Q, p) = {}, Places(R, p) = {}
  PROVE  Alike(Q, R, p)
<1>1. Work(Q, p) = 0 /\ Work(R, p) = 0
  BY Builds, NoWork
<1>2. ~Promised(Q, p) /\ ~Promised(R, p)
  BY DEF Places, Promised
<1> QED BY <1>1, <1>2 DEF Alike

(* The queue of the owner of a planet that he loses.                       *)
LEMMA Purges ==
  ASSUME RecordsTyped, QueuesTyped, NEW p \in Planet, QueueAgrees(p),
         NEW v \in Player, planet[p].owner = v
  PROVE  /\ Purged(queue[v], p) \in Seq(Build)
         /\ Places(Purged(queue[v], p), p) = {}
         /\ \A q : q # p => Alike(queue[v], Purged(queue[v], p), q)
<1> DEFINE Q == queue[v]
<1>1. Q \in Seq(Build) /\ Q \in Seq(Loose)
  BY Builds DEF QueuesTyped
<1>2. planet[p].construction = Work(Q, p)
  BY PlanetsConstants DEF QueueAgrees
<1>3. CASE planet[p].construction = 0
  <2>1. Purged(Q, p) = Q
    BY <1>3 DEF Purged
  <2>2. Places(Q, p) = {}
    BY <1>1, <1>2, <1>3, NoWork
  <2>3. \A q : Alike(Q, Q, q)
    BY DEF Alike
  <2> QED BY <1>1, <2>1, <2>2, <2>3
<1>4. CASE planet[p].construction # 0
  <2> DEFINE S == {i \in DOMAIN Q : Q[i].planet = p}  R == Swept(Q, S)
  <2>1. Purged(Q, p) = R
    BY <1>4 DEF Purged
  <2>2. R \in Seq(Build)
    BY <1>1, SweptIs
  <2>0. S \in SUBSET DOMAIN Q
    OBVIOUS
  <2> HIDE DEF R, S, Q
  <2>3. /\ \A j \in DOMAIN R : \E i \in DOMAIN Q \ S : R[j] = Q[i]
        /\ \A q : Out(Q, S, q) = {} => Alike(Q, R, q)
    BY <1>1, <2>0, WorkSwept DEF R
  <2>4. \A q : q # p => Out(Q, S, q) = {}
    BY DEF Out, S
  <2>5. Places(R, p) = {}
    BY <2>3 DEF Places, S
  <2> QED BY <2>1, <2>2, <2>3, <2>4, <2>5 DEF Q
<1> QED BY <1>3, <1>4

(* A player's builds, or those whose time has come, leave his queue.       *)
LEMMA Shortened ==
  ASSUME NEW u \in Player, QueuesTyped, NEW p \in Planet, QueueAgrees(p),
         planet[p].owner \in Player \cup {None}, planet[p].construction \in Nat,
         NEW Q \in Seq(Loose), \A q : Alike(queue[u], Q, q),
         NEW S \in SUBSET DOMAIN Q, queue' = [queue EXCEPT ![u] = Swept(Q, S)],
         planet'[p].owner = planet[p].owner,
         planet'[p].construction = planet[p].construction - Qty(Q, Out(Q, S, p)),
         planet'[p].rising => planet[p].rising /\ {i \in Out(Q, S, p) : Q[i].portal} = {},
         planet[p].portal => planet'[p].portal
  PROVE  QueueAgrees(p)' /\ planet'[p].construction \in Nat
<1> DEFINE R == Swept(Q, S)  A == Out(Q, S, p)
<1> HIDE DEF R, A
<1>1. /\ R \in Seq(Loose)
      /\ \A j \in DOMAIN R : \E i \in DOMAIN Q \ S : R[j] = Q[i]
      /\ \A i \in DOMAIN Q \ S : \E j \in DOMAIN R : R[j] = Q[i]
      /\ Work(Q, p) = Work(R, p) + Qty(Q, A) /\ Work(R, p) \in Nat /\ Qty(Q, A) \in Nat
      /\ A = {} => Alike(Q, R, p)
  BY WorkSwept DEF R, A
<1>2. \A v \in Player : queue'[v] = IF v = u THEN R ELSE queue[v]
  BY DEF QueuesTyped, R
<1>3. Alike(queue[u], Q, p)
  OBVIOUS
<1>4. CASE A = {}
  <2>1. Weighed(Q, {})
    BY QueueWeighed
  <2>2. Qty(Q, A) = 0
    BY <1>4, <2>1, QtyFold
  <2>3. \A v \in Player : Alike(queue[v], queue'[v], p)
    <3> TAKE v \in Player
    <3>1. CASE v = u
      <4>1. Alike(Q, R, p) /\ queue'[v] = R
        BY <1>1, <1>2, <1>4, <3>1
      <4> QED BY <1>3, <3>1, <4>1 DEF Alike
    <3>2. CASE v # u
      BY <1>2, <3>2 DEF Alike
    <3> QED BY <3>1, <3>2
  <2>4. planet'[p].construction = planet[p].construction
    BY <2>2 DEF A
  <2> QED BY <2>3, <2>4, KeptPlace
<1>5. CASE A # {}
  <2>1. Places(Q, p) # {}
    BY <1>5 DEF Places, Out, A
  <2>2. planet[p].owner = u /\ u # None
    BY <1>3, <2>1, PlanetsConstants DEF QueueAgrees, Alike
  <2>3. planet[p].construction = Work(Q, p)
    BY <1>3, <2>2 DEF QueueAgrees, Alike
  <2>4. planet'[p].construction = Work(R, p)
    BY <1>1, <2>3 DEF A
  <2>5. planet'[p].rising => planet'[p].portal \/ Promised(R, p)
    <3> SUFFICES ASSUME planet'[p].rising, ~planet[p].portal PROVE Promised(R, p)
      OBVIOUS
    <3>1. Promised(Q, p)
      BY <1>3, <2>2 DEF QueueAgrees, Alike
    <3>2. PICK i \in DOMAIN Q : Q[i].planet = p /\ Q[i].portal
      BY <3>1 DEF Promised
    <3>3. i \notin S
      BY <3>2 DEF Out
    <3> QED BY <1>1, <3>2, <3>3 DEF Promised
  <2>6. \A v \in Player : Places(queue'[v], p) # {} => v = u
    BY <1>2, <2>2 DEF QueueAgrees
  <2>7. queue'[u] = R /\ planet'[p].owner = u /\ u # None
    BY <1>2, <2>2
  <2>8. QueueAgrees(p)'
    BY <2>4, <2>5, <2>6, <2>7 DEF QueueAgrees
  <2> QED BY <1>1, <2>4, <2>8
<1> QED BY <1>4, <1>5

----------------------------------------------------------------------------
(* The invariant.                                                          *)

RestTyped ==
  /\ counted \in [Player -> Int] /\ active \in SUBSET Player
  /\ unexplored \in Int /\ serving \in Seq(Player)
  /\ ancient \subseteq Planet \ Home /\ nuked \subseteq Planet \ Home /\ short \in Nat

MapInv == /\ IInv /\ RecordsTyped /\ QueuesTyped /\ RestTyped
          /\ \A p \in Planet : QueueAgrees(p)
          /\ PortalsAgree /\ UnexploredExact /\ OutOwnsNothing

(* A planet with nothing under construction: the queues that the old owner *)
(* and everybody else are left with.                                       *)
Cleared(p) ==
  /\ QueuesTyped'
  /\ \A w \in Player : /\ Places(queue'[w], p) = {}
                       /\ \A q : q # p => Alike(queue[w], queue'[w], q)

LEMMA ClearedOfNobody ==
  ASSUME MapInv, NEW p \in Planet, planet[p].owner = None, queue' = queue
  PROVE  Cleared(p)
<1>1. \A w \in Player : Places(queue[w], p) = {}
  BY PlanetsConstants DEF MapInv, QueueAgrees
<1>2. \A w \in Player : \A q : Alike(queue[w], queue[w], q)
  BY DEF Alike
<1> QED BY <1>1, <1>2 DEF MapInv, QueuesTyped, Cleared

LEMMA ClearedOfOwner ==
  ASSUME MapInv, NEW p \in Planet, NEW v \in Player, planet[p].owner = v,
         queue' = [queue EXCEPT ![v] = Purged(queue[v], p)]
  PROVE  Cleared(p)
<1>1. /\ Purged(queue[v], p) \in Seq(Build)
      /\ Places(Purged(queue[v], p), p) = {}
      /\ \A q : q # p => Alike(queue[v], Purged(queue[v], p), q)
  BY Purges DEF MapInv
<1>2. \A w \in Player : queue'[w] = IF w = v THEN Purged(queue[v], p) ELSE queue[w]
  BY DEF MapInv, QueuesTyped
<1>3. QueuesTyped'
  BY <1>1 DEF MapInv, QueuesTyped
<1>4. \A w \in Player : w # v => Places(queue[w], p) = {}
  BY DEF MapInv, QueueAgrees
<1>5. \A w \in Player : \A q : Alike(queue[w], queue[w], q)
  BY DEF Alike
<1> QED BY <1>1, <1>2, <1>3, <1>4, <1>5 DEF Cleared

(* A planet gets a new owner, or none.                                     *)
LEMMA Handed ==
  ASSUME MapInv, NEW p \in Planet, NEW R \in Record, planet' = [planet EXCEPT ![p] = R],
         R.construction = 0, R.rising => R.owner = None \/ R.portal, Cleared(p)
  PROVE  RecordsTyped' /\ QueuesTyped' /\ \A q \in Planet : QueueAgrees(q)'
<1>1. RecordsTyped' /\ \A q \in Planet : planet'[q] = IF q = p THEN R ELSE planet[q]
  BY DEF MapInv, RecordsTyped
<1>2. QueuesTyped'
  BY DEF Cleared
<1>3. QueueAgrees(p)'
  <2>1. R.owner \in Player \cup {None}
    BY DEF Record
  <2> QED BY <1>1, <1>2, <2>1, EmptyPlace DEF Cleared
<1>4. ASSUME NEW q \in Planet, q # p PROVE QueueAgrees(q)'
  <2>1. planet[q].owner \in Player \cup {None} /\ QueueAgrees(q)
    BY DEF MapInv, RecordsTyped, Record
  <2>2. planet'[q] = planet[q]
    BY <1>1, <1>4
  <2>3. \A u \in Player : Alike(queue[u], queue'[u], q)
    BY <1>4 DEF Cleared
  <2> QED BY <2>1, <2>2, <2>3, KeptPlace
<1> QED BY <1>1, <1>2, <1>3, <1>4

(* A planet that is neither owned by a player nor a spare of his is not in *)
(* his list.                                                               *)
LEMMA NotListed ==
  ASSUME MapInv, NEW p \in Planet, NEW w \in Player, planet[p].owner # w, spare[p] # w
  PROVE  \A j \in DOMAIN list[w] : list[w][j].planet # p
<1>1. list[w] \in Seq(Entry) /\ Entries(list[w], p) = Due(w, p)
  BY Mirrored DEF MapInv, IInv, ListsTyped
<1>2. Due(w, p) = 0
  BY DEF Due
<1>3. Places(list[w], p) = {}
  BY <1>1, <1>2, Spots
<1> QED BY <1>3 DEF Places

(* The entries that the lists are left with, when the planets in G change  *)
(* hands: old ones, and new ones that say what the map says.               *)
Renewed(G) ==
  /\ \A q \in G : planet'[q].owner # planet[q].owner
  /\ \A w \in Player : \A i \in DOMAIN list'[w] :
       \/ \E j \in DOMAIN list[w] : list'[w][i] = list[w][j]
       \/ list'[w][i].portal = planet'[list'[w][i].planet].portal

LEMMA PortalsRenewed ==
  ASSUME MapInv, NEW G, Renewed(G), \A q \in Planet : q \notin G => planet'[q] = planet[q],
         \A q \in Planet, w \in Player : spare[q] = w => spare'[q] = w
  PROVE  PortalsAgree'
<1> SUFFICES ASSUME NEW w \in Player, NEW i \in DOMAIN list'[w], NEW q, q = list'[w][i].planet,
                    planet'[q].owner = w, spare'[q] # w
             PROVE  list'[w][i].portal = planet'[q].portal
  BY DEF PortalsAgree
<1>1. CASE list'[w][i].portal = planet'[q].portal
  BY <1>1
<1>2. ASSUME NEW j \in DOMAIN list[w], list'[w][i] = list[w][j]
      PROVE  list'[w][i].portal = planet'[q].portal
  <2>1. list[w][j] \in Entry
    BY DEF MapInv, IInv, ListsTyped
  <2>2. q \in Planet /\ list[w][j].planet = q
    BY <1>2, <2>1 DEF Entry
  <2>3. spare[q] # w
    BY <2>2
  <2>4. planet[q].owner = w
    BY <2>2, <2>3, NotListed
  <2>5. planet'[q] = planet[q]
    BY <2>2, <2>4 DEF Renewed
  <2>6. list[w][j].portal = planet[q].portal
    BY <2>2, <2>3, <2>4 DEF MapInv, PortalsAgree
  <2> QED BY <1>2, <2>5, <2>6
<1> QED BY <1>1, <1>2 DEF Renewed

(* The entries of a list that has lost one. *)
LEMMA UnlistedEntries ==
  ASSUME NEW L \in Seq(Entry), NEW p, NEW i \in DOMAIN Unlisted(L, p)
  PROVE  \E j \in DOMAIN L : Unlisted(L, p)[i] = L[j]
<1>1. CASE Entries(L, p) = 0
  <2>1. Unlisted(L, p) = L
    BY <1>1, Found DEF Unlisted
  <2> QED BY <2>1
<1>2. CASE Entries(L, p) # 0
  <2> DEFINE k == At(L, p)  n == Len(L)  M == Unlisted(L, p)
  <2>1. /\ n \in Nat \ {0} /\ DOMAIN L = 1 .. n /\ DOMAIN M = 1 .. n - 1
        /\ \A j \in 1 .. n - 1 : M[j] = IF j = k THEN L[n] ELSE L[j]
    BY <1>2, Gap
  <2> HIDE DEF k, n, M
  <2>2. i \in 1 .. n - 1
    BY <2>1 DEF M
  <2>3. \E j \in DOMAIN L : M[i] = L[j]
    BY <2>1, <2>2
  <2> QED BY <2>3 DEF M
<1> QED BY <1>1, <1>2

LEMMA AppendedEntries ==
  ASSUME NEW L \in Seq(Entry), NEW e \in Entry, NEW i \in DOMAIN Append(L, e)
  PROVE  (i \in DOMAIN L /\ Append(L, e)[i] = L[i]) \/ Append(L, e)[i] = e
OBVIOUS

(* A planet that had no owner, one that passes from one player to another, *)
(* and one that is given up.                                               *)
LEMMA RenewedByGain ==
  ASSUME MapInv, NEW p \in Planet, NEW u \in Player, planet'[p].owner # planet[p].owner,
         NEW e \in Entry, e.planet = p, e.portal = planet'[p].portal,
         list' = [list EXCEPT ![u] = Append(@, e)]
  PROVE  Renewed({p})
<1>1. \A w \in Player : list'[w] = IF w = u THEN Append(list[u], e) ELSE list[w]
  BY DEF MapInv, IInv, ListsTyped
<1>2. list[u] \in Seq(Entry)
  BY DEF MapInv, IInv, ListsTyped
<1>3. \A i \in DOMAIN Append(list[u], e) :
        (i \in DOMAIN list[u] /\ Append(list[u], e)[i] = list[u][i]) \/ Append(list[u], e)[i] = e
  BY <1>2, AppendedEntries
<1> QED BY <1>1, <1>3 DEF Renewed

Passed(u, v, p) ==
  /\ planet'[p].portal = FALSE
  /\ list'[v] = Unlisted(list[v], p)
  /\ list'[u] = Append(list[u], [planet |-> p, portal |-> FALSE])
  /\ \A w \in Player : w # u /\ w # v => list'[w] = list[w]

LEMMA RenewedByPassing ==
  ASSUME MapInv, NEW p \in Planet, NEW u \in Player, NEW v \in Player,
         planet'[p].owner # planet[p].owner, u # v, Passed(u, v, p)
  PROVE  Renewed({p})
<1> DEFINE e == [planet |-> p, portal |-> FALSE]
<1>1. /\ e.planet = p /\ e.portal = planet'[p].portal /\ e \in Entry
      /\ list'[v] = Unlisted(list[v], p) /\ list'[u] = Append(list[u], e)
      /\ \A w \in Player : w # u /\ w # v => list'[w] = list[w]
  BY DEF Passed, Entry
<1> HIDE DEF e
<1>2. list[u] \in Seq(Entry) /\ list[v] \in Seq(Entry)
  BY DEF MapInv, IInv, ListsTyped
<1>3. \A i \in DOMAIN Append(list[u], e) :
        (i \in DOMAIN list[u] /\ Append(list[u], e)[i] = list[u][i]) \/ Append(list[u], e)[i] = e
  BY <1>1, <1>2, AppendedEntries
<1>4. \A i \in DOMAIN Unlisted(list[v], p) :
        \E j \in DOMAIN list[v] : Unlisted(list[v], p)[i] = list[v][j]
  BY <1>2, UnlistedEntries
<1> SUFFICES ASSUME NEW w \in Player, NEW i \in DOMAIN list'[w]
             PROVE  \/ \E j \in DOMAIN list[w] : list'[w][i] = list[w][j]
                    \/ list'[w][i].portal = planet'[list'[w][i].planet].portal
  BY DEF Renewed
<1>5. CASE w = u
  BY <1>1, <1>3, <1>5
<1>6. CASE w = v
  BY <1>1, <1>4, <1>6
<1>7. CASE w # u /\ w # v
  BY <1>1, <1>7
<1> QED BY <1>5, <1>6, <1>7

LEMMA RenewedByLoss ==
  ASSUME MapInv, NEW p \in Planet, NEW v \in Player, planet'[p].owner # planet[p].owner,
         list' = [list EXCEPT ![v] = Unlisted(list[v], p)]
  PROVE  Renewed({p})
<1>1. \A w \in Player : list'[w] = IF w = v THEN Unlisted(list[v], p) ELSE list[w]
  BY DEF MapInv, IInv, ListsTyped
<1>2. \A i \in DOMAIN Unlisted(list[v], p) :
        \E j \in DOMAIN list[v] : Unlisted(list[v], p)[i] = list[v][j]
  BY UnlistedEntries DEF MapInv, IInv, ListsTyped
<1> QED BY <1>1, <1>2 DEF Renewed

(* The planets of a gift and the one explored have no owner, and their     *)
(* entries, one or two for each, have no portal.                           *)
LEMMA RenewedByGift ==
  ASSUME MapInv, NEW p \in Planet, NEW u \in Player, NEW gift \in Seq(Planet),
         \A q \in ToSet(gift) \cup {p} : planet'[q].owner # planet[q].owner /\ planet'[q].portal = FALSE,
         list' = [list EXCEPT ![u] = Longer(list[u], gift, p)]
  PROVE  Renewed(ToSet(gift) \cup {p})
<1> DEFINE L == list[u]  M == Longer(L, gift, p)  G == ToSet(gift) \cup {p}
<1>1. L \in Seq(Entry)
  BY DEF MapInv, IInv, ListsTyped
<1>2. \A w \in Player : list'[w] = IF w = u THEN M ELSE list[w]
  BY DEF MapInv, IInv, ListsTyped
<1>3. ASSUME NEW i \in DOMAIN M
      PROVE  (\E j \in DOMAIN L : M[i] = L[j]) \/ (M[i].planet \in G /\ M[i].portal = FALSE)
  BY <1>1, NewEntries
<1>4. \A q \in G : planet'[q].owner # planet[q].owner /\ planet'[q].portal = FALSE
  OBVIOUS
<1> HIDE DEF M, G
<1>5. ASSUME NEW w \in Player, NEW i \in DOMAIN list'[w]
      PROVE  \/ \E j \in DOMAIN list[w] : list'[w][i] = list[w][j]
             \/ list'[w][i].portal = planet'[list'[w][i].planet].portal
  <2>1. CASE w = u
    <3>1. list'[w] = M /\ i \in DOMAIN M /\ L = list[w]
      BY <1>2, <2>1
    <3>2. M[i].planet \in G /\ M[i].portal = FALSE => M[i].portal = planet'[M[i].planet].portal
      BY <1>4
    <3> QED BY <1>3, <3>1, <3>2
  <2>2. CASE w # u
    BY <1>2, <2>2
  <2> QED BY <2>1, <2>2
<1>6. Renewed(G)
  BY <1>4, <1>5 DEF Renewed
<1> QED BY <1>6 DEF G

----------------------------------------------------------------------------
(* What is left to explore, and who is out of the game.                    *)

Free == {p \in Planet \ Home : planet[p].owner = None}

LEMMA FreeIs == /\ IsFiniteSet(Free) /\ Cardinality(Free) \in Nat
                /\ UnexploredExact <=> unexplored = Cardinality(Free) - short
<1>1. IsFiniteSet(Free)
  <2>1. IsFiniteSet(Planet) /\ Free \subseteq Planet
    BY PlanetsConstants DEF Free
  <2> QED BY <2>1, FS_Subset
<1>2. UnexploredExact <=> unexplored = Cardinality(Free) - short
  BY DEF UnexploredExact, Free
<1> QED BY <1>1, <1>2, FS_CardinalityType

LEMMA FreeSame ==
  ASSUME UnexploredExact, unexplored' = unexplored, short' = short,
         \A p \in Planet \ Home : planet'[p].owner = None <=> planet[p].owner = None
  PROVE  UnexploredExact'
<1>1. {p \in Planet \ Home : planet'[p].owner = None} = {p \in Planet \ Home : planet[p].owner = None}
  OBVIOUS
<1> QED BY <1>1 DEF UnexploredExact

LEMMA FreeMore ==
  ASSUME UnexploredExact, short \in Nat, short' = short,
         NEW M \in SUBSET (Planet \ Home), unexplored' = unexplored + Cardinality(M),
         \A p \in M : planet[p].owner # None,
         \A p \in Planet \ Home : planet'[p].owner = None <=> p \in M \/ planet[p].owner = None
  PROVE  UnexploredExact'
<1>1. {p \in Planet \ Home : planet'[p].owner = None} = Free \cup M /\ Free \cap M = {}
  BY DEF Free
<1>2. IsFiniteSet(M)
  <2>1. IsFiniteSet(Planet) /\ M \subseteq Planet
    BY PlanetsConstants
  <2> QED BY <2>1, FS_Subset
<1>3. Cardinality(Free) \in Nat /\ Cardinality(M) \in Nat
  BY <1>2, FreeIs, FS_CardinalityType
<1>4. Cardinality(Free \cup M) = Cardinality(Free) + Cardinality(M)
  <2>1. Cardinality(Free \cup M) = Cardinality(Free) + Cardinality(M) - Cardinality(Free \cap M)
    BY <1>2, FreeIs, FS_Union
  <2>2. Cardinality(Free \cap M) = 0
    BY <1>1, FS_EmptySet
  <2> QED BY <1>3, <2>1, <2>2
<1>5. unexplored = Cardinality(Free) - short
  BY FreeIs
<1>6. unexplored' = Cardinality(Free \cup M) - short'
  BY <1>3, <1>4, <1>5
<1> QED BY <1>1, <1>6 DEF UnexploredExact

(* Planets that had no owner are taken, and counted off; "vain" of them are*)
(* counted off once more.                                                  *)
LEMMA FreeLess ==
  ASSUME UnexploredExact, short \in Nat, NEW vain \in Nat, short' = short + vain,
         NEW G \in SUBSET (Planet \ Home), unexplored' = unexplored - (Cardinality(G) + vain),
         \A p \in G : planet[p].owner = None,
         \A p \in Planet \ Home : planet'[p].owner = None <=> p \notin G /\ planet[p].owner = None
  PROVE  UnexploredExact'
<1>1. {p \in Planet \ Home : planet'[p].owner = None} = Free \ G /\ Free \cap G = G
  BY DEF Free
<1>2. Cardinality(Free \ G) = Cardinality(Free) - Cardinality(G)
  <2>1. Cardinality(Free \ G) = Cardinality(Free) - Cardinality(Free \cap G)
    BY FreeIs, FS_Difference
  <2> QED BY <1>1, <2>1
<1>3. Cardinality(Free) \in Nat /\ Cardinality(G) \in Nat
  <2>1. IsFiniteSet(Planet) /\ G \subseteq Planet
    BY PlanetsConstants
  <2> QED BY <2>1, FS_Subset, FS_CardinalityType, FreeIs
<1>4. unexplored = Cardinality(Free) - short
  BY FreeIs
<1>5. unexplored' = Cardinality(Free \ G) - short'
  BY <1>2, <1>3, <1>4
<1> QED BY <1>1, <1>5 DEF UnexploredExact

(* A gift has as many planets as it is long. *)
LEMMA GiftSize ==
  ASSUME NEW gift \in Seq(Planet), IsInjective(gift)
  PROVE  IsFiniteSet(ToSet(gift)) /\ Cardinality(ToSet(gift)) = Len(gift) /\ Len(gift) \in Nat
<1> DEFINE S == 1 .. Len(gift)  T == ToSet(gift)
<1>1. Len(gift) \in Nat /\ DOMAIN gift = S /\ gift = [i \in S |-> gift[i]]
  OBVIOUS
<1>2. \A i \in S : gift[i] \in T
  BY <1>1 DEF ToSet
<1>3. gift \in [S -> T]
  BY <1>1, <1>2
<1>4. \A t \in T : \E i \in S : gift[i] = t
  BY <1>1 DEF ToSet
<1>5. ExistsBijection(S, T)
  BY <1>3, <1>4 DEF ExistsBijection, Bijection, Injection, Surjection
<1>6. IsFiniteSet(S) /\ Cardinality(S) = Len(gift)
  <2> DEFINE n == Len(gift)
  <2>1. n \in Nat /\ 1 \in Int /\ S = 1 .. n
    BY <1>1
  <2> HIDE DEF n, S
  <2>2. n \in Int /\ (1 > n => n = 0) /\ n - 1 + 1 = n
    BY <2>1
  <2>3. IsFiniteSet(1 .. n) /\ Cardinality(1 .. n) = IF 1 > n THEN 0 ELSE n - 1 + 1
    BY <2>1, <2>2, FS_Interval
  <2> QED BY <2>1, <2>2, <2>3 DEF n
<1> HIDE DEF S, T
<1>7. IsFiniteSet(T) /\ Cardinality(T) = Cardinality(S)
  BY <1>5, <1>6, FS_Bijection
<1> QED BY <1>1, <1>6, <1>7 DEF T

(* Only players in the game gain, and nobody leaves it.                    *)
LEMMA OutSame ==
  ASSUME MapInv,
         \A w \in Player \ active' : w \notin active /\ list'[w] = list[w] /\ queue'[w] = queue[w],
         \A p \in Planet : /\ planet'[p].owner \in active' \cup {planet[p].owner, None}
                           /\ spare'[p] \in active' \cup {spare[p], None}
  PROVE  OutOwnsNothing'
<1> SUFFICES ASSUME NEW w \in Player \ active'
             PROVE  /\ list'[w] = <<>> /\ queue'[w] = <<>>
                    /\ \A p \in Planet : planet'[p].owner # w /\ spare'[p] # w
  BY DEF OutOwnsNothing
<1>1. w \in Player \ active
  OBVIOUS
<1>2. list[w] = <<>> /\ queue[w] = <<>> /\ \A p \in Planet : planet[p].owner # w /\ spare[p] # w
  BY <1>1 DEF MapInv, OutOwnsNothing
<1> QED BY <1>2, PlanetsConstants

(* An owner is in the game.                                                *)
LEMMA OwnerActive ==
  ASSUME MapInv, NEW p \in Planet, planet[p].owner # None
  PROVE  planet[p].owner \in active /\ planet[p].owner \in Player
<1>1. planet[p].owner \in Player
  BY OwnerIsPlayer DEF MapInv
<1> QED BY <1>1 DEF MapInv, OutOwnsNothing

LEMMA RecordFields ==
  ASSUME MapInv, NEW p \in Planet
  PROVE  /\ planet[p] \in Record
         /\ planet[p].owner \in Player \cup {None} /\ planet[p].portal \in BOOLEAN
         /\ planet[p].rising \in BOOLEAN /\ planet[p].construction \in Nat
         /\ planet[p].surrender \in Player \cup {None}
BY DEF MapInv, RecordsTyped, Record

LEMMA OwnedIs ==
  ASSUME MapInv, NEW p \in Planet, NEW u \in Player \cup {None}
  PROVE  /\ Owned(p, u) \in Record /\ Owned(p, u).owner = u /\ ~Owned(p, u).portal
         /\ ~Owned(p, u).rising /\ Owned(p, u).construction = 0
         /\ Surrendered(p) \in Record /\ Surrendered(p).owner = None
         /\ Surrendered(p).construction = 0 /\ Surrendered(p).portal = planet[p].portal
<1>1. planet[p] \in Record
  BY RecordFields
<1>2. planet[p] = [owner |-> planet[p].owner, portal |-> planet[p].portal,
                   rising |-> planet[p].rising, construction |-> planet[p].construction,
                   surrender |-> planet[p].surrender]
  BY <1>1 DEF Record
<1>3. Owned(p, u) \in Record /\ Surrendered(p) \in Record
  BY <1>1 DEF Owned, Surrendered, Record
<1> QED BY <1>1, <1>2, <1>3 DEF Owned, Surrendered, Record

LEMMA MapAfter ==
  ASSUME MapInv, NEW p \in Planet, NEW R, planet' = [planet EXCEPT ![p] = R]
  PROVE  \A q \in Planet : planet'[q] = IF q = p THEN R ELSE planet[q]
BY DEF MapInv, RecordsTyped

----------------------------------------------------------------------------
(* Every step keeps the queues, the portals and the counts.                *)

LEMMA JoinSound ==
  ASSUME MapInv, IInv', NEW u \in Player, NEW h \in Home, Join(u, h)
  PROVE  MapInv'
<1> DEFINE R == [planet[h] EXCEPT !.owner = u, !.portal = TRUE]
           e == [planet |-> h, portal |-> TRUE]
<1>1. h \in Planet /\ planet[h].owner = None /\ e \in Entry /\ e.planet = h /\ e.portal = TRUE
  BY PlanetsConstants DEF Join, Entry
<1>2. planet[h].construction = 0
  BY <1>1 DEF MapInv, QueueAgrees
<1>3. R \in Record /\ R.owner = u /\ R.portal = TRUE /\ R.construction = 0
  BY <1>1, <1>2, RecordFields DEF Record
<1>4. planet' = [planet EXCEPT ![h] = R]
  BY <1>1 DEF Join, MapInv, RecordsTyped
<1>5. list' = [list EXCEPT ![u] = Append(@, e)]
  BY DEF Join
<1> HIDE DEF R, e
<1>6. Cleared(h)
  BY <1>1, ClearedOfNobody DEF Join
<1>7. RecordsTyped' /\ QueuesTyped' /\ \A q \in Planet : QueueAgrees(q)'
  BY <1>1, <1>3, <1>4, <1>6, Handed
<1>8. \A q \in Planet : planet'[q] = IF q = h THEN R ELSE planet[q]
  BY <1>1, <1>4, MapAfter
<1>9. PortalsAgree'
  <2>0. planet'[h].owner # planet[h].owner
    BY <1>1, <1>3, <1>8, PlanetsConstants
  <2>1. Renewed({h})
    BY <1>1, <1>3, <1>5, <1>8, <2>0, RenewedByGain
  <2>2. spare' = spare
    BY DEF Join, history
  <2> QED BY <1>1, <1>8, <2>1, <2>2, PortalsRenewed
<1>10. UnexploredExact'
  BY <1>8, FreeSame DEF MapInv, Join, history
<1>11. OutOwnsNothing'
  <2>1. active' = active \cup {u} /\ queue' = queue /\ spare' = spare
    BY DEF Join, history
  <2>2. \A w \in Player : w # u => list'[w] = list[w]
    BY <1>5 DEF MapInv, IInv, ListsTyped
  <2> QED BY <1>3, <1>8, <2>1, <2>2, OutSame
<1>12. RestTyped'
  <2>1. list[u] \in Seq(Entry)
    BY DEF MapInv, IInv, ListsTyped
  <2>2. Len(list[u]) + 1 \in Int
    BY <2>1
  <2> QED BY <2>2 DEF Join, MapInv, RestTyped, wonders, history
<1> QED BY <1>7, <1>9, <1>10, <1>11, <1>12 DEF MapInv

LEMMA ExploreSound ==
  ASSUME MapInv, IInv', NEW u \in Player, NEW p \in Planet, NEW gift \in Seq(Planet),
         Explore(u, p, gift)
  PROVE  MapInv'
<1> DEFINE new == Append(gift, p)  G == ToSet(gift) \cup {p}
<1>1. IsInjective(gift) /\ ToSet(gift) \subseteq Vacant /\ G \subseteq Vacant /\ (p \in ToSet(gift) => p \in ancient)
  <2>1. gift = <<>> => ToSet(gift) = {}
    BY DEF ToSet
  <2> QED BY <2>1 DEF Explore, Gift
<1>2. ToSet(new) = G /\ Len(new) = Len(gift) + 1
  <2>1. /\ DOMAIN gift = 1 .. Len(gift) /\ DOMAIN new = 1 .. Len(gift) + 1 /\ Len(gift) \in Nat
        /\ Len(new) = Len(gift) + 1
        /\ \A k \in 1 .. Len(gift) : new[k] = gift[k]
        /\ new[Len(gift) + 1] = p
    OBVIOUS
  <2> HIDE DEF new
  <2> QED BY <2>1 DEF ToSet
<1>3. /\ planet' = [q \in Planet |-> IF q \in G THEN Owned(q, u) ELSE planet[q]]
      /\ list' = [list EXCEPT ![u] = Longer(list[u], gift, p)]
      /\ unexplored' = unexplored - (Len(gift) + 1)
      /\ spare' = IF p \in ToSet(gift) THEN [spare EXCEPT ![p] = u] ELSE spare
      /\ short' = IF p \in ToSet(gift) THEN short + 1 ELSE short
      /\ u \in active /\ queue' = queue /\ active' = active
      /\ counted' = counted /\ serving' = serving /\ nuked' = nuked /\ ancient' \subseteq ancient
  BY <1>2 DEF Explore, Longer, Moving
<1> HIDE DEF new, G
<1>4. p \in G /\ G \subseteq Planet \ Home /\ \A q \in G : planet[q].owner = None
  BY <1>1 DEF Vacant, G
<1>5. \A q \in Planet : planet'[q] = IF q \in G THEN Owned(q, u) ELSE planet[q]
  BY <1>3
<1>6. \A q \in Planet : /\ Owned(q, u) \in Record /\ Owned(q, u).owner = u /\ Owned(q, u).portal = FALSE
                        /\ ~Owned(q, u).rising /\ Owned(q, u).construction = 0
  <2> TAKE q \in Planet
  <2>1. ~Owned(q, u).portal /\ Owned(q, u).portal \in BOOLEAN
    BY OwnedIs DEF Record
  <2> QED BY <2>1, OwnedIs
<1>7. RecordsTyped' /\ QueuesTyped'
  <2>1. \A q \in Planet : planet'[q] \in Record
    BY <1>5, <1>6, RecordFields
  <2> QED BY <1>3, <2>1 DEF MapInv, RecordsTyped, QueuesTyped
<1>8. ASSUME NEW q \in Planet PROVE QueueAgrees(q)'
  <2>1. CASE q \in G
    <3>1. \A w \in Player : Places(queue'[w], q) = {}
      BY <1>3, <1>4, <2>1, PlanetsConstants DEF MapInv, QueueAgrees
    <3>2. planet'[q].owner = u /\ planet'[q].construction = 0 /\ ~planet'[q].rising
      BY <1>5, <1>6, <2>1
    <3> QED BY <1>7, <3>1, <3>2, EmptyPlace
  <2>2. CASE q \notin G
    <3>1. \A w \in Player : Alike(queue[w], queue'[w], q)
      BY <1>3 DEF Alike
    <3>2. planet'[q] = planet[q]
      BY <1>5, <2>2
    <3> QED BY <3>1, <3>2, KeptPlace, RecordFields DEF MapInv
  <2> QED BY <2>1, <2>2
<1>9. \A q \in Planet, w \in Player : spare[q] = w => spare'[q] = w
  <2>1. p \in ToSet(gift) => spare[p] = None
    BY <1>1 DEF MapInv, IInv, SpareTyped
  <2> QED BY <1>3, <2>1, PlanetsConstants DEF MapInv, IInv, SpareTyped
<1>10. PortalsAgree'
  <2>1. \A q \in G : planet'[q].owner # planet[q].owner /\ planet'[q].portal = FALSE
    BY <1>4, <1>5, <1>6, PlanetsConstants
  <2>2. Renewed(G)
    BY <1>3, <2>1, RenewedByGift DEF G
  <2>3. \A q \in Planet : q \notin G => planet'[q] = planet[q]
    BY <1>5
  <2> QED BY <1>9, <2>2, <2>3, PortalsRenewed
<1>11. UnexploredExact'
  <2> DEFINE vain == IF p \in ToSet(gift) THEN 1 ELSE 0
  <2>1. IsFiniteSet(ToSet(gift)) /\ Cardinality(ToSet(gift)) = Len(gift) /\ Len(gift) \in Nat
    BY <1>1, GiftSize
  <2>2. Cardinality(G) = Len(gift) + 1 - vain
    <3>1. Cardinality(G) = IF p \in ToSet(gift) THEN Cardinality(ToSet(gift))
                                                ELSE Cardinality(ToSet(gift)) + 1
      BY <2>1, FS_AddElement DEF G
    <3> QED BY <2>1, <3>1
  <2>3. vain \in Nat /\ short \in Nat /\ short' = short + vain
    BY <1>3 DEF MapInv, RestTyped
  <2> HIDE DEF vain
  <2>4. unexplored' = unexplored - (Cardinality(G) + vain)
    BY <1>3, <2>1, <2>2, <2>3
  <2>5. \A q \in Planet \ Home : planet'[q].owner = None <=> q \notin G /\ planet[q].owner = None
    BY <1>5, <1>6, PlanetsConstants
  <2>6. G \in SUBSET (Planet \ Home) /\ UnexploredExact
    BY <1>4 DEF MapInv
  <2> QED BY <1>4, <2>3, <2>4, <2>5, <2>6, FreeLess
<1>12. OutOwnsNothing'
  <2>1. \A w \in Player : w # u => list'[w] = list[w]
    BY <1>3 DEF MapInv, IInv, ListsTyped
  <2>2. \A q \in Planet : planet'[q].owner \in active' \cup {planet[q].owner, None}
    BY <1>3, <1>5, <1>6
  <2>3. \A q \in Planet : spare'[q] \in active' \cup {spare[q], None}
    BY <1>3 DEF MapInv, IInv, SpareTyped
  <2> QED BY <1>3, <2>1, <2>2, <2>3, OutSame
<1>13. RestTyped'
  <2>1. Len(gift) \in Nat
    OBVIOUS
  <2> QED BY <1>3, <2>1 DEF MapInv, RestTyped
<1> QED BY <1>7, <1>8, <1>10, <1>11, <1>12, <1>13 DEF MapInv

(* A civilisation lays its planet waste: nothing that the files agree on   *)
(* changes.                                                                *)
LEMMA LayWasteSound ==
  ASSUME MapInv, IInv', NEW u \in Player, NEW p \in Planet, LayWaste(u, p)
  PROVE  MapInv'
<1>1. /\ planet' = planet /\ list' = list /\ queue' = queue /\ counted' = counted
      /\ active' = active /\ unexplored' = unexplored /\ serving' = serving
      /\ spare' = spare /\ short' = short
      /\ p \in Planet \ Home /\ ancient' = ancient \ {p} /\ nuked' = nuked \cup {p}
  BY DEF LayWaste, Vacant, history
<1>2. \A q \in Planet : QueueAgrees(q)'
  BY <1>1 DEF MapInv, QueueAgrees
<1>3. PortalsAgree' /\ UnexploredExact' /\ OutOwnsNothing'
  BY <1>1 DEF MapInv, PortalsAgree, UnexploredExact, OutOwnsNothing
<1>4. RecordsTyped' /\ QueuesTyped' /\ RestTyped'
  BY <1>1 DEF MapInv, RecordsTyped, QueuesTyped, RestTyped
<1> QED BY <1>2, <1>3, <1>4 DEF MapInv

(* What conquest, mind control and taking an offer share.                  *)
LEMMA PassSound ==
  ASSUME MapInv, IInv', NEW u \in active, NEW p \in Planet \ Home, planet[p].owner \notin {None, u},
         NEW R \in Record, R.owner = u, R.portal = FALSE, R.rising = FALSE, R.construction = 0,
         planet' = [planet EXCEPT ![p] = R],
         list' = [list EXCEPT ![planet[p].owner] = Unlisted(list[planet[p].owner], p),
                              ![u] = Append(@, [planet |-> p, portal |-> FALSE])],
         queue' = [queue EXCEPT ![planet[p].owner] = Purged(queue[planet[p].owner], p)],
         active' = active, unexplored' = unexplored, spare' = spare, short' = short, RestTyped'
  PROVE  MapInv'
<1> DEFINE v == planet[p].owner  e == [planet |-> p, portal |-> FALSE]
<1>1. v \in Player /\ v \in active /\ u \in Player /\ u # v
  BY OwnerActive DEF MapInv, RestTyped
<1>2. e \in Entry /\ e.planet = p /\ e.portal = FALSE
  BY DEF Entry
<1>3. list' = [list EXCEPT ![v] = Unlisted(list[v], p), ![u] = Append(@, e)]
  OBVIOUS
<1>4. queue' = [queue EXCEPT ![v] = Purged(queue[v], p)] /\ planet[p].owner = v
  OBVIOUS
<1> HIDE DEF v, e
<1>5. Cleared(p)
  BY <1>1, <1>4, ClearedOfOwner
<1>6. RecordsTyped' /\ QueuesTyped' /\ \A q \in Planet : QueueAgrees(q)'
  BY <1>5, Handed
<1>7. \A q \in Planet : planet'[q] = IF q = p THEN R ELSE planet[q]
  BY MapAfter
<1>8. PortalsAgree'
  <2>1. Renewed({p})
    <3>1. /\ p \in Planet /\ planet[p].owner = v /\ planet'[p].portal = FALSE
          /\ planet'[p].owner # planet[p].owner
      BY <1>1, <1>4, <1>7
    <3>2. Passed(u, v, p)
      BY <1>1, <1>3, <3>1 DEF MapInv, IInv, ListsTyped, Passed, e
    <3> QED BY <1>1, <3>1, <3>2, RenewedByPassing
  <2> QED BY <1>7, <2>1, PortalsRenewed
<1>9. UnexploredExact'
  <2>1. u # None /\ v # None
    BY <1>1, PlanetsConstants
  <2> QED BY <1>4, <1>7, <2>1, FreeSame DEF MapInv
<1>10. OutOwnsNothing'
  <2>1. \A w \in Player : w # u /\ w # v => list'[w] = list[w] /\ queue'[w] = queue[w]
    BY <1>3, <1>4 DEF MapInv, IInv, ListsTyped, QueuesTyped
  <2>2. \A w \in Player \ active' : w \notin active /\ list'[w] = list[w] /\ queue'[w] = queue[w]
    BY <1>1, <2>1
  <2>3. \A q \in Planet : planet'[q].owner \in active' \cup {planet[q].owner, None}
    BY <1>7
  <2> QED BY <2>2, <2>3, OutSame
<1> QED BY <1>6, <1>8, <1>9, <1>10 DEF MapInv

LEMMA ConquerSound ==
  ASSUME MapInv, IInv', NEW u \in Player, NEW p \in Planet, Conquer(u, p) \/ MindControl(u, p)
  PROVE  MapInv'
<1>1. /\ u \in active /\ p \in Planet \ Home /\ planet[p].owner \notin {None, u}
      /\ Passes(planet[p].owner, u, p) /\ active' = active /\ unexplored' = unexplored
      /\ spare' = spare /\ short' = short
  BY DEF Conquer, MindControl, Moving, history
<1>2. /\ Owned(p, u) \in Record /\ Owned(p, u).owner = u /\ Owned(p, u).portal = FALSE
      /\ Owned(p, u).rising = FALSE /\ Owned(p, u).construction = 0
  <2>1. ~Owned(p, u).portal /\ ~Owned(p, u).rising /\ Owned(p, u) \in Record
    BY OwnedIs
  <2>2. Owned(p, u).portal \in BOOLEAN /\ Owned(p, u).rising \in BOOLEAN
    BY <2>1 DEF Record
  <2> QED BY <2>1, <2>2, OwnedIs
<1>3. RestTyped'
  <2>1. planet[p].owner \in Player
    BY <1>1, OwnerActive
  <2> QED BY <2>1 DEF Conquer, MindControl, MapInv, RestTyped, wonders, history
<1> QED BY <1>1, <1>2, <1>3, PassSound DEF Passes

LEMMA TakeSound ==
  ASSUME MapInv, IInv', NEW u \in Player, NEW p \in Planet, TakePlanet(u, p)
  PROVE  MapInv'
<1> DEFINE R == [Owned(p, u) EXCEPT !.surrender = None]
<1>1. /\ u \in active /\ p \in Planet \ Home /\ planet[p].owner \notin {None, u}
      /\ active' = active /\ unexplored' = unexplored /\ spare' = spare /\ short' = short
  BY DEF TakePlanet, history
<1>2. /\ R \in Record /\ R.owner = u /\ R.portal = FALSE /\ R.rising = FALSE /\ R.construction = 0
  <2>1. ~Owned(p, u).portal /\ ~Owned(p, u).rising /\ Owned(p, u) \in Record
    BY OwnedIs
  <2>2. Owned(p, u).portal \in BOOLEAN /\ Owned(p, u).rising \in BOOLEAN
    BY <2>1 DEF Record
  <2> QED BY <2>1, <2>2, OwnedIs DEF Record
<1>3. /\ planet' = [planet EXCEPT ![p] = R]
      /\ list' = [list EXCEPT ![planet[p].owner] = Unlisted(list[planet[p].owner], p),
                              ![u] = Append(@, [planet |-> p, portal |-> FALSE])]
      /\ queue' = [queue EXCEPT ![planet[p].owner] = Purged(queue[planet[p].owner], p)]
  BY DEF TakePlanet
<1>4. RestTyped'
  BY DEF TakePlanet, MapInv, RestTyped, wonders, history
<1> HIDE DEF R
<1> QED BY <1>1, <1>2, <1>3, <1>4, PassSound

(* What nuking and the loss of a home share.                               *)
LEMMA LossSound ==
  ASSUME MapInv, NEW p \in Planet, NEW v \in Player, planet[p].owner = v,
         NEW R \in Record, R.owner = None, R.construction = 0,
         planet' = [planet EXCEPT ![p] = R], Loses(v, p), active' = active, spare' = spare
  PROVE  /\ RecordsTyped' /\ QueuesTyped' /\ \A q \in Planet : QueueAgrees(q)'
         /\ PortalsAgree' /\ OutOwnsNothing'
<1>1. /\ list' = [list EXCEPT ![v] = Unlisted(list[v], p)]
      /\ queue' = [queue EXCEPT ![v] = Purged(queue[v], p)]
  BY DEF Loses
<1>2. Cleared(p)
  BY <1>1, ClearedOfOwner
<1>3. RecordsTyped' /\ QueuesTyped' /\ \A q \in Planet : QueueAgrees(q)'
  BY <1>2, Handed
<1>4. \A q \in Planet : planet'[q] = IF q = p THEN R ELSE planet[q]
  BY MapAfter
<1>5. PortalsAgree'
  <2>0. planet'[p].owner # planet[p].owner
    BY <1>4, PlanetsConstants
  <2>1. Renewed({p})
    BY <1>1, <2>0, RenewedByLoss
  <2> QED BY <1>4, <2>1, PortalsRenewed
<1>6. OutOwnsNothing'
  <2>1. \A w \in Player : w # v => list'[w] = list[w] /\ queue'[w] = queue[w]
    BY <1>1 DEF MapInv, IInv, ListsTyped, QueuesTyped
  <2>2. v \in active
    BY OwnerActive, PlanetsConstants
  <2> QED BY <1>4, <2>1, <2>2, OutSame
<1> QED BY <1>3, <1>5, <1>6

LEMMA NukeSound ==
  ASSUME MapInv, IInv', NEW u \in Player, NEW p \in Planet, NukePlanet(u, p)
  PROVE  MapInv'
<1> DEFINE v == planet[p].owner  R == Owned(p, None)
<1>1. /\ p \in Planet \ Home /\ v # None /\ planet' = [planet EXCEPT ![p] = R] /\ Loses(v, p)
      /\ active' = active /\ unexplored' = unexplored + 1 /\ spare' = spare /\ short' = short
  BY DEF NukePlanet, history
<1>2. v \in Player
  BY <1>1, OwnerActive
<1>3. R \in Record /\ R.owner = None /\ R.construction = 0
  BY OwnedIs
<1> HIDE DEF R
<1>4. /\ RecordsTyped' /\ QueuesTyped' /\ \A q \in Planet : QueueAgrees(q)'
      /\ PortalsAgree' /\ OutOwnsNothing'
  BY <1>1, <1>2, <1>3, LossSound
<1>5. UnexploredExact'
  <2>1. \A q \in Planet : planet'[q] = IF q = p THEN R ELSE planet[q]
    BY <1>1, MapAfter
  <2>2. {p} \in SUBSET (Planet \ Home) /\ Cardinality({p}) = 1
    BY <1>1, FS_Singleton
  <2>3. short \in Nat /\ UnexploredExact
    BY DEF MapInv, RestTyped
  <2>4. \A q \in Planet \ Home : planet'[q].owner = None <=> q \in {p} \/ planet[q].owner = None
    BY <1>3, <2>1
  <2> QED BY <1>1, <2>2, <2>3, <2>4, FreeMore
<1>6. RestTyped'
  BY DEF NukePlanet, MapInv, RestTyped, wonders, history
<1> QED BY <1>4, <1>5, <1>6 DEF MapInv

(* A player is out of the game.                                            *)
LEMMA LeavesSound ==
  ASSUME MapInv, NEW u \in Player, NEW lost \in SUBSET Home, \A p \in lost : planet[p].owner = u,
         Leaves(u, lost)
  PROVE  /\ RecordsTyped' /\ QueuesTyped' /\ \A q \in Planet : QueueAgrees(q)'
         /\ PortalsAgree' /\ UnexploredExact' /\ OutOwnsNothing'
         /\ unexplored' \in Int /\ active' \in SUBSET Player
         /\ ancient' \subseteq Planet \ Home /\ nuked' \subseteq Planet \ Home /\ short' \in Nat
<1> DEFINE mine == {p \in Planet \ lost : At(list[u], p) # 0 /\ planet[p].owner = u}
<1>1. list[u] \in Seq(Entry) /\ \A q \in Planet : Entries(list[u], q) = Due(u, q)
  BY Mirrored DEF MapInv, IInv, ListsTyped
<1>2. mine = Owns(u) \ lost
  <2>1. \A p \in Owns(u) : At(list[u], p) # 0
    <3> TAKE p \in Owns(u)
    <3>1. Entries(list[u], p) # 0
      BY <1>1 DEF Owns, Due
    <3> QED BY <1>1, <3>1, Found
  <2> QED BY <2>1 DEF Owns
<1>3. /\ planet' = [p \in Planet |-> CASE p \in mine -> Owned(p, None)
                                       [] p \in lost -> Surrendered(p)
                                       [] OTHER      -> planet[p]]
      /\ list' = [list EXCEPT ![u] = <<>>] /\ queue' = [queue EXCEPT ![u] = <<>>]
      /\ unexplored' = unexplored + Cardinality(mine \ Home) /\ active' = active \ {u}
      /\ spare' = [p \in Planet |-> IF spare[p] = u THEN None ELSE spare[p]] /\ short' = short
  BY DEF Leaves, Emptied
<1> HIDE DEF mine
<1>4. \A p \in Planet : planet'[p] = IF p \in mine THEN Owned(p, None)
                                     ELSE IF p \in lost THEN Surrendered(p) ELSE planet[p]
  <2> TAKE p \in Planet
  <2>1. planet'[p] = CASE p \in mine -> Owned(p, None)
                       [] p \in lost -> Surrendered(p)
                       [] OTHER      -> planet[p]
    BY <1>3
  <2>2. ~(p \in mine /\ p \in lost)
    BY <1>2
  <2> QED BY <2>1, <2>2
<1>5. /\ \A p \in Planet : planet[p].owner = u => /\ planet'[p] \in Record /\ planet'[p].owner = None
                                                  /\ planet'[p].construction = 0
      /\ \A p \in Planet : planet[p].owner # u => planet'[p] = planet[p]
  <2>1. \A p \in Planet : planet[p].owner # u => p \notin mine /\ p \notin lost
    BY <1>2 DEF Owns
  <2>2. \A p \in Planet : planet[p].owner = u => p \in mine \/ p \in lost
    BY <1>2 DEF Owns
  <2>3. \A p \in Planet : /\ Owned(p, None) \in Record /\ Owned(p, None).owner = None
                          /\ Owned(p, None).construction = 0
                          /\ Surrendered(p) \in Record /\ Surrendered(p).owner = None
                          /\ Surrendered(p).construction = 0
    BY OwnedIs
  <2> QED BY <1>4, <2>1, <2>2, <2>3
<1>6. RecordsTyped'
  <2>1. \A p \in Planet : planet'[p] \in Record
    BY <1>5, RecordFields
  <2> QED BY <1>3, <2>1 DEF RecordsTyped
<1>7. QueuesTyped' /\ \A w \in Player : queue'[w] = IF w = u THEN <<>> ELSE queue[w]
  BY <1>3 DEF MapInv, QueuesTyped
<1>8. \A p : Places(<<>>, p) = {}
  BY DEF Places
<1>9. ASSUME NEW p \in Planet PROVE QueueAgrees(p)'
  <2>1. CASE planet[p].owner = u
    <3>1. \A w \in Player : w # u => Places(queue[w], p) = {}
      BY <2>1 DEF MapInv, QueueAgrees
    <3>2. \A w \in Player : Places(queue'[w], p) = {}
      BY <1>7, <1>8, <3>1
    <3> QED BY <1>5, <1>7, <2>1, <3>2, EmptyPlace
  <2>2. CASE planet[p].owner # u
    <3>1. Places(queue[u], p) = {} /\ queue[u] \in Seq(Build) /\ <<>> \in Seq(Build)
      BY <2>2 DEF MapInv, QueueAgrees, QueuesTyped
    <3>2. Alike(queue[u], <<>>, p)
      BY <1>8, <3>1, NothingThere
    <3>3. \A w \in Player : Alike(queue[w], queue'[w], p)
      BY <1>7, <3>2 DEF Alike
    <3> QED BY <1>5, <2>2, <3>3, KeptPlace, RecordFields DEF MapInv
  <2> QED BY <2>1, <2>2
<1>10. \A w \in Player : list'[w] = IF w = u THEN <<>> ELSE list[w]
  BY <1>3 DEF MapInv, IInv, ListsTyped
<1>11. PortalsAgree'
  <2> SUFFICES ASSUME NEW w \in Player, NEW i \in DOMAIN list'[w], NEW q, q = list'[w][i].planet,
                      planet'[q].owner = w, spare'[q] # w
               PROVE  list'[w][i].portal = planet'[q].portal
    BY DEF PortalsAgree
  <2>1. w # u /\ list'[w] = list[w]
    BY <1>10
  <2>2. q \in Planet
    <3>1. list[w][i] \in Entry
      BY <2>1 DEF MapInv, IInv, ListsTyped
    <3> QED BY <2>1, <3>1 DEF Entry
  <2>3. planet'[q] = planet[q]
    BY <1>5, <2>1, <2>2, PlanetsConstants
  <2>4. spare[q] # w
    BY <1>3, <2>1, <2>2
  <2> QED BY <2>1, <2>3, <2>4 DEF MapInv, PortalsAgree
<1>12. UnexploredExact'
  <2>1. mine \ Home \in SUBSET (Planet \ Home) /\ \A p \in mine \ Home : planet[p].owner # None
    BY <1>2, PlanetsConstants DEF Owns
  <2>2. \A p \in Planet \ Home : planet'[p].owner = None <=> p \in mine \ Home \/ planet[p].owner = None
    <3> TAKE p \in Planet \ Home
    <3>1. p \in mine <=> planet[p].owner = u
      BY <1>2 DEF Owns
    <3> QED BY <1>5, <3>1, PlanetsConstants
  <2>3. unexplored' = unexplored + Cardinality(mine \ Home) /\ short' = short
    BY <1>3
  <2>4. short \in Nat /\ UnexploredExact
    BY DEF MapInv, RestTyped
  <2> QED BY <2>1, <2>2, <2>3, <2>4, FreeMore
<1>13. OutOwnsNothing'
  <2> SUFFICES ASSUME NEW w \in Player \ active'
               PROVE  /\ list'[w] = <<>> /\ queue'[w] = <<>>
                      /\ \A p \in Planet : planet'[p].owner # w /\ spare'[p] # w
    BY DEF OutOwnsNothing
  <2>1. \A p \in Planet :
          /\ planet'[p].owner = None \/ (planet'[p].owner # u /\ planet'[p].owner = planet[p].owner)
          /\ spare'[p] = None \/ (spare'[p] # u /\ spare'[p] = spare[p])
    BY <1>3, <1>5
  <2>2. CASE w = u
    BY <1>7, <1>10, <2>1, <2>2, PlanetsConstants
  <2>3. CASE w # u
    <3>1. w \in Player \ active
      BY <1>3, <2>3
    <3>2. list[w] = <<>> /\ queue[w] = <<>> /\ \A p \in Planet : planet[p].owner # w /\ spare[p] # w
      BY <3>1 DEF MapInv, OutOwnsNothing
    <3> QED BY <1>7, <1>10, <2>1, <2>3, <3>2, PlanetsConstants
  <2> QED BY <2>2, <2>3
<1>14. unexplored' \in Int /\ active' \in SUBSET Player
  <2>1. IsFiniteSet(mine \ Home)
    <3>1. IsFiniteSet(Planet) /\ mine \ Home \subseteq Planet
      BY <1>2, PlanetsConstants DEF Owns
    <3> QED BY <3>1, FS_Subset
  <2>2. Cardinality(mine \ Home) \in Nat
    BY <2>1, FS_CardinalityType
  <2> QED BY <1>3, <2>2 DEF MapInv, RestTyped
<1>15. ancient' \subseteq Planet \ Home /\ nuked' \subseteq Planet \ Home /\ short' \in Nat
  BY DEF Leaves, MapInv, RestTyped, wonders
<1> QED BY <1>6, <1>7, <1>9, <1>11, <1>12, <1>13, <1>14, <1>15

LEMMA HomeSound ==
  ASSUME MapInv, IInv', NEW u \in Player, NEW h \in Home, ConquerHome(u, h)
  PROVE  MapInv'
<1> DEFINE v == planet[h].owner
<1>1. h \in Planet /\ v \in Player /\ v # None
  BY OwnerActive, PlanetsConstants DEF ConquerHome
<1>2. counted' \in [Player -> Int] /\ serving' \in Seq(Player)
  BY <1>1 DEF ConquerHome, MapInv, RestTyped
<1>3. CASE counted[v] = 1
  <2>1. Leaves(v, {h})
    BY <1>3 DEF ConquerHome
  <2>2. {h} \in SUBSET Home /\ \A p \in {h} : planet[p].owner = v
    OBVIOUS
  <2> HIDE DEF v
  <2>3. /\ RecordsTyped' /\ QueuesTyped' /\ \A q \in Planet : QueueAgrees(q)'
        /\ PortalsAgree' /\ UnexploredExact' /\ OutOwnsNothing'
        /\ unexplored' \in Int /\ active' \in SUBSET Player
        /\ ancient' \subseteq Planet \ Home /\ nuked' \subseteq Planet \ Home /\ short' \in Nat
    BY <1>1, <2>1, <2>2, LeavesSound
  <2> QED BY <1>2, <2>3 DEF MapInv, RestTyped
<1>4. CASE counted[v] # 1
  <2>1. /\ planet' = [planet EXCEPT ![h] = Surrendered(h)] /\ Loses(v, h)
        /\ active' = active /\ unexplored' = unexplored
        /\ ancient' = ancient /\ nuked' = nuked /\ spare' = spare /\ short' = short
    BY <1>4 DEF ConquerHome, wonders, history
  <2>2. Surrendered(h) \in Record /\ Surrendered(h).owner = None /\ Surrendered(h).construction = 0
    BY <1>1, OwnedIs
  <2>3. /\ RecordsTyped' /\ QueuesTyped' /\ \A q \in Planet : QueueAgrees(q)'
        /\ PortalsAgree' /\ OutOwnsNothing'
    BY <1>1, <2>1, <2>2, LossSound
  <2>4. UnexploredExact'
    <3>1. \A q \in Planet \ Home : planet'[q] = planet[q]
      BY <1>1, <2>1, MapAfter
    <3> QED BY <2>1, <3>1, FreeSame DEF MapInv
  <2> QED BY <1>2, <2>1, <2>3, <2>4 DEF MapInv, RestTyped
<1> QED BY <1>3, <1>4

LEMMA LeaveSound ==
  ASSUME MapInv, IInv', NEW u \in Player, Leave(u)
  PROVE  MapInv'
<1>1. Leaves(u, {}) /\ counted' \in [Player -> Int] /\ serving' \in Seq(Player)
  BY DEF Leave, MapInv, RestTyped
<1>2. /\ RecordsTyped' /\ QueuesTyped' /\ \A q \in Planet : QueueAgrees(q)'
      /\ PortalsAgree' /\ UnexploredExact' /\ OutOwnsNothing'
      /\ unexplored' \in Int /\ active' \in SUBSET Player
      /\ ancient' \subseteq Planet \ Home /\ nuked' \subseteq Planet \ Home /\ short' \in Nat
  BY <1>1, LeavesSound
<1> QED BY <1>1, <1>2 DEF MapInv, RestTyped

(* No planet changes hands, and only an active player's files change.      *)
LEMMA NobodyMoves ==
  ASSUME MapInv, NEW u \in active, active' = active, unexplored' = unexplored,
         spare' = spare, short' = short,
         \A p \in Planet : planet'[p].owner = planet[p].owner,
         \A w \in Player : w # u => list'[w] = list[w] /\ queue'[w] = queue[w]
  PROVE  UnexploredExact' /\ OutOwnsNothing'
<1>1. UnexploredExact'
  BY FreeSame DEF MapInv
<1>2. \A w \in Player \ active' : w \notin active /\ list'[w] = list[w] /\ queue'[w] = queue[w]
  OBVIOUS
<1>3. \A p \in Planet : planet'[p].owner \in active' \cup {planet[p].owner, None}
  OBVIOUS
<1>4. OutOwnsNothing'
  BY <1>2, <1>3, OutSame
<1> QED BY <1>1, <1>4

(* One planet is marked, in the map and in its owner's list: his only entry*)
(* for it, unless he has a spare one.                                      *)
LEMMA FlaggedEntries ==
  ASSUME MapInv, NEW u \in Player, NEW p \in Planet, NEW portal \in BOOLEAN, spare' = spare,
         planet'[p].portal = portal, \A q \in Planet : q # p => planet'[q].portal = planet[q].portal,
         \A q \in Planet : planet'[q].owner = planet[q].owner,
         planet[p].owner = u, list' = [list EXCEPT ![u] = Flagged(list[u], p, portal)]
  PROVE  PortalsAgree'
<1> DEFINE L == list[u]  k == At(L, p)  M == Flagged(L, p, portal)
<1>1. L \in Seq(Entry) /\ Entries(L, p) = Due(u, p)
  BY Mirrored DEF MapInv, IInv, ListsTyped
<1>2. Entries(L, p) # 0 /\ (spare[p] # u => Entries(L, p) = 1)
  BY <1>1 DEF Due
<1>3. k \in 1 .. Len(L) /\ L[k].planet = p
  BY <1>1, <1>2, Found
<1>4. M = [L EXCEPT ![k].portal = portal]
  BY <1>3 DEF Flagged
<1>5. \A w \in Player : list'[w] = IF w = u THEN M ELSE list[w]
  BY DEF MapInv, IInv, ListsTyped
<1>6. spare[p] # u => \A i \in DOMAIN L : L[i].planet = p => k = i
  BY <1>1, <1>2, Single
<1> HIDE DEF k, M, L
<1> SUFFICES ASSUME NEW w \in Player, NEW i \in DOMAIN list'[w], NEW q, q = list'[w][i].planet,
                    planet'[q].owner = w, spare'[q] # w
             PROVE  list'[w][i].portal = planet'[q].portal
  BY DEF PortalsAgree
<1>7. CASE w = u
  <2>0. DOMAIN M = DOMAIN L /\ list'[w] = M
    BY <1>4, <1>5, <1>7
  <2>1. i \in DOMAIN L /\ L[i] \in Entry /\ k \in DOMAIN L
    BY <1>1, <1>3, <2>0
  <2>2. /\ M[i].planet = L[i].planet /\ (i = k => M[i].portal = portal)
        /\ (i # k => M[i].portal = L[i].portal)
    BY <1>3, <1>4, <2>1 DEF Entry
  <2>3. q = L[i].planet /\ q \in Planet
    BY <1>5, <1>7, <2>1, <2>2 DEF Entry
  <2>4. CASE i = k
    BY <1>3, <1>5, <1>7, <2>2, <2>3, <2>4
  <2>5. CASE i # k
    <3>1. q # p
      BY <1>6, <1>7, <2>1, <2>3, <2>5
    <3>2. L[i].portal = planet[q].portal
      BY <1>7, <2>1, <2>3 DEF MapInv, PortalsAgree, L
    <3> QED BY <1>5, <1>7, <2>2, <2>3, <2>5, <3>1, <3>2
  <2> QED BY <2>4, <2>5
<1>8. CASE w # u
  <2>1. list[w][i] \in Entry /\ list'[w] = list[w]
    BY <1>5, <1>8 DEF MapInv, IInv, ListsTyped
  <2>2. q \in Planet
    BY <2>1 DEF Entry
  <2>3. q # p
    BY <1>8, <2>2
  <2> QED BY <2>1, <2>2, <2>3 DEF MapInv, PortalsAgree
<1> QED BY <1>7, <1>8

(* The list stays, and no portal comes or goes.                            *)
LEMMA SameEntries ==
  ASSUME MapInv, list' = list, spare' = spare,
         \A q \in Planet : planet'[q].portal = planet[q].portal /\ planet'[q].owner = planet[q].owner
  PROVE  PortalsAgree'
<1> SUFFICES ASSUME NEW w \in Player, NEW i \in DOMAIN list[w], NEW q, q = list[w][i].planet,
                    planet'[q].owner = w, spare[q] # w
             PROVE  list[w][i].portal = planet'[q].portal
  BY DEF PortalsAgree
<1>1. list[w][i] \in Entry
  BY DEF MapInv, IInv, ListsTyped
<1>2. q \in Planet
  BY <1>1 DEF Entry
<1> QED BY <1>2 DEF MapInv, PortalsAgree

LEMMA OfferSound ==
  ASSUME MapInv, IInv', NEW u \in Player, NEW v \in Player \cup {None}, NEW p \in Planet, OfferPlanet(u, v, p)
  PROVE  MapInv'
<1>1. /\ planet' = [planet EXCEPT ![p].surrender = v] /\ u \in active
      /\ list' = list /\ queue' = queue /\ active' = active /\ unexplored' = unexplored
      /\ spare' = spare /\ short' = short
  BY DEF OfferPlanet, history
<1>2. /\ RecordsTyped'
      /\ \A q \in Planet : /\ planet'[q].owner = planet[q].owner /\ planet'[q].portal = planet[q].portal
                           /\ planet'[q].rising = planet[q].rising
                           /\ planet'[q].construction = planet[q].construction
  <2>1. planet[p] \in Record
    BY RecordFields
  <2>2. [planet[p] EXCEPT !.surrender = v] \in Record
    BY <2>1 DEF Record
  <2> QED BY <1>1, <2>1, <2>2 DEF MapInv, RecordsTyped, Record
<1>3. \A q \in Planet : QueueAgrees(q)'
  <2> TAKE q \in Planet
  <2>1. \A w \in Player : Alike(queue[w], queue'[w], q)
    BY <1>1 DEF Alike
  <2> QED BY <1>2, <2>1, KeptPlace, RecordFields DEF MapInv
<1>4. PortalsAgree'
  BY <1>1, <1>2, SameEntries
<1>5. UnexploredExact' /\ OutOwnsNothing'
  BY <1>1, <1>2, NobodyMoves
<1>6. RestTyped' /\ QueuesTyped'
  BY DEF OfferPlanet, MapInv, RestTyped, QueuesTyped, wonders, history
<1> QED BY <1>2, <1>3, <1>4, <1>5, <1>6 DEF MapInv

LEMMA RazeSound ==
  ASSUME MapInv, IInv', NEW u \in Player, NEW p \in Planet, RazePortal(u, p)
  PROVE  MapInv'
<1>1. /\ planet' = [planet EXCEPT ![p].portal = FALSE, ![p].rising = FALSE]
      /\ list' = [list EXCEPT ![u] = Flagged(list[u], p, FALSE)]
      /\ u \in active /\ planet[p].owner = u
      /\ queue' = queue /\ active' = active /\ unexplored' = unexplored
      /\ spare' = spare /\ short' = short
  BY DEF RazePortal, history
<1>2. /\ RecordsTyped'
      /\ \A q \in Planet : /\ planet'[q].owner = planet[q].owner
                           /\ planet'[q].construction = planet[q].construction
                           /\ q # p => planet'[q] = planet[q]
      /\ planet'[p].portal = FALSE /\ planet'[p].rising = FALSE
  <2>1. planet[p] \in Record
    BY RecordFields
  <2>2. [planet[p] EXCEPT !.portal = FALSE, !.rising = FALSE] \in Record
    BY <2>1 DEF Record
  <2>3. planet' = [planet EXCEPT ![p] = [planet[p] EXCEPT !.portal = FALSE, !.rising = FALSE]]
    BY <1>1 DEF MapInv, RecordsTyped
  <2> QED BY <2>1, <2>2, <2>3 DEF MapInv, RecordsTyped, Record
<1>3. \A q \in Planet : QueueAgrees(q)'
  <2> TAKE q \in Planet
  <2>1. \A w \in Player : Alike(queue[w], queue'[w], q)
    BY <1>1 DEF Alike
  <2>2. planet'[q].rising => planet[q].rising /\ (planet[q].portal => planet'[q].portal)
    BY <1>2
  <2> QED BY <1>2, <2>1, <2>2, KeptPlace, RecordFields DEF MapInv
<1>4. PortalsAgree'
  <2>1. \A q \in Planet : q # p => planet'[q].portal = planet[q].portal
    BY <1>2
  <2>2. \A q \in Planet : planet'[q].owner = planet[q].owner
    BY <1>2
  <2>3. FALSE \in BOOLEAN /\ planet'[p].portal = FALSE
    BY <1>2
  <2>4. /\ spare' = spare /\ planet[p].owner = u
        /\ list' = [list EXCEPT ![u] = Flagged(list[u], p, FALSE)]
    BY <1>1
  <2> QED BY <2>1, <2>2, <2>3, <2>4, FlaggedEntries
<1>5. UnexploredExact' /\ OutOwnsNothing'
  <2>1. \A w \in Player : w # u => list'[w] = list[w] /\ queue'[w] = queue[w]
    BY <1>1 DEF MapInv, IInv, ListsTyped
  <2> QED BY <1>1, <1>2, <2>1, NobodyMoves
<1>6. RestTyped' /\ QueuesTyped'
  BY DEF RazePortal, MapInv, RestTyped, QueuesTyped, wonders, history
<1> QED BY <1>2, <1>3, <1>4, <1>5, <1>6 DEF MapInv

LEMMA AddBuildSound ==
  ASSUME MapInv, IInv', NEW u \in Player, NEW p \in Planet, NEW portal \in BOOLEAN,
         NEW qty \in 1 .. MaxQty, AddBuild(u, p, portal, qty)
  PROVE  MapInv'
<1> DEFINE b == [planet |-> p, portal |-> portal, qty |-> qty, left |-> Time]
           R == [planet[p] EXCEPT !.construction = @ + qty, !.rising = @ \/ portal]
<1>1. /\ list' = IF portal THEN [list EXCEPT ![u] = Flagged(list[u], p, planet[p].portal)] ELSE list
      /\ queue' = [queue EXCEPT ![u] = Append(queue[u], b)]
      /\ u \in active /\ planet[p].owner = u /\ active' = active /\ unexplored' = unexplored
      /\ spare' = spare /\ short' = short
  BY DEF AddBuild, history
<1>2. b \in Build /\ b.planet = p /\ b.portal = portal /\ b.qty = qty /\ qty \in Nat /\ qty > 0
  BY PlanetsConstants DEF Build
<1>3. planet[p] \in Record
  BY RecordFields
<1>4. /\ R \in Record /\ R.owner = u /\ R.portal = planet[p].portal
      /\ (R.rising <=> planet[p].rising \/ portal) /\ R.construction = planet[p].construction + qty
  <2>1. DOMAIN planet[p] = Fields
    BY <1>3 DEF Record, Fields
  <2>2. /\ R.owner = planet[p].owner /\ R.portal = planet[p].portal
        /\ R.rising = (planet[p].rising \/ portal)
        /\ R.construction = planet[p].construction + qty
        /\ R.surrender = planet[p].surrender
    BY <2>1 DEF Fields
  <2>3. R = [owner |-> R.owner, portal |-> R.portal, rising |-> R.rising,
             construction |-> R.construction, surrender |-> R.surrender]
    <3>1. planet[p] = [f \in Fields |-> planet[p][f]]
      BY <1>3 DEF Record, Fields
    <3>2. R = [f \in Fields |-> R[f]]
      BY <3>1 DEF Fields
    <3> HIDE DEF R
    <3> QED BY <3>2 DEF Fields
  <2> HIDE DEF R
  <2>4. R.construction \in Nat /\ R.rising \in BOOLEAN
    BY <1>2, <2>2, RecordFields
  <2>5. R \in Record
    BY <2>2, <2>3, <2>4, RecordFields DEF Record
  <2> QED BY <1>1, <2>2, <2>5
<1>5. planet' = [planet EXCEPT ![p] = R]
  BY DEF AddBuild, MapInv, RecordsTyped
<1> HIDE DEF b, R
<1>6. RecordsTyped' /\ \A q \in Planet : planet'[q] = IF q = p THEN R ELSE planet[q]
  BY <1>4, <1>5 DEF MapInv, RecordsTyped
<1>7. /\ Append(queue[u], b) \in Seq(Build)
      /\ \A q : q # p => Alike(queue[u], Append(queue[u], b), q)
      /\ Work(Append(queue[u], b), p) = Work(queue[u], p) + qty
      /\ Promised(Append(queue[u], b), p) <=> Promised(queue[u], p) \/ portal
  <2>1. queue[u] \in Seq(Build)
    BY DEF MapInv, QueuesTyped
  <2> QED BY <1>2, <2>1, Queued
<1>8. QueuesTyped' /\ \A w \in Player : queue'[w] = IF w = u THEN Append(queue[u], b) ELSE queue[w]
  BY <1>1, <1>7 DEF MapInv, QueuesTyped
<1>9. QueueAgrees(p)'
  <2>1. \A w \in Player : w # u => Places(queue'[w], p) = {}
    BY <1>1, <1>8 DEF MapInv, QueueAgrees
  <2>2. planet[p].construction = Work(queue[u], p) /\ u # None
    BY <1>1, PlanetsConstants DEF MapInv, QueueAgrees
  <2>3. planet[p].rising => planet[p].portal \/ Promised(queue[u], p)
    BY <1>1, <2>2 DEF MapInv, QueueAgrees
  <2>4. planet'[p] = R /\ queue'[u] = Append(queue[u], b)
    BY <1>6, <1>8
  <2> QED BY <1>4, <1>7, <2>1, <2>2, <2>3, <2>4 DEF QueueAgrees
<1>10. ASSUME NEW q \in Planet, q # p PROVE QueueAgrees(q)'
  <2>1. \A w \in Player : Alike(queue[w], queue'[w], q)
    BY <1>7, <1>8, <1>10 DEF Alike
  <2>2. planet'[q] = planet[q]
    BY <1>6, <1>10
  <2> QED BY <2>1, <2>2, KeptPlace, RecordFields DEF MapInv
<1>11. \A q \in Planet : planet'[q].portal = planet[q].portal /\ planet'[q].owner = planet[q].owner
  BY <1>1, <1>4, <1>6
<1>12. PortalsAgree'
  <2>1. CASE portal
    BY <1>1, <1>11, <2>1, FlaggedEntries, RecordFields
  <2>2. CASE ~portal
    BY <1>1, <1>11, <2>2, SameEntries
  <2> QED BY <2>1, <2>2
<1>13. UnexploredExact' /\ OutOwnsNothing'
  <2>1. \A w \in Player : w # u => list'[w] = list[w] /\ queue'[w] = queue[w]
    BY <1>1, <1>8 DEF MapInv, IInv, ListsTyped
  <2> QED BY <1>1, <1>11, <2>1, NobodyMoves
<1>14. RestTyped'
  BY DEF AddBuild, MapInv, RestTyped, wonders, history
<1> QED BY <1>6, <1>8, <1>9, <1>10, <1>12, <1>13, <1>14 DEF MapInv

(* A planet's record after builds have been cancelled or done.             *)
LEMMA Retyped ==
  ASSUME NEW r \in Record, NEW R, R = [f \in Fields |-> R[f]],
         R.owner = r.owner, R.surrender = r.surrender, R.portal \in BOOLEAN,
         R.rising \in BOOLEAN, R.construction \in Nat
  PROVE  R \in Record
<1>1. R = [owner |-> R.owner, portal |-> R.portal, rising |-> R.rising,
           construction |-> R.construction, surrender |-> R.surrender]
  BY DEF Fields
<1>2. r.owner \in Player \cup {None} /\ r.surrender \in Player \cup {None}
  BY DEF Record
<1> QED BY <1>1, <1>2 DEF Record

LEMMA CancelSound ==
  ASSUME MapInv, IInv', NEW u \in Player, NEW S, CancelBuilds(u, S)
  PROVE  MapInv'
<1> DEFINE Q == queue[u]
           Portals(p) == {i \in Out(Q, S, p) : Q[i].portal}
           L == list[u]
           M == [i \in DOMAIN L |-> IF Portals(L[i].planet) = {} \/ At(L, L[i].planet) # i THEN L[i]
                                    ELSE [L[i] EXCEPT !.portal = planet[L[i].planet].portal]]
<1>1. /\ queue' = [queue EXCEPT ![u] = Swept(Q, S)]
      /\ planet' = [p \in Planet |-> [planet[p] EXCEPT !.construction = @ - Qty(Q, Out(Q, S, p)),
                                                       !.rising = @ /\ Portals(p) = {}]]
      /\ list' = [list EXCEPT ![u] = M]
      /\ S \in SUBSET DOMAIN Q /\ u \in active /\ active' = active /\ unexplored' = unexplored
      /\ spare' = spare /\ short' = short
  BY DEF CancelBuilds, Out, history
<1>2. Q \in Seq(Build) /\ Q \in Seq(Loose)
  BY Builds DEF MapInv, QueuesTyped
<1>3. \A q : Alike(queue[u], Q, q)
  BY DEF Alike
<1> HIDE DEF Portals, Q
<1>4. \A p \in Planet : /\ planet'[p] = [f \in Fields |-> planet'[p][f]]
                        /\ planet'[p].owner = planet[p].owner
                        /\ planet'[p].surrender = planet[p].surrender
                        /\ planet'[p].portal = planet[p].portal
                        /\ planet'[p].construction = planet[p].construction - Qty(Q, Out(Q, S, p))
                        /\ planet'[p].rising = (planet[p].rising /\ Portals(p) = {})
  <2> TAKE p \in Planet
  <2>1. planet[p] = [f \in Fields |-> planet[p][f]]
    BY RecordFields DEF Record, Fields
  <2>2. planet'[p] = [planet[p] EXCEPT !.construction = @ - Qty(Q, Out(Q, S, p)),
                                       !.rising = @ /\ Portals(p) = {}]
    BY <1>1
  <2> QED BY <2>1, <2>2 DEF Fields
<1>5. ASSUME NEW p \in Planet PROVE QueueAgrees(p)' /\ planet'[p].construction \in Nat
  <2>1. planet'[p].rising => planet[p].rising /\ {i \in Out(Q, S, p) : Q[i].portal} = {}
    BY <1>4 DEF Portals
  <2>2. planet[p].portal => planet'[p].portal
    BY <1>4
  <2>3. S \in SUBSET DOMAIN Q /\ Q \in Seq(Loose)
    BY <1>1, <1>2
  <2> QED BY <1>1, <1>3, <1>4, <2>1, <2>2, <2>3, Shortened, RecordFields DEF MapInv
<1>6. RecordsTyped'
  <2>1. ASSUME NEW p \in Planet PROVE planet'[p] \in Record
    <3>1. planet'[p].rising \in BOOLEAN
      BY <1>4
    <3> QED BY <1>4, <1>5, <3>1, Retyped, RecordFields
  <2> QED BY <1>1, <2>1 DEF RecordsTyped
<1>7. QueuesTyped'
  <2>1. Swept(Q, S) \in Seq(Build)
    BY <1>2, SweptIs
  <2> QED BY <1>1, <2>1 DEF MapInv, QueuesTyped
<1>8. PortalsAgree'
  <2> SUFFICES ASSUME NEW w \in Player, NEW i \in DOMAIN list'[w], NEW q, q = list'[w][i].planet,
                      planet'[q].owner = w, spare'[q] # w
               PROVE  list'[w][i].portal = planet'[q].portal
    BY DEF PortalsAgree
  <2>1. list'[w] = IF w = u THEN M ELSE list[w]
    BY <1>1 DEF MapInv, IInv, ListsTyped
  <2>2. i \in DOMAIN list[w] /\ list[w][i] \in Entry
    <3>1. DOMAIN M = DOMAIN L
      OBVIOUS
    <3>2. i \in DOMAIN list[w]
      BY <2>1, <3>1
    <3> QED BY <3>2 DEF MapInv, IInv, ListsTyped
  <2>3. /\ list'[w][i].planet = list[w][i].planet
        /\ \/ list'[w][i].portal = list[w][i].portal
           \/ list'[w][i].portal = planet[list[w][i].planet].portal
    <3>1. CASE w # u
      BY <2>1, <3>1
    <3>2. CASE w = u
      <4>1. i \in DOMAIN L /\ L[i] \in Entry /\ list'[w][i] = M[i]
        BY <2>1, <2>2, <3>2
      <4>2. M[i] = L[i] \/ M[i] = [L[i] EXCEPT !.portal = planet[L[i].planet].portal]
        BY <4>1
      <4>3. M[i].planet = L[i].planet
            /\ (M[i].portal = L[i].portal \/ M[i].portal = planet[L[i].planet].portal)
        BY <4>1, <4>2 DEF Entry
      <4> QED BY <3>2, <4>1, <4>3
    <3> QED BY <3>1, <3>2
  <2> HIDE DEF M
  <2>4. q \in Planet /\ q = list[w][i].planet
    BY <2>2, <2>3 DEF Entry
  <2>5. planet[q].owner = w /\ spare[q] # w /\ planet'[q].portal = planet[q].portal
    BY <1>1, <1>4, <2>4
  <2>6. list[w][i].portal = planet[q].portal
    BY <2>2, <2>4, <2>5 DEF MapInv, PortalsAgree
  <2> QED BY <2>3, <2>4, <2>5, <2>6
<1>9. UnexploredExact' /\ OutOwnsNothing'
  <2>1. \A w \in Player : w # u => list'[w] = list[w] /\ queue'[w] = queue[w]
    BY <1>1 DEF MapInv, IInv, ListsTyped, QueuesTyped
  <2> QED BY <1>1, <1>4, <2>1, NobodyMoves
<1>10. RestTyped'
  BY DEF CancelBuilds, MapInv, RestTyped, wonders, history
<1> QED BY <1>5, <1>6, <1>7, <1>8, <1>9, <1>10 DEF MapInv

LEMMA Mapped ==
  ASSUME NEW Y, NEW n \in Nat, NEW Q \in [1 .. n -> Y]
  PROVE  Q \in Seq(Y)
OBVIOUS

(* A queue and a copy in which no build is for another planet, of another  *)
(* kind or of another size.                                                *)
LEMMA AlikeCopies ==
  ASSUME NEW A \in Seq(Loose), NEW Q, DOMAIN Q = DOMAIN A,
         \A i \in DOMAIN A : /\ Q[i].planet = A[i].planet /\ Q[i].qty = A[i].qty
                             /\ Q[i].portal = A[i].portal
  PROVE  \A p : Alike(A, Q, p)
<1> TAKE p
<1>1. Places(Q, p) = Places(A, p) /\ (Promised(Q, p) <=> Promised(A, p))
  BY DEF Places, Promised
<1>2. Weighed(A, Places(A, p)) /\ \A i \in Places(A, p) : Q[i].qty = A[i].qty
  BY QueueWeighed DEF Places
<1>3. Qty(A, Places(A, p)) = Qty(Q, Places(A, p))
  BY <1>2, QtyCopied
<1> QED BY <1>1, <1>3 DEF Alike, Work

(* A queue whose builds have come a tick closer.                           *)
LEMMA Aged ==
  ASSUME NEW A \in Seq(Build), NEW Q, Q = [i \in DOMAIN A |-> [A[i] EXCEPT !.left = @ - 1]]
  PROVE  /\ Q \in Seq(Loose) /\ DOMAIN Q = DOMAIN A
         /\ \A p : Alike(A, Q, p)
         /\ \A i \in DOMAIN Q \ Done(Q) : Q[i] \in Build
<1>1. \A i \in DOMAIN A : /\ Q[i] \in Loose /\ Q[i].planet = A[i].planet /\ Q[i].qty = A[i].qty
                          /\ Q[i].portal = A[i].portal
                          /\ Q[i].left > 0 => Q[i] \in Build
  <2> TAKE i \in DOMAIN A
  <2>1. A[i] \in Build
    OBVIOUS
  <2>2. /\ A[i].planet \in Planet /\ A[i].portal \in BOOLEAN /\ A[i].qty \in 1 .. MaxQty
        /\ A[i].left \in 1 .. Time /\ Time \in Nat
    BY <2>1, PlanetsConstants DEF Build
  <2>3. Q[i] = [planet |-> A[i].planet, portal |-> A[i].portal, qty |-> A[i].qty, left |-> A[i].left - 1]
    BY <2>1 DEF Build
  <2>4. A[i].left - 1 \in 0 .. Time /\ (A[i].left - 1 > 0 => A[i].left - 1 \in 1 .. Time)
    BY <2>2
  <2> QED BY <2>2, <2>3, <2>4 DEF Build, Loose
<1>2. Q \in Seq(Loose) /\ DOMAIN Q = DOMAIN A
  <2>1. DOMAIN A = 1 .. Len(A) /\ Len(A) \in Nat
    OBVIOUS
  <2>2. Q \in [DOMAIN A -> Loose]
    BY <1>1
  <2> QED BY <2>1, <2>2, Mapped
<1>3. A \in Seq(Loose)
  BY Builds
<1>4. \A p : Alike(A, Q, p)
  BY <1>1, <1>2, <1>3, AlikeCopies
<1>5. \A i \in DOMAIN Q \ Done(Q) : Q[i].left > 0
  <2> TAKE i \in DOMAIN Q \ Done(Q)
  <2>1. Q[i] \in Loose /\ ~(Q[i].left <= 0)
    BY <1>1, <1>2 DEF Done
  <2>2. Q[i].left \in 0 .. Time /\ Time \in Nat
    BY <2>1, PlanetsConstants DEF Loose
  <2> QED BY <2>1, <2>2
<1> QED BY <1>1, <1>2, <1>4, <1>5

LEMMA ServeSound ==
  ASSUME MapInv, NEW u \in active, Serve(u), active' = active, unexplored' = unexplored,
         spare' = spare, short' = short
  PROVE  /\ RecordsTyped' /\ QueuesTyped' /\ \A q \in Planet : QueueAgrees(q)'
         /\ PortalsAgree' /\ UnexploredExact' /\ OutOwnsNothing'
         /\ counted' \in [Player -> Int]
<1> DEFINE Q == [i \in DOMAIN queue[u] |-> [queue[u][i] EXCEPT !.left = @ - 1]]
           S == Done(Q)
           Portals(p) == {i \in Out(Q, S, p) : Q[i].portal}
           L == list[u]
           M == [i \in DOMAIN L |-> [L[i] EXCEPT !.portal = @ \/ (Portals(L[i].planet) # {}
                                                                    /\ At(L, L[i].planet) = i)]]
<1>1. /\ queue' = [queue EXCEPT ![u] = Swept(Q, S)]
      /\ planet' = [p \in Planet |-> [planet[p] EXCEPT !.construction = @ - Qty(Q, Out(Q, S, p)),
                                                       !.rising = @ /\ Portals(p) = {},
                                                       !.portal = @ \/ Portals(p) # {}]]
      /\ list' = [list EXCEPT ![u] = M]
      /\ counted' = [counted EXCEPT ![u] = Len(L)]
  BY DEF Serve, Out
<1>2. u \in Player
  BY DEF MapInv, RestTyped
<1>3. /\ Q \in Seq(Loose) /\ \A p : Alike(queue[u], Q, p)
      /\ \A i \in DOMAIN Q \ S : Q[i] \in Build
  <2>1. queue[u] \in Seq(Build)
    BY <1>2 DEF MapInv, QueuesTyped
  <2> DEFINE W == Q
  <2>2. W = [i \in DOMAIN queue[u] |-> [queue[u][i] EXCEPT !.left = @ - 1]]
    OBVIOUS
  <2> HIDE DEF W
  <2>3. /\ W \in Seq(Loose) /\ \A p : Alike(queue[u], W, p)
        /\ \A i \in DOMAIN W \ Done(W) : W[i] \in Build
    BY <2>1, <2>2, Aged
  <2> QED BY <2>3 DEF W
<1>4. S \in SUBSET DOMAIN Q
  BY DEF Done
<1> HIDE DEF Portals, Q, S
<1>5. \A p \in Planet : /\ planet'[p] = [f \in Fields |-> planet'[p][f]]
                        /\ planet'[p].owner = planet[p].owner
                        /\ planet'[p].surrender = planet[p].surrender
                        /\ planet'[p].portal = (planet[p].portal \/ Portals(p) # {})
                        /\ planet'[p].construction = planet[p].construction - Qty(Q, Out(Q, S, p))
                        /\ planet'[p].rising = (planet[p].rising /\ Portals(p) = {})
  <2> TAKE p \in Planet
  <2>1. planet[p] = [f \in Fields |-> planet[p][f]]
    BY RecordFields DEF Record, Fields
  <2>2. planet'[p] = [planet[p] EXCEPT !.construction = @ - Qty(Q, Out(Q, S, p)),
                                       !.rising = @ /\ Portals(p) = {},
                                       !.portal = @ \/ Portals(p) # {}]
    BY <1>1
  <2> QED BY <2>1, <2>2 DEF Fields
<1>6. ASSUME NEW p \in Planet PROVE QueueAgrees(p)' /\ planet'[p].construction \in Nat
  <2>1. planet'[p].rising => planet[p].rising /\ {i \in Out(Q, S, p) : Q[i].portal} = {}
    BY <1>5 DEF Portals
  <2>2. planet[p].portal => planet'[p].portal
    BY <1>5
  <2> QED BY <1>1, <1>2, <1>3, <1>4, <1>5, <2>1, <2>2, Shortened, RecordFields DEF MapInv
<1>7. RecordsTyped'
  <2>1. ASSUME NEW p \in Planet PROVE planet'[p] \in Record
    <3>1. planet'[p].rising \in BOOLEAN /\ planet'[p].portal \in BOOLEAN
      BY <1>5
    <3> QED BY <1>5, <1>6, <3>1, Retyped, RecordFields
  <2> QED BY <1>1, <2>1 DEF RecordsTyped
<1>8. QueuesTyped'
  <2> DEFINE R == Swept(Q, S)
  <2>1. R \in Seq(Loose) /\ \A j \in DOMAIN R : \E i \in DOMAIN Q \ S : R[j] = Q[i]
    <3> HIDE DEF R
    <3> QED BY <1>3, <1>4, WorkSwept DEF R
  <2>2. queue' = [queue EXCEPT ![u] = R]
    BY <1>1
  <2> HIDE DEF R
  <2>3. R \in Seq(Build)
    <3>1. \A j \in DOMAIN R : R[j] \in Build
      BY <1>3, <2>1
    <3> QED BY <2>1, <3>1
  <2> QED BY <2>2, <2>3 DEF MapInv, QueuesTyped
<1>9. PortalsAgree'
  <2> SUFFICES ASSUME NEW w \in Player, NEW i \in DOMAIN list'[w], NEW q, q = list'[w][i].planet,
                      planet'[q].owner = w, spare'[q] # w
               PROVE  list'[w][i].portal = planet'[q].portal
    BY DEF PortalsAgree
  <2>1. list'[w] = IF w = u THEN M ELSE list[w]
    BY <1>1 DEF MapInv, IInv, ListsTyped
  <2>2. i \in DOMAIN list[w] /\ list[w][i] \in Entry
    <3>1. DOMAIN M = DOMAIN L
      OBVIOUS
    <3>2. i \in DOMAIN list[w]
      BY <2>1, <3>1
    <3> QED BY <3>2 DEF MapInv, IInv, ListsTyped
  <2>3. /\ w # u => list'[w][i] = list[w][i]
        /\ w = u => /\ list'[w][i].planet = L[i].planet
                    /\ list'[w][i].portal = (L[i].portal \/ (Portals(L[i].planet) # {}
                                                              /\ At(L, L[i].planet) = i))
    <3>1. w # u => list'[w][i] = list[w][i]
      BY <2>1
    <3>2. ASSUME w = u
          PROVE  /\ list'[w][i].planet = L[i].planet
                 /\ list'[w][i].portal = (L[i].portal \/ (Portals(L[i].planet) # {}
                                                            /\ At(L, L[i].planet) = i))
      <4>1. i \in DOMAIN L /\ L[i] \in Entry /\ list'[w][i] = M[i]
        BY <2>1, <2>2, <3>2
      <4> QED BY <4>1 DEF Entry
    <3> QED BY <3>1, <3>2
  <2> HIDE DEF M
  <2>4. q \in Planet /\ q = list[w][i].planet
    BY <2>2, <2>3 DEF Entry
  <2>5. planet[q].owner = w /\ spare[q] # w
    BY <1>5, <2>4
  <2>6. list[w][i].portal = planet[q].portal
    BY <2>2, <2>4, <2>5 DEF MapInv, PortalsAgree
  <2>7. CASE w # u
    <3>1. Places(Q, q) = {}
      BY <1>2, <1>3, <2>4, <2>5, <2>7 DEF MapInv, QueueAgrees, Alike
    <3>2. Portals(q) = {}
      BY <1>4, <3>1 DEF Portals, Out, Places
    <3>3. planet'[q].portal = planet[q].portal
      BY <1>5, <2>4, <3>2, RecordFields
    <3> QED BY <2>3, <2>6, <2>7, <3>3
  <2>8. CASE w = u
    <3>1. At(L, q) = i
      <4>1. L \in Seq(Entry) /\ Entries(L, q) = Due(u, q)
        BY <1>2, <2>4, Mirrored DEF MapInv, IInv, ListsTyped
      <4>2. Entries(L, q) = 1
        BY <2>5, <2>8, <4>1 DEF Due
      <4> QED BY <2>2, <2>4, <2>8, <4>1, <4>2, Single
    <3>2. list'[w][i].portal = (L[i].portal \/ Portals(q) # {})
      BY <2>3, <2>4, <2>8, <3>1
    <3> QED BY <1>5, <2>4, <2>6, <2>8, <3>2
  <2> QED BY <2>7, <2>8
<1>10. UnexploredExact' /\ OutOwnsNothing'
  <2>1. \A w \in Player : w # u => list'[w] = list[w] /\ queue'[w] = queue[w]
    BY <1>1 DEF MapInv, IInv, ListsTyped, QueuesTyped
  <2> QED BY <1>5, <2>1, NobodyMoves
<1>11. counted' \in [Player -> Int]
  <2>1. Len(L) \in Int
    BY <1>2 DEF MapInv, IInv, ListsTyped
  <2> QED BY <1>1, <2>1 DEF MapInv, RestTyped
<1> QED BY <1>6, <1>7, <1>8, <1>9, <1>10, <1>11

LEMMA SoundInitially == Init => MapInv
<1> SUFFICES ASSUME Init PROVE MapInv
  OBVIOUS
<1> DEFINE R == [owner |-> None, portal |-> FALSE, rising |-> FALSE,
                 construction |-> 0, surrender |-> None]
<1>1. planet = [p \in Planet |-> R] /\ R \in Record /\ R.owner = None /\ R.construction = 0 /\ R.rising = FALSE
  BY DEF Init, Record
<1> HIDE DEF R
<1>2. RecordsTyped /\ \A p \in Planet : planet[p] = R
  BY <1>1 DEF RecordsTyped
<1>3. /\ list = [u \in Player |-> <<>>] /\ queue = [u \in Player |-> <<>>] /\ active = {}
      /\ counted = [u \in Player |-> 0] /\ serving = <<>> /\ unexplored = Cardinality(Planet \ Home)
      /\ ancient = Ancient /\ nuked = {} /\ spare = [p \in Planet |-> None] /\ short = 0
  BY DEF Init
<1>4. \A p \in Planet : QueueAgrees(p)
  <2>1. \A u \in Player, p \in Planet : Places(queue[u], p) = {}
    BY <1>3 DEF Places
  <2> QED BY <1>1, <1>2, <2>1 DEF QueueAgrees
<1>5. PortalsAgree
  BY <1>3 DEF PortalsAgree
<1>6. UnexploredExact
  <2>1. {p \in Planet \ Home : planet[p].owner = None} = Planet \ Home
    BY <1>1, <1>2
  <2>2. Cardinality(Planet \ Home) \in Nat
    <3>1. IsFiniteSet(Planet) /\ Planet \ Home \subseteq Planet
      BY PlanetsConstants
    <3> QED BY <3>1, FS_Subset, FS_CardinalityType
  <2>3. unexplored = Cardinality(Planet \ Home) - short
    BY <1>3, <2>2
  <2> QED BY <2>1, <2>3 DEF UnexploredExact
<1>7. OutOwnsNothing
  BY <1>1, <1>2, <1>3, PlanetsConstants DEF OutOwnsNothing
<1>8. RestTyped
  <2>1. IsFiniteSet(Planet) /\ Planet \ Home \subseteq Planet
    BY PlanetsConstants
  <2>2. Cardinality(Planet \ Home) \in Nat
    BY <2>1, FS_Subset, FS_CardinalityType
  <2> QED BY <1>3, <2>2, PlanetsConstants DEF RestTyped
<1>9. QueuesTyped
  BY <1>3 DEF QueuesTyped
<1> QED BY Initially, <1>2, <1>4, <1>5, <1>6, <1>7, <1>8, <1>9 DEF MapInv

(* The tick goes on, whoever is next in the list of users.                 *)
LEMMA TickSound ==
  ASSUME MapInv, IInv', NEW rest \in Seq(Player), ServeNext(rest)
  PROVE  MapInv'
<1>1. PICK k \in 1 .. Len(rest) + 1 :
        /\ k <= Len(rest) => rest[k] \in active
        /\ serving' = SubSeq(rest, k, Len(rest))
        /\ IF k > Len(rest) THEN UNCHANGED <<planet, list, queue, counted>> ELSE Serve(rest[k])
        /\ active' = active /\ unexplored' = unexplored
        /\ ancient' = ancient /\ nuked' = nuked /\ spare' = spare /\ short' = short
  BY DEF ServeNext, wonders, history
<1>2. serving' \in Seq(Player)
  BY <1>1
<1>3. CASE k > Len(rest)
  <2>1. planet' = planet /\ list' = list /\ queue' = queue /\ counted' = counted
    BY <1>1, <1>3
  <2>2. \A p \in Planet : QueueAgrees(p)'
    BY <2>1 DEF MapInv, QueueAgrees
  <2>3. PortalsAgree' /\ UnexploredExact' /\ OutOwnsNothing'
    BY <1>1, <2>1 DEF MapInv, PortalsAgree, UnexploredExact, OutOwnsNothing
  <2>4. RecordsTyped' /\ QueuesTyped' /\ RestTyped'
    BY <1>1, <1>2, <2>1 DEF MapInv, RecordsTyped, QueuesTyped, RestTyped
  <2> QED BY <2>2, <2>3, <2>4 DEF MapInv
<1>4. CASE ~(k > Len(rest))
  <2>1. rest[k] \in active /\ Serve(rest[k])
    BY <1>1, <1>4
  <2>2. /\ RecordsTyped' /\ QueuesTyped' /\ \A q \in Planet : QueueAgrees(q)'
        /\ PortalsAgree' /\ UnexploredExact' /\ OutOwnsNothing'
        /\ counted' \in [Player -> Int]
    BY <1>1, <2>1, ServeSound
  <2>3. RestTyped'
    BY <1>1, <1>2, <2>2 DEF MapInv, RestTyped
  <2> QED BY <2>2, <2>3 DEF MapInv
<1> QED BY <1>3, <1>4

LEMMA StepSound == MapInv /\ [Next]_vars => MapInv'
<1> SUFFICES ASSUME MapInv, [Next]_vars PROVE MapInv'
  OBVIOUS
<1>1. IInv'
  BY StepKeeps DEF MapInv
<1>2. CASE Tick
  <2>1. ServeNext(Order) /\ Order \in Seq(Player)
    BY <1>2, PlanetsConstants DEF Tick
  <2> QED BY <1>1, <2>1, TickSound
<1>3. CASE TickOn
  <2>1. serving \in Seq(Player) /\ serving # <<>> /\ ServeNext(Tail(serving))
    BY <1>3 DEF TickOn, MapInv, RestTyped
  <2>2. Tail(serving) \in Seq(Player)
    BY <2>1
  <2> QED BY <1>1, <2>1, <2>2, TickSound
<1>4. ASSUME NEW u \in Player, NEW h \in Home, Join(u, h) \/ ConquerHome(u, h) PROVE MapInv'
  BY <1>1, <1>4, JoinSound, HomeSound
<1>5. ASSUME NEW u \in Player, Leave(u) PROVE MapInv'
  BY <1>1, <1>5, LeaveSound
<1>6. ASSUME NEW u \in Player, NEW S \in SUBSET (1 .. MaxQueue), CancelBuilds(u, S) PROVE MapInv'
  BY <1>1, <1>6, CancelSound
<1>7. ASSUME NEW u \in Player, NEW p \in Planet,
             \/ \E portal \in BOOLEAN, qty \in 1 .. MaxQty : AddBuild(u, p, portal, qty)
             \/ RazePortal(u, p) \/ LayWaste(u, p) \/ NukePlanet(u, p) \/ TakePlanet(u, p)
             \/ Conquer(u, p) \/ MindControl(u, p)
             \/ \E v \in Player \cup {None} : OfferPlanet(u, v, p)
      PROVE  MapInv'
  BY <1>1, <1>7, AddBuildSound, RazeSound, LayWasteSound, NukeSound, TakeSound, ConquerSound, OfferSound
<1>8. CASE UNCHANGED vars
  <2>1. /\ planet' = planet /\ list' = list /\ queue' = queue /\ counted' = counted
        /\ active' = active /\ unexplored' = unexplored /\ serving' = serving
        /\ ancient' = ancient /\ nuked' = nuked /\ spare' = spare /\ short' = short
    BY <1>8 DEF vars, wonders, history
  <2>2. \A p \in Planet : QueueAgrees(p)'
    BY <2>1 DEF MapInv, QueueAgrees
  <2>3. PortalsAgree' /\ UnexploredExact' /\ OutOwnsNothing'
    BY <2>1 DEF MapInv, PortalsAgree, UnexploredExact, OutOwnsNothing
  <2>4. RecordsTyped' /\ QueuesTyped' /\ RestTyped'
    BY <2>1 DEF MapInv, RecordsTyped, QueuesTyped, RestTyped
  <2> QED BY <1>1, <2>2, <2>3, <2>4 DEF MapInv
<1>9. ASSUME NEW u \in Player, NEW p \in Planet,
             NEW n \in 0 .. MaxGift, NEW gift \in [1 .. n -> Planet \ Home], Explore(u, p, gift)
      PROVE  MapInv'
  <2>1. gift \in Seq(Planet)
    BY PlanetsConstants
  <2> QED BY <1>1, <1>9, <2>1, ExploreSound
<1> QED BY <1>2, <1>3, <1>4, <1>5, <1>6, <1>7, <1>8, <1>9 DEF Next

(* The portals in a player's list are those of the map: building, razing,  *)
(* cancelling, the tick and every change of owner mark both.  Where the    *)
(* gift of a civilisation has listed a planet a second time for its owner, *)
(* dbUserPlanetSetFlags (db.c:1487) marks one of the two entries and the   *)
(* theorem says nothing of either, until the player is out of the game.    *)
THEOREM PortalsStayInStep == Spec => []PortalsAgree
<1>1. MapInv => PortalsAgree
  BY DEF MapInv
<1> QED BY <1>1, SoundInitially, StepSound, PTL DEF Spec

(* The number under construction on a planet is the sum of what its        *)
(* owner's queue has for it, no queue has anything for a planet of         *)
(* another, and a planet where no portal can be built because one is on    *)
(* its way has one or gets one: whatever is built, cancelled, razed, done  *)
(* or lost, in any order, with planets that change hands in between.       *)
THEOREM QueuesStayInStep == Spec => []QueuesAgree
<1>1. MapInv => QueuesAgree
  BY QueuesAgreeIs DEF MapInv
<1> QED BY <1>1, SoundInitially, StepSound, PTL DEF Spec

(* The number of planets left to explore, which nothing recounts, falls    *)
(* short of the planets nobody has by one for each time the gift of a      *)
(* civilisation included the planet being explored (cmd.c:1208 and 1290    *)
(* both count it off), and by nothing else; and whoever is out of the game *)
(* owns, lists and builds nothing.                                         *)
THEOREM CountsStaySound == Spec => []MapSound
<1>1. MapInv => MapSound
  <2> SUFFICES ASSUME MapInv PROVE MapSound
    OBVIOUS
  <2>1. TypeOK
    BY DEF MapInv, IInv, ListsTyped, SpareTyped, RecordsTyped, QueuesTyped, RestTyped, TypeOK
  <2> QED BY <2>1 DEF MapInv, MapSound
<1> QED BY <1>1, SoundInitially, StepSound, PTL DEF Spec
=============================================================================
