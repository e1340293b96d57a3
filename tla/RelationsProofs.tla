--------------------------- MODULE RelationsProofs ---------------------------
(***************************************************************************)
(* Proofs about Relations.  The files of all empires are looked at as one  *)
(* value R, since the rankings change them several times within a step:    *)
(* whatever every cancellation keeps (Deleted), a walk over the copy of    *)
(* one list keeps (Ended), and so do the rankings (Rankings).              *)
(*                                                                         *)
(* Pacts share the file with wars and alliances, and the counterpart of a  *)
(* pact is the first record that names the empire, whatever its type.  The *)
(* theorems are therefore about pacts alone or about wars and alliances.   *)
(***************************************************************************)
EXTENDS Relations, FiniteSetTheorems, WellFoundedInduction, TLAPS

----------------------------------------------------------------------------
(* Numbers and walks.                                                      *)

LEMMA Least ==
  ASSUME NEW T \in SUBSET Nat, T # {}
  PROVE  \E x \in T : \A y \in T : x <= y
<1> DEFINE R == OpToRel(<, Nat)
<1>1. IsWellFoundedOn(R, Nat)
  BY NatLessThanWellFounded
<1>2. \A x, y \in Nat : x < y => <<x, y>> \in R
  BY DEF OpToRel
<1> HIDE DEF R
<1>3. PICK x \in T : \A y \in T : ~ (<<y, x>> \in R)
  BY <1>1, WFMin
<1>4. ASSUME NEW y \in T PROVE x <= y
  <2>1. x \in Nat /\ y \in Nat /\ ~(<<y, x>> \in R)
    BY <1>3
  <2>2. ~(y < x)
    BY <1>2, <2>1
  <2> QED BY <2>1, <2>2
<1> QED BY <1>4

(* What holds at 0 and after every step up to n.                           *)
LEMMA CountUp ==
  ASSUME NEW n \in Nat, NEW G, 0 \in G,
         \A k \in 0 .. n - 1 : k \in G => k + 1 \in G
  PROVE  0 .. n \subseteq G
<1> DEFINE Bad == {k \in Nat : k <= n /\ k \notin G}
<1>1. SUFFICES ASSUME Bad # {} PROVE FALSE
  OBVIOUS
<1>2. PICK k \in Bad : \A j \in Bad : k <= j
  <2>1. Bad \in SUBSET Nat
    OBVIOUS
  <2> HIDE DEF Bad
  <2> QED BY <1>1, <2>1, Least
<1>3. k # 0
  BY <1>2
<1>4. k - 1 \in 0 .. n - 1 /\ k - 1 \in Nat /\ k - 1 <= n /\ ~(k <= k - 1) /\ (k - 1) + 1 = k
  BY <1>2, <1>3
<1>5. k - 1 \in G
  BY <1>2, <1>4
<1> QED BY <1>2, <1>4, <1>5

(* A walk of n steps from base, where st gives what a step makes of a value *)
(* of V, exists.                                                            *)
IsWalk(w, n, base, st) ==
  \A k \in 0 .. n : w[k] = IF k = 0 THEN base ELSE st[<<k, w[k - 1]>>]

LEMMA WalkExists ==
  ASSUME NEW n \in Nat, NEW V, NEW base \in V, NEW st,
         \A k \in 1 .. n, v \in V : st[<<k, v>>] \in V
  PROVE  \E w \in [0 .. n -> V] : IsWalk(w, n, base, st)
<1> DEFINE Good(m) == \E w \in [0 .. n -> V] :
                        \A k \in 0 .. m : w[k] = IF k = 0 THEN base ELSE st[<<k, w[k - 1]>>]
           G == {m \in Nat : Good(m)}
<1>1. Good(0)
  <2>1. [k \in 0 .. n |-> base] \in [0 .. n -> V]
    OBVIOUS
  <2>2. \A k \in 0 .. 0 : k = 0 /\ [j \in 0 .. n |-> base][k] = base
    OBVIOUS
  <2> QED BY <2>1, <2>2
<1>2. ASSUME NEW m \in 0 .. n - 1, Good(m) PROVE Good(m + 1)
  <2>1. PICK w \in [0 .. n -> V] :
          \A k \in 0 .. m : w[k] = IF k = 0 THEN base ELSE st[<<k, w[k - 1]>>]
    BY <1>2
  <2> DEFINE x == [w EXCEPT ![m + 1] = st[<<m + 1, w[m]>>]]
  <2>2. m \in 0 .. n /\ m + 1 \in 1 .. n /\ m + 1 \in 0 .. n /\ (m + 1) - 1 = m /\ m # m + 1
    OBVIOUS
  <2>3. st[<<m + 1, w[m]>>] \in V
    BY <2>2
  <2>4. x \in [0 .. n -> V]
    BY <2>2, <2>3
  <2>5. x[m + 1] = st[<<m + 1, w[m]>>] /\ \A k \in 0 .. m : x[k] = w[k]
    BY <2>2
  <2>6. ASSUME NEW k \in 0 .. m + 1
        PROVE  x[k] = IF k = 0 THEN base ELSE st[<<k, x[k - 1]>>]
    <3>1. CASE k = m + 1
      BY <2>2, <2>5, <3>1
    <3>2. CASE k # m + 1
      <4>1. k \in 0 .. m /\ (k # 0 => k - 1 \in 0 .. m)
        BY <3>2
      <4> HIDE DEF x
      <4> QED BY <2>1, <2>5, <4>1
    <3> QED BY <3>1, <3>2
  <2> HIDE DEF x
  <2> QED BY <2>4, <2>6
<1>3. 0 .. n \subseteq G
  <2>1. 0 \in G
    BY <1>1
  <2> HIDE DEF Good
  <2>2. \A k \in 0 .. n - 1 : k \in G => k + 1 \in G
    BY <1>2
  <2> HIDE DEF G
  <2> QED BY <2>1, <2>2, CountUp
<1>4. Good(n)
  BY <1>3
<1> QED BY <1>4 DEF IsWalk

----------------------------------------------------------------------------
(* The files.                                                              *)

Files == [Empire -> Seq(Relation)]

\* Records that a file has once: a pact with an empire, a war or an alliance
\* with it in either direction.
Kin(r, o) == /\ r.empire = o.empire /\ r.type = o.type
             /\ r.type # "nap" => r.incoming = o.incoming

Single(s) == \A i, j \in DOMAIN s : Kin(s[i], s[j]) => i = j

\* o is the other side of f's record r.
Mirrors(o, f, r) == /\ o.empire = f /\ o.type = r.type /\ o.incoming = ~r.incoming
                    /\ o.tick = r.tick /\ o.len = r.len

\* What the two records of a pact may say: that it is offered or runs for a
\* time, or that it is offered or holds for ever.
Agree(a, b, len) ==
  \/ len > 0 /\ <<a, b>> \in {<<1, 2>>, <<2, 1>>, <<1, 7>>, <<7, 1>>, <<3, 3>>, <<4, 4>>}
  \/ len = 0 /\ <<a, b>> \in {<<5, 6>>, <<6, 5>>, <<5, 7>>, <<7, 5>>, <<7, 7>>,
                             <<8, 9>>, <<9, 8>>}

Answers(o, f, r) == Mirrors(o, f, r) /\ (r.type = "nap" => Agree(r.state, o.state, r.len))

\* Every record is of a type that is entered into and has its other side.
Answered(R) ==
  \A f \in Empire : \A r \in ToSet(R[f]) :
    /\ r.type \in Types /\ r.empire # f
    /\ \E o \in ToSet(R[r.empire]) : Answers(o, f, r)

Proposed(r) == r.type = "ally" /\ ~r.incoming
OneProposal(s) == \A x, y \in ToSet(s) : Proposed(x) /\ Proposed(y) => x = y

Sound(R) == /\ R \in Files /\ Answered(R)
            /\ \A f \in Empire : /\ Len(R[f]) <= MaxRels /\ Single(R[f])
                                /\ OneProposal(R[f])

\* Pacts and other relations do not meet in a file.
Unmixed == Types \subseteq {"nap"} \/ "nap" \notin Types

LEMMA Entries ==
  ASSUME NEW R \in Files, NEW f \in Empire
  PROVE  /\ R[f] \in Seq(Relation) /\ Len(R[f]) \in Nat /\ DOMAIN R[f] = 1 .. Len(R[f])
         /\ \A r \in ToSet(R[f]) : r \in Relation /\ r.empire \in Empire
         /\ \A i \in DOMAIN R[f] : R[f][i] \in ToSet(R[f])
<1>1. R[f] \in Seq(Relation)
  BY DEF Files
<1>2. \A i \in DOMAIN R[f] : R[f][i] \in Relation
  BY <1>1
<1> QED BY <1>1, <1>2 DEF ToSet, Relation

(* dbEmpireRelsRemove moves the last record into the gap.                  *)
LEMMA Swapped ==
  ASSUME NEW X, NEW s \in Seq(X), NEW k \in DOMAIN s, NEW t, t = SwapRemove(s, k)
  PROVE  /\ t \in Seq(X) /\ DOMAIN t = 1 .. Len(s) - 1 /\ Len(t) = Len(s) - 1
         /\ \A j \in DOMAIN t : t[j] = IF j = k THEN s[Len(s)] ELSE s[j]
<1> DEFINE L == Len(s)
<1>1. L \in Nat /\ DOMAIN s = 1 .. L /\ k \in 1 .. L /\ s # << >>
  OBVIOUS
<1>2. /\ Front(s) \in Seq(X) /\ Len(Front(s)) = L - 1 /\ DOMAIN Front(s) = 1 .. L - 1
      /\ \A j \in 1 .. L - 1 : Front(s)[j] = s[j]
  <2>1. Front(s) = [j \in 1 .. L - 1 |-> s[j]]
    BY <1>1 DEF Front
  <2>2. \A j \in 1 .. L - 1 : s[j] \in X
    BY <1>1
  <2> QED BY <1>1, <2>1, <2>2
<1>3. CASE k < L
  <2>1. t = [Front(s) EXCEPT ![k] = s[L]]
    BY <1>3 DEF SwapRemove, Last
  <2>2. t = [j \in 1 .. L - 1 |-> IF j = k THEN s[L] ELSE s[j]]
    BY <1>2, <2>1
  <2>3. \A j \in 1 .. L - 1 : t[j] = (IF j = k THEN s[L] ELSE s[j]) /\ t[j] \in X
    BY <1>1, <2>2
  <2> QED BY <1>1, <2>2, <2>3
<1>4. CASE ~(k < L)
  <2>1. t = Front(s)
    BY <1>4 DEF SwapRemove
  <2>2. k = L
    BY <1>1, <1>4
  <2>3. \A j \in 1 .. L - 1 : j # k
    <3> HIDE DEF L
    <3> QED BY <1>1, <2>2
  <2> QED BY <1>1, <1>2, <2>1, <2>3
<1> QED BY <1>3, <1>4

\* Every record of S was in R, at the same place or further back.
Later(R, S) ==
  \A f \in Empire : \A j \in DOMAIN S[f] :
    \E i \in DOMAIN R[f] : i >= j /\ R[f][i] = S[f][j]

LEMMA SwappedSingle ==
  ASSUME NEW s \in Seq(Relation), Single(s), NEW k \in DOMAIN s, NEW t, t = SwapRemove(s, k)
  PROVE  /\ Single(t) /\ ToSet(t) = ToSet(s) \ {s[k]}
         /\ \A j \in DOMAIN t : \E i \in DOMAIN s : i >= j /\ s[i] = t[j]
<1> DEFINE L == Len(s)
<1>1. L \in Nat /\ DOMAIN s = 1 .. L /\ L >= 1
  OBVIOUS
<1>2. DOMAIN t = 1 .. L - 1 /\ \A j \in 1 .. L - 1 : t[j] = IF j = k THEN s[L] ELSE s[j]
  BY Swapped
<1> HIDE DEF L
<1>3. \A i, j \in 1 .. L : s[i] = s[j] => i = j
  BY <1>1 DEF Single, Kin
<1>4. Single(t)
  <2> SUFFICES ASSUME NEW i \in 1 .. L - 1, NEW j \in 1 .. L - 1, Kin(t[i], t[j]) PROVE i = j
    BY <1>2 DEF Single
  <2>1. i \in 1 .. L /\ j \in 1 .. L /\ L \in 1 .. L /\ i # L /\ j # L
    BY <1>1
  <2>2. Kin(IF i = k THEN s[L] ELSE s[i], IF j = k THEN s[L] ELSE s[j])
    BY <1>2
  <2> QED BY <1>1, <2>1, <2>2 DEF Single
<1>5. ToSet(t) \subseteq ToSet(s) \ {s[k]}
  <2> SUFFICES ASSUME NEW j \in 1 .. L - 1 PROVE t[j] \in ToSet(s) \ {s[k]}
    BY <1>2 DEF ToSet
  <2>1. j \in 1 .. L /\ L \in 1 .. L /\ j # L
    BY <1>1
  <2> QED BY <1>1, <1>2, <1>3, <2>1 DEF ToSet
<1>6. ToSet(s) \ {s[k]} \subseteq ToSet(t)
  <2> SUFFICES ASSUME NEW i \in 1 .. L, i # k PROVE \E j \in 1 .. L - 1 : t[j] = s[i]
    BY <1>1, <1>2 DEF ToSet
  <2>1. CASE i = L
    <3>1. k \in 1 .. L - 1
      BY <1>1, <2>1
    <3> QED BY <1>2, <2>1, <3>1
  <2>2. CASE i # L
    <3>1. i \in 1 .. L - 1
      BY <1>1, <2>2
    <3> QED BY <1>2, <3>1
  <2> QED BY <2>1, <2>2
<1>7. \A j \in 1 .. L - 1 : \E i \in 1 .. L : i >= j /\ s[i] = t[j]
  <2> TAKE j \in 1 .. L - 1
  <2>1. j \in 1 .. L /\ L \in 1 .. L /\ L >= j /\ j >= j
    BY <1>1
  <2> QED BY <1>2, <2>1
<1> QED BY <1>1, <1>2, <1>4, <1>5, <1>6, <1>7

----------------------------------------------------------------------------
(* Finding the other side.                                                 *)

LEMMA FindFinds ==
  ASSUME NEW n \in Nat, NEW S, \E i \in 1 .. n : i \in S
  PROVE  \E i \in 1 .. n : i \in S /\ \A j \in 1 .. i - 1 : j \notin S
<1> DEFINE T == {i \in 1 .. n : i \in S}
<1>1. T \in SUBSET Nat /\ T # {}
  OBVIOUS
<1>2. PICK i \in T : \A j \in T : i <= j
  <2> HIDE DEF T
  <2> QED BY <1>1, Least
<1>3. \A j \in 1 .. i - 1 : j \notin S
  <2> TAKE j \in 1 .. i - 1
  <2>1. j \in 1 .. n /\ ~(i <= j)
    BY <1>2
  <2> QED BY <1>2, <2>1
<1> QED BY <1>2, <1>3

\* What cmdExecDelRelation looks for in the file of the other empire.
Sought(o, f, r) == o.empire = f /\ (r.type # "nap" => o.type = r.type /\ o.incoming)

(* cmdExecDelRelation finds the other side, and nothing else: where pacts  *)
(* do not meet other relations, what is looked for is there once.          *)
LEMMA CounterpartFound ==
  ASSUME Unmixed, NEW R, Sound(R), NEW f \in Empire, NEW i \in DOMAIN R[f],
         NEW r, r = R[f][i], r.type # "nap" => ~r.incoming,
         NEW j, j = Counterpart(R, f, r)
  PROVE  /\ r.empire \in Empire /\ r.empire # f /\ r \in Relation /\ r.type \in Types
         /\ j \in DOMAIN R[r.empire]
         /\ R[r.empire][j] \in Relation /\ Answers(R[r.empire][j], f, r)
<1> DEFINE g == r.empire  s == R[g]
<1>1. R \in Files /\ r \in ToSet(R[f]) /\ r \in Relation /\ g \in Empire
  BY Entries DEF Sound
<1>2. g # f /\ r.type \in Types /\ \E o \in ToSet(s) : Answers(o, f, r)
  BY <1>1 DEF Sound, Answered
<1>3. s \in Seq(Relation) /\ Len(s) \in Nat /\ DOMAIN s = 1 .. Len(s) /\ Single(s)
  BY <1>1, Entries DEF Sound
<1>4. PICK k \in DOMAIN s : Answers(s[k], f, r)
  BY <1>2 DEF ToSet
<1>5. Sought(s[k], f, r)
  BY <1>4 DEF Sought, Answers, Mirrors
<1>6. ASSUME NEW m \in DOMAIN s, Sought(s[m], f, r) PROVE m = k
  <2>1. s[m] \in ToSet(s) /\ s[m].type \in Types
    BY <1>1 DEF ToSet, Sound, Answered
  <2>2. Kin(s[m], s[k])
    BY <1>2, <1>4, <1>6, <2>1 DEF Kin, Sought, Answers, Mirrors, Unmixed
  <2> QED BY <1>3, <2>2 DEF Single
<1>7. j = k
  <2> DEFINE S == {m \in DOMAIN s : Sought(s[m], f, r)}
  <2>1. \E m \in DOMAIN s : Sought(s[m], f, r) /\ \A l \in 1 .. m - 1 : ~Sought(s[l], f, r)
    <3>1. \E m \in 1 .. Len(s) : m \in S /\ \A l \in 1 .. m - 1 : l \notin S
      <4>1. k \in 1 .. Len(s) /\ k \in S
        BY <1>3, <1>5
      <4> HIDE DEF S
      <4> QED BY <1>3, <4>1, FindFinds
    <3>2. PICK m \in 1 .. Len(s) : m \in S /\ \A l \in 1 .. m - 1 : l \notin S
      BY <3>1
    <3>3. \A l \in 1 .. m - 1 : l \in DOMAIN s
      BY <1>3
    <3> QED BY <1>3, <3>2, <3>3
  <2>2. j = CHOOSE m \in DOMAIN s : Sought(s[m], f, r) /\ \A l \in 1 .. m - 1 : ~Sought(s[l], f, r)
    BY <1>5 DEF Counterpart, Find, Sought
  <2>3. j \in DOMAIN s /\ Sought(s[j], f, r)
    <3> HIDE DEF g, s
    <3> QED BY <2>1, <2>2
  <2> QED BY <1>6, <2>3
<1>8. s[k] \in Relation
  BY <1>3
<1> QED BY <1>1, <1>2, <1>4, <1>7, <1>8

(* Every record but a pair has its other side outside the pair.            *)
LEMMA OtherSide ==
  ASSUME NEW R, Sound(R), NEW f \in Empire, NEW g \in Empire, f # g,
         NEW i \in DOMAIN R[f], NEW r, r = R[f][i], r.empire = g,
         NEW j \in DOMAIN R[g], NEW o, o = R[g][j], Mirrors(o, f, r),
         NEW h \in Empire, NEW z \in ToSet(R[h]), ~(h = f /\ z = r), ~(h = g /\ z = o)
  PROVE  /\ z.empire \in Empire /\ z.empire # h
         /\ \E w \in ToSet(R[z.empire]) :
              /\ Answers(w, h, z) /\ ~(z.empire = f /\ w = r) /\ ~(z.empire = g /\ w = o)
<1>1. R \in Files /\ Single(R[f]) /\ Single(R[g])
  BY DEF Sound
<1>2. z \in Relation /\ z.empire \in Empire /\ r \in Relation /\ o \in Relation
  BY <1>1, Entries
<1>3. z.empire # h
  BY DEF Sound, Answered
<1>4. PICK w \in ToSet(R[z.empire]) : Answers(w, h, z)
  BY DEF Sound, Answered
<1>5. ASSUME z.empire = f, w = r PROVE FALSE
  <2>1. h = g /\ r.type = z.type /\ r.incoming = ~z.incoming
    BY <1>4, <1>5 DEF Answers, Mirrors
  <2>2. Kin(z, o)
    BY <1>2, <1>5, <2>1 DEF Kin, Mirrors, Relation
  <2>3. PICK m \in DOMAIN R[g] : z = R[g][m]
    BY <2>1 DEF ToSet
  <2>4. m = j
    BY <1>1, <2>2, <2>3 DEF Single
  <2> QED BY <2>1, <2>3, <2>4
<1>6. ASSUME z.empire = g, w = o PROVE FALSE
  <2>1. h = f /\ o.type = z.type /\ o.incoming = ~z.incoming
    BY <1>4, <1>6 DEF Answers, Mirrors
  <2>2. Kin(z, r)
    BY <1>2, <1>6, <2>1 DEF Kin, Mirrors, Relation
  <2>3. PICK m \in DOMAIN R[f] : z = R[f][m]
    BY <2>1 DEF ToSet
  <2>4. m = i
    BY <1>1, <2>2, <2>3 DEF Single
  <2> QED BY <2>1, <2>3, <2>4
<1> QED BY <1>2, <1>3, <1>4, <1>5, <1>6

\* What the files hold after r and o have gone, or have become x and y.
Dropped(R, S, f, r, g, o) ==
  /\ ToSet(S[f]) = ToSet(R[f]) \ {r} /\ ToSet(S[g]) = ToSet(R[g]) \ {o}
  /\ \A h \in Empire \ {f, g} : S[h] = R[h]

Replaced(R, S, f, r, x, g, o, y) ==
  /\ ToSet(S[f]) = (ToSet(R[f]) \ {r}) \cup {x}
  /\ ToSet(S[g]) = (ToSet(R[g]) \ {o}) \cup {y}
  /\ \A h \in Empire \ {f, g} : S[h] = R[h]

(* RemoveRelation takes a pair out of the files and moves two records      *)
(* forward.                                                                *)
LEMMA RemovedKeeps ==
  ASSUME NEW R, Sound(R), NEW f \in Empire, NEW g \in Empire, f # g,
         NEW i \in DOMAIN R[f], NEW r, r = R[f][i], r.empire = g,
         NEW j \in DOMAIN R[g], NEW o, o = R[g][j], Mirrors(o, f, r),
         NEW S, S = Removed(R, f, i, g, j)
  PROVE  Sound(S) /\ Later(R, S) /\ Dropped(R, S, f, r, g, o)
<1>1. R \in Files /\ \A h \in Empire : /\ R[h] \in Seq(Relation) /\ Single(R[h])
                                      /\ Len(R[h]) \in Nat /\ DOMAIN R[h] = 1 .. Len(R[h])
                                      /\ Len(R[h]) <= MaxRels /\ OneProposal(R[h])
  BY Entries DEF Sound
<1>2. /\ S = [h \in Empire |-> IF h = f THEN SwapRemove(R[f], i)
                               ELSE IF h = g THEN SwapRemove(R[g], j) ELSE R[h]]
  BY <1>1 DEF Removed, Files
<1>3. /\ S[f] = SwapRemove(R[f], i) /\ S[g] = SwapRemove(R[g], j)
      /\ \A h \in Empire \ {f, g} : S[h] = R[h]
  BY <1>2
<1>4. /\ S[f] \in Seq(Relation) /\ Len(S[f]) = Len(R[f]) - 1
      /\ S[g] \in Seq(Relation) /\ Len(S[g]) = Len(R[g]) - 1
  <2>1. S[f] \in Seq(Relation) /\ Len(S[f]) = Len(R[f]) - 1
    <3>1. R[f] \in Seq(Relation) /\ i \in DOMAIN R[f] /\ S[f] = SwapRemove(R[f], i)
      BY <1>1, <1>3
    <3> QED BY <3>1, Swapped
  <2>2. S[g] \in Seq(Relation) /\ Len(S[g]) = Len(R[g]) - 1
    <3>1. R[g] \in Seq(Relation) /\ j \in DOMAIN R[g] /\ S[g] = SwapRemove(R[g], j)
      BY <1>1, <1>3
    <3> QED BY <3>1, Swapped
  <2> QED BY <2>1, <2>2
<1>5. /\ Single(S[f]) /\ ToSet(S[f]) = ToSet(R[f]) \ {r}
      /\ \A l \in DOMAIN S[f] : \E m \in DOMAIN R[f] : m >= l /\ R[f][m] = S[f][l]
  BY <1>1, <1>3, SwappedSingle
<1>6. /\ Single(S[g]) /\ ToSet(S[g]) = ToSet(R[g]) \ {o}
      /\ \A l \in DOMAIN S[g] : \E m \in DOMAIN R[g] : m >= l /\ R[g][m] = S[g][l]
  BY <1>1, <1>3, SwappedSingle
<1>7. S \in Files
  <2>1. \A h \in Empire : S[h] \in Seq(Relation)
    BY <1>1, <1>3, <1>4
  <2> QED BY <1>2, <2>1 DEF Files
<1>8. \A h \in Empire : ToSet(S[h]) \subseteq ToSet(R[h])
  BY <1>3, <1>5, <1>6
<1>9. \A h \in Empire : Len(S[h]) <= MaxRels /\ Single(S[h]) /\ OneProposal(S[h])
  <2> TAKE h \in Empire
  <2>1. Len(S[h]) <= MaxRels
    BY <1>1, <1>3, <1>4, RelationsConstants, SMTT(20)
  <2>2. OneProposal(S[h])
    BY <1>1, <1>8 DEF OneProposal
  <2> QED BY <1>1, <1>3, <1>5, <1>6, <2>1, <2>2
<1>10. Answered(S)
  <2> SUFFICES ASSUME NEW h \in Empire, NEW z \in ToSet(S[h])
               PROVE  /\ z.type \in Types /\ z.empire # h
                      /\ \E w \in ToSet(S[z.empire]) : Answers(w, h, z)
    BY DEF Answered
  <2>1. z \in ToSet(R[h]) /\ ~(h = f /\ z = r) /\ ~(h = g /\ z = o)
    BY <1>5, <1>6, <1>8
  <2>2. z.type \in Types
    BY <2>1 DEF Sound, Answered
  <2>3. /\ z.empire \in Empire /\ z.empire # h
        /\ \E w \in ToSet(R[z.empire]) :
             /\ Answers(w, h, z) /\ ~(z.empire = f /\ w = r) /\ ~(z.empire = g /\ w = o)
    BY <2>1, OtherSide
  <2>4. PICK w \in ToSet(R[z.empire]) :
          /\ Answers(w, h, z) /\ ~(z.empire = f /\ w = r) /\ ~(z.empire = g /\ w = o)
    BY <2>3
  <2>5. w \in ToSet(S[z.empire])
    BY <1>3, <1>5, <1>6, <2>3, <2>4
  <2> QED BY <2>2, <2>3, <2>4, <2>5
<1>11. Later(R, S)
  <2> SUFFICES ASSUME NEW h \in Empire, NEW l \in DOMAIN S[h]
               PROVE  \E m \in DOMAIN R[h] : m >= l /\ R[h][m] = S[h][l]
    BY DEF Later
  <2>1. CASE h \notin {f, g}
    BY <1>1, <1>3, <2>1
  <2> QED BY <1>5, <1>6, <2>1
<1>12. Dropped(R, S, f, r, g, o)
  BY <1>3, <1>5, <1>6 DEF Dropped
<1> QED BY <1>3, <1>5, <1>6, <1>7, <1>9, <1>10, <1>11, <1>12 DEF Sound

(* Records that change and keep their place.                               *)
Put(s, k, x) == [s EXCEPT ![k] = x]

LEMMA Marked ==
  ASSUME NEW s \in Seq(Relation), Single(s), NEW k \in DOMAIN s,
         NEW x \in Relation, Kin(x, s[k]), NEW t, t = Put(s, k, x)
  PROVE  /\ t \in Seq(Relation) /\ Len(t) = Len(s) /\ DOMAIN t = DOMAIN s
         /\ Single(t) /\ ToSet(t) = (ToSet(s) \ {s[k]}) \cup {x}
<1>1. /\ t \in Seq(Relation) /\ Len(t) = Len(s) /\ DOMAIN t = DOMAIN s
      /\ \A i \in DOMAIN s : t[i] = IF i = k THEN x ELSE s[i]
  BY DEF Put
<1>2. \A i \in DOMAIN s : Kin(t[i], s[i])
  BY <1>1 DEF Kin
<1>3. Single(t)
  <2> SUFFICES ASSUME NEW i \in DOMAIN s, NEW j \in DOMAIN s, Kin(t[i], t[j]) PROVE i = j
    BY <1>1 DEF Single
  <2>1. Kin(s[i], s[j])
    BY <1>2 DEF Kin
  <2> QED BY <2>1 DEF Single
<1>4. \A i, j \in DOMAIN s : s[i] = s[j] => i = j
  BY DEF Single, Kin
<1>5. ToSet(t) = (ToSet(s) \ {s[k]}) \cup {x}
  BY <1>1, <1>4 DEF ToSet
<1> QED BY <1>1, <1>3, <1>5

Exchanged(R, f, i, x, g, j, y) == [R EXCEPT ![f][i] = x, ![g][j] = y]

(* A pair of pacts' records that change and still agree.                   *)
LEMMA MarkedKeeps ==
  ASSUME NEW R, Sound(R), NEW f \in Empire, NEW g \in Empire, f # g,
         NEW i \in DOMAIN R[f], NEW r, r = R[f][i], r.empire = g, r.type = "nap",
         NEW j \in DOMAIN R[g], NEW o, o = R[g][j], Mirrors(o, f, r),
         NEW x \in Relation, Kin(x, r), NEW y \in Relation, Kin(y, o),
         Answers(y, f, x), Answers(x, g, y),
         NEW S, S = Exchanged(R, f, i, x, g, j, y)
  PROVE  Sound(S) /\ Replaced(R, S, f, r, x, g, o, y)
<1>1. R \in Files /\ \A h \in Empire : /\ R[h] \in Seq(Relation) /\ Single(R[h])
                                      /\ Len(R[h]) <= MaxRels /\ OneProposal(R[h])
  BY Entries DEF Sound
<1>2. /\ S = [h \in Empire |-> IF h = f THEN [R[f] EXCEPT ![i] = x]
                               ELSE IF h = g THEN [R[g] EXCEPT ![j] = y] ELSE R[h]]
  BY <1>1 DEF Files, Exchanged
<1>3. /\ S[f] = [R[f] EXCEPT ![i] = x] /\ S[g] = [R[g] EXCEPT ![j] = y]
      /\ \A h \in Empire \ {f, g} : S[h] = R[h]
  BY <1>2
<1>4. /\ S[f] \in Seq(Relation) /\ Len(S[f]) = Len(R[f]) /\ Single(S[f])
      /\ ToSet(S[f]) = (ToSet(R[f]) \ {r}) \cup {x}
  <2>1. Kin(x, R[f][i]) /\ R[f] \in Seq(Relation) /\ Single(R[f])
    BY <1>1
  <2>2. /\ S[f] \in Seq(Relation) /\ Len(S[f]) = Len(R[f]) /\ Single(S[f])
        /\ ToSet(S[f]) = (ToSet(R[f]) \ {R[f][i]}) \cup {x}
    <3>1. S[f] = Put(R[f], i, x)
      BY <1>3 DEF Put
    <3> QED BY <2>1, <3>1, Marked
  <2> QED BY <2>2
<1>5. /\ S[g] \in Seq(Relation) /\ Len(S[g]) = Len(R[g]) /\ Single(S[g])
      /\ ToSet(S[g]) = (ToSet(R[g]) \ {o}) \cup {y}
  <2>1. Kin(y, R[g][j]) /\ R[g] \in Seq(Relation) /\ Single(R[g])
    BY <1>1
  <2>2. /\ S[g] \in Seq(Relation) /\ Len(S[g]) = Len(R[g]) /\ Single(S[g])
        /\ ToSet(S[g]) = (ToSet(R[g]) \ {R[g][j]}) \cup {y}
    <3>1. S[g] = Put(R[g], j, y)
      BY <1>3 DEF Put
    <3> QED BY <2>1, <3>1, Marked
  <2> QED BY <2>2
<1>6. S \in Files
  <2>1. \A h \in Empire : S[h] \in Seq(Relation)
    BY <1>1, <1>3, <1>4, <1>5
  <2> QED BY <1>2, <2>1 DEF Files
<1>7. o.empire = f /\ o.type = "nap" /\ x.empire = g /\ x.type = "nap" /\ y.empire = f /\ y.type = "nap"
  BY DEF Kin, Mirrors
<1>8. \A h \in Empire : Len(S[h]) <= MaxRels /\ Single(S[h]) /\ OneProposal(S[h])
  <2> TAKE h \in Empire
  <2>1. Len(S[h]) <= MaxRels /\ Single(S[h])
    BY <1>1, <1>3, <1>4, <1>5
  <2>2. \A z \in ToSet(S[h]) : Proposed(z) => z \in ToSet(R[h])
    BY <1>3, <1>4, <1>5, <1>7 DEF Proposed
  <2>3. OneProposal(S[h])
    BY <1>1, <2>2 DEF OneProposal
  <2> QED BY <2>1, <2>3
<1>9. r \in ToSet(R[f]) /\ r.type \in Types
  BY DEF ToSet, Sound, Answered
<1>10. Answered(S)
  <2> SUFFICES ASSUME NEW h \in Empire, NEW z \in ToSet(S[h])
               PROVE  /\ z.type \in Types /\ z.empire # h
                      /\ \E w \in ToSet(S[z.empire]) : Answers(w, h, z)
    BY DEF Answered
  <2>1. CASE h = f /\ z = x
    BY <1>5, <1>7, <1>9, <2>1
  <2>2. CASE h = g /\ z = y
    BY <1>4, <1>7, <1>9, <2>2
  <2>3. CASE ~(h = f /\ z = x) /\ ~(h = g /\ z = y)
    <3>1. z \in ToSet(R[h]) /\ ~(h = f /\ z = r) /\ ~(h = g /\ z = o)
      BY <1>3, <1>4, <1>5, <2>3
    <3>2. z.type \in Types
      BY <3>1 DEF Sound, Answered
    <3>3. /\ z.empire \in Empire /\ z.empire # h
          /\ \E w \in ToSet(R[z.empire]) :
               /\ Answers(w, h, z) /\ ~(z.empire = f /\ w = r) /\ ~(z.empire = g /\ w = o)
      BY <3>1, OtherSide, SMTT(60)
    <3>4. PICK w \in ToSet(R[z.empire]) :
            /\ Answers(w, h, z) /\ ~(z.empire = f /\ w = r) /\ ~(z.empire = g /\ w = o)
      BY <3>3
    <3>5. w \in ToSet(S[z.empire])
      BY <1>3, <1>4, <1>5, <3>3, <3>4
    <3> QED BY <3>2, <3>3, <3>4, <3>5
  <2> QED BY <2>1, <2>2, <2>3
<1>11. Replaced(R, S, f, r, x, g, o, y)
  BY <1>3, <1>4, <1>5 DEF Replaced
<1> QED BY <1>3, <1>4, <1>5, <1>6, <1>8, <1>10, <1>11 DEF Sound

----------------------------------------------------------------------------
(* The tables of a pact.                                                   *)

\* The rows of NAP_FSA_EQUAL_TIMER for the states that a pact is ever in.
LEMMA EqualRows ==
  /\ Equal[1] = <<1,5,0,2,6,0>> /\ Equal[2] = <<1,5,0,3,6,0>> /\ Equal[3] = <<3,5,0,2,7,0>>
  /\ Equal[4] = <<3,3,4,3,3,4>> /\ Equal[5] = <<4,4,4,4,4,4>> /\ Equal[6] = <<1,5,0,2,7,0>>
  /\ Equal[7] = <<1,7,0,2,6,0>> /\ Equal[8] = <<7,7,8,7,7,9>> /\ Equal[9] = <<8,7,8,8,8,0>>
  /\ Equal[10] = <<9,9,0,9,7,9>>
BY DEF Equal

LEMMA DifferentRows ==
  /\ Different[2] = <<1,5,0,2,6,0>> /\ Different[3] = <<1,5,0,2,7,0>>
  /\ \A k \in (1 .. 10) \ {2, 3} : Different[k] = Equal[k]
BY DEF Equal, Different

(* A cancellation, of two records that agree: it ends the pact or leaves   *)
(* records that agree, and never ends a pact with a timer.                 *)
LEMMA CancelAgrees ==
  ASSUME NEW a \in NapState, NEW b \in NapState, NEW len \in Nat, Agree(a, b, len), a # 4, b # 4,
         NEW m, m = Mine(Equal, a, Cancel), NEW n, n = Its(Equal, b, Cancel), m # 0, n # 0
  PROVE  m \in NapState /\ n \in NapState /\ Agree(m, n, len) /\ Agree(n, m, len)
BY EqualRows DEF Agree, Mine, Its, Cancel, NapState

LEMMA TimerCancelled ==
  Mine(Equal, 3, Cancel) = 4 /\ Its(Equal, 3, Cancel) = 4
BY EqualRows DEF Mine, Its, Cancel

LEMMA OfferAgrees ==
  ASSUME NEW a \in NapState, NEW b \in NapState, NEW old \in Nat, NEW len \in Nat,
         Agree(a, b, old), a \notin Made,
         NEW event, event = IF len = 0 THEN Infinite ELSE Timed,
         NEW table, table = IF len = old THEN Equal ELSE Different,
         NEW m, m = Mine(table, a, event), NEW n, n = Its(table, b, event),
         NEW new, new = IF len # old /\ m \notin Made THEN len ELSE old
  PROVE  m \in NapState /\ n \in NapState /\ Agree(m, n, new) /\ Agree(n, m, new)
<1>1. CASE len = 0 /\ old = 0
  BY <1>1, EqualRows DEF Agree, Mine, Its, Infinite, NapState, Made
<1>2. CASE len = 0 /\ old > 0
  BY <1>2, EqualRows, DifferentRows DEF Agree, Mine, Its, Infinite, NapState, Made
<1>3. CASE len > 0 /\ old = len
  BY <1>3, EqualRows DEF Agree, Mine, Its, Timed, NapState, Made
<1>4. CASE len > 0 /\ old > 0 /\ old # len
  BY <1>4, EqualRows, DifferentRows DEF Agree, Mine, Its, Timed, NapState, Made
<1>5. CASE len > 0 /\ old = 0
  BY <1>5, EqualRows, DifferentRows DEF Agree, Mine, Its, Timed, NapState, Made
<1> QED BY <1>1, <1>2, <1>3, <1>4, <1>5

LEMMA FirstOffer ==
  ASSUME NEW len \in Nat, NEW event, event = IF len = 0 THEN Infinite ELSE Timed,
         NEW m, m = Mine(Equal, 0, event), NEW n, n = Its(Equal, 0, event)
  PROVE  m \in NapState /\ n \in NapState /\ Agree(m, n, len) /\ Agree(n, m, len)
BY EqualRows DEF Agree, Mine, Its, Timed, Infinite, NapState

----------------------------------------------------------------------------
(* Cancellations.                                                          *)

\* When a record may go: a pact not while its timer runs, other relations not
\* before their notice.
MayGo(r, t) == IF r.type = "nap" THEN r.state # 3 /\ (r.state = 4 => Over(r, t))
                                 ELSE r.tick + Notice <= t

\* What becomes of the record of a pact whose timer runs: x for r.
TimerKept(r, x, t) == /\ r.state = 3 => x.state = 4 /\ x.tick = t /\ x.len = r.len
                      /\ r.state = 4 => x = r

\* Empire f's record i and its other side, number j of empire g's file, go.
Goes(R, S, f, i, g, j, t) ==
  /\ S = Removed(R, f, i, g, j)
  /\ MayGo(R[f][i], t) /\ MayGo(R[g][j], t)

\* They are those of a pact, become x and y, and still agree.
Changes(R, S, f, i, g, j, x, y, t) ==
  /\ S = Exchanged(R, f, i, x, g, j, y)
  /\ R[f][i].type = "nap" /\ Kin(x, R[f][i]) /\ Kin(y, R[g][j])
  /\ Answers(y, f, x) /\ Answers(x, g, y)
  /\ TimerKept(R[f][i], x, t) /\ TimerKept(R[g][j], y, t)

LEMMA TimersAgree ==
  ASSUME NEW a, NEW b, NEW len, Agree(a, b, len)
  PROVE  (a = 3 <=> b = 3) /\ (a = 4 <=> b = 4)
BY DEF Agree

\* What a cancellation makes of the records r and o of a pact.
MineCut(r, o) == IF r.state # 4 /\ o.state # 4 THEN Mine(Equal, r.state, Cancel) ELSE r.state
ItsCut(r, o) == IF r.state # 4 /\ o.state # 4 THEN Its(Equal, o.state, Cancel) ELSE o.state
Stamps(r, o) == r.state # 4 /\ o.state # 4 /\ MineCut(r, o) = 4 /\ ItsCut(r, o) = 4
Stamped(r, o, t) == IF Stamps(r, o) THEN [r EXCEPT !.state = MineCut(r, o), !.tick = t]
                                    ELSE [r EXCEPT !.state = MineCut(r, o)]
Answer(r, o, t) == IF Stamps(r, o) THEN [o EXCEPT !.state = ItsCut(r, o), !.tick = t]
                                   ELSE [o EXCEPT !.state = ItsCut(r, o)]

(* The two records of a pact after a cancellation that does not end it.    *)
LEMMA CancelChanges ==
  ASSUME NEW f \in Empire, NEW g \in Empire, NEW t \in 0 .. MaxTick,
         NEW r \in Relation, r.type = "nap", r.empire = g,
         NEW o \in Relation, Answers(o, f, r),
         NEW m, m = MineCut(r, o), m # 0, NEW n, n = ItsCut(r, o), n # 0,
         NEW x, x = Stamped(r, o, t), NEW y, y = Answer(r, o, t)
  PROVE  /\ x \in Relation /\ y \in Relation /\ Kin(x, r) /\ Kin(y, o)
         /\ Answers(y, f, x) /\ Answers(x, g, y)
         /\ TimerKept(r, x, t) /\ TimerKept(o, y, t)
<1>1. /\ r.state \in NapState /\ o.state \in NapState /\ r.len \in Nat
      /\ Agree(r.state, o.state, r.len) /\ Mirrors(o, f, r)
  BY DEF Relation, Answers
<1>2. m \in NapState /\ n \in NapState /\ Agree(m, n, r.len) /\ Agree(n, m, r.len)
  <2>1. CASE r.state # 4 /\ o.state # 4
    BY <1>1, <2>1, CancelAgrees DEF MineCut, ItsCut
  <2>2. CASE ~(r.state # 4 /\ o.state # 4)
    <3>1. r.state = 4 /\ o.state = 4 /\ m = 4 /\ n = 4
      BY <1>1, <2>2, TimersAgree DEF MineCut, ItsCut
    <3> QED BY <1>1, <3>1
  <2> QED BY <2>1, <2>2
<1>3. /\ x.tick = y.tick /\ x.state = m /\ y.state = n
      /\ x.type = r.type /\ x.empire = r.empire /\ x.incoming = r.incoming /\ x.len = r.len
      /\ y.type = o.type /\ y.empire = o.empire /\ y.incoming = o.incoming /\ y.len = o.len
  BY <1>1 DEF Relation, Mirrors, Stamped, Answer
<1>4. x \in Relation /\ y \in Relation
  BY <1>2 DEF Relation, Stamped, Answer
<1>5. Kin(x, r) /\ Kin(y, o)
  BY <1>3 DEF Kin
<1>6. Answers(y, f, x) /\ Answers(x, g, y)
  BY <1>1, <1>2, <1>3 DEF Answers, Mirrors, Relation
<1>7. ASSUME r.state = 3 \/ o.state = 3
      PROVE  r.state = 3 /\ o.state = 3 /\ m = 4 /\ n = 4
  <2>1. r.state = 3 /\ o.state = 3
    BY <1>1, <1>7, TimersAgree
  <2> QED BY <2>1, TimerCancelled DEF MineCut, ItsCut
<1>8. ASSUME r.state = 4 \/ o.state = 4
      PROVE  x = r /\ y = o
  <2>1. r.state = 4 /\ o.state = 4 /\ m = 4 /\ n = 4
    BY <1>1, <1>8, TimersAgree DEF MineCut, ItsCut
  <2> QED BY <2>1 DEF Relation, Stamped, Answer, Stamps
<1>9. TimerKept(r, x, t) /\ TimerKept(o, y, t)
  <2>1. r.state = 3 \/ o.state = 3 => x.tick = t /\ y.tick = t
    BY <1>7 DEF Relation, Stamped, Answer, Stamps
  <2> QED BY <1>3, <1>7, <1>8, <2>1 DEF TimerKept
<1> QED BY <1>4, <1>5, <1>6, <1>9

(* cmdExecDelRelation does nothing, takes a pair out, or changes one.      *)
LEMMA DeletedCases ==
  ASSUME Unmixed, NEW R, Sound(R), NEW f \in Empire, NEW i, NEW t \in 0 .. MaxTick,
         NEW S, S = Deleted(R, f, i, t), S # R
  PROVE  /\ i \in DOMAIN R[f] /\ R[f][i] \in Relation
         /\ \E g \in Empire, j \in Nat :
              /\ f # g /\ R[f][i].empire = g
              /\ j \in DOMAIN R[g] /\ R[g][j] \in Relation /\ Mirrors(R[g][j], f, R[f][i])
              /\ \/ Goes(R, S, f, i, g, j, t)
                 \/ \E x, y \in Relation : Changes(R, S, f, i, g, j, x, y, t)
<1> DEFINE r == R[f][i]  g == r.empire  j == Counterpart(R, f, r)  o == R[g][j]
           m == MineCut(r, o)  n == ItsCut(r, o)  x == Stamped(r, o, t)  y == Answer(r, o, t)
           over == m = 0 \/ n = 0 \/ (~(r.state # 4 /\ o.state # 4) /\ Over(r, t))
<1>1. i \in DOMAIN R[f]
  BY DEF Deleted
<1>2. R \in Files /\ r \in Relation
  BY <1>1, Entries DEF Sound
<1>3. r.type # "nap" => MayEnd(r, t) /\ S = Removed(R, f, i, g, j)
  BY <1>1 DEF Deleted
<1>4. /\ g \in Empire /\ g # f /\ j \in DOMAIN R[g] /\ o \in Relation /\ Answers(o, f, r)
  <2>1. r.type # "nap" => ~r.incoming
    BY <1>3 DEF MayEnd
  <2> QED BY <1>1, <2>1, CounterpartFound
<1>5. Mirrors(o, f, r) /\ j \in Nat
  BY <1>2, <1>4, Entries DEF Answers
<1>6. CASE r.type # "nap"
  <2>1. MayGo(r, t) /\ MayGo(o, t)
    BY <1>3, <1>5, <1>6 DEF MayGo, MayEnd, Mirrors
  <2>2. Goes(R, S, f, i, g, j, t)
    BY <1>3, <1>6, <2>1 DEF Goes
  <2> QED BY <1>1, <1>2, <1>4, <1>5, <2>2
<1>7. CASE r.type = "nap" /\ over
  <2>1. S = Removed(R, f, i, g, j)
    BY <1>1, <1>7 DEF Deleted, Ends, MineCut, ItsCut
  <2>2. Agree(r.state, o.state, r.len)
    BY <1>4, <1>7 DEF Answers
  <2>3. r.state # 3 /\ o.state # 3
    <3>1. r.state = 3 <=> o.state = 3
      BY <2>2, TimersAgree
    <3>2. r.state = 3 /\ o.state = 3 => m = 4 /\ n = 4
      BY TimerCancelled DEF MineCut, ItsCut
    <3> QED BY <1>7, <3>1, <3>2
  <2>4. r.state = 4 \/ o.state = 4 => r.state = 4 /\ o.state = 4 /\ Over(r, t)
    <3>1. r.state = 4 <=> o.state = 4
      BY <2>2, TimersAgree
    <3>2. r.state = 4 => m = 4
      BY DEF MineCut
    <3>3. o.state = 4 => n = 4
      BY DEF ItsCut
    <3>4. r.state = 4 /\ o.state = 4 => ~(m = 0 \/ n = 0)
      BY <3>2, <3>3
    <3> QED BY <1>7, <3>1, <3>4
  <2>5. Over(r, t) => Over(o, t)
    BY <1>5 DEF Over, Mirrors
  <2>6. MayGo(r, t) /\ MayGo(o, t)
    BY <1>5, <1>7, <2>3, <2>4, <2>5 DEF MayGo, Mirrors
  <2>7. Goes(R, S, f, i, g, j, t)
    BY <2>1, <2>6 DEF Goes
  <2> QED BY <1>1, <1>2, <1>4, <1>5, <2>7
<1>8. CASE r.type = "nap" /\ ~over
  <2>1. S = Exchanged(R, f, i, x, g, j, y)
    <3>1. S = [R EXCEPT ![f][i] = x, ![g][j] = y]
      <4>1. R = [h \in Empire |-> R[h]]
        BY <1>2 DEF Files
      <4> QED BY <1>1, <1>4, <1>8, <4>1 DEF Deleted, Ends, MineCut, ItsCut, Stamped, Answer, Stamps
    <3> QED BY <3>1 DEF Exchanged
  <2>2. /\ x \in Relation /\ y \in Relation /\ Kin(x, r) /\ Kin(y, o)
        /\ Answers(y, f, x) /\ Answers(x, g, y)
        /\ TimerKept(r, x, t) /\ TimerKept(o, y, t)
    <3>1. m # 0 /\ n # 0 /\ r.type = "nap" /\ r.empire = g
      BY <1>8
    <3> HIDE DEF over, r, o, g, j
    <3> QED BY <1>2, <1>4, <3>1, CancelChanges
  <2>3. Changes(R, S, f, i, g, j, x, y, t)
    BY <1>8, <2>1, <2>2 DEF Changes
  <2>4. \E xx, yy \in Relation : Changes(R, S, f, i, g, j, xx, yy, t)
    BY <2>2, <2>3
  <2> HIDE DEF x, y
  <2> QED BY <1>1, <1>2, <1>4, <1>5, <2>4
<1> QED BY <1>6, <1>7, <1>8

LEMMA DeletedKeeps ==
  ASSUME Unmixed, NEW R, Sound(R), NEW f \in Empire, NEW i, NEW t \in 0 .. MaxTick,
         NEW S, S = Deleted(R, f, i, t)
  PROVE  Sound(S)
<1>1. CASE S = R
  BY <1>1
<1>2. CASE S # R
  <2>1. PICK g \in Empire, j \in Nat :
              /\ f # g /\ R[f][i].empire = g
              /\ j \in DOMAIN R[g] /\ R[g][j] \in Relation /\ Mirrors(R[g][j], f, R[f][i])
              /\ \/ Goes(R, S, f, i, g, j, t)
                 \/ \E x, y \in Relation : Changes(R, S, f, i, g, j, x, y, t)
    BY <1>2, DeletedCases
  <2>2. i \in DOMAIN R[f]
    BY <1>2, DeletedCases
  <2>3. CASE Goes(R, S, f, i, g, j, t)
    BY <2>1, <2>2, <2>3, RemovedKeeps DEF Goes
  <2>4. CASE \E x, y \in Relation : Changes(R, S, f, i, g, j, x, y, t)
    <3>1. PICK x, y \in Relation : Changes(R, S, f, i, g, j, x, y, t)
      BY <2>4
    <3> QED BY <2>1, <2>2, <3>1, MarkedKeeps DEF Changes
  <2> QED BY <2>1, <2>3, <2>4
<1> QED BY <1>1, <1>2

----------------------------------------------------------------------------
(* The rankings.                                                           *)

\* The files after each step of the walk over an empire's list, and after
\* each empire.
EndsBy(w, R, f, t) ==
  /\ w[0] = R /\ Ended(R, f, t) = w[Len(R[f])]
  /\ \A k \in 1 .. Len(R[f]) :
       w[k] = IF Due(R[f][k], t) THEN Deleted(w[k - 1], f, k, t) ELSE w[k - 1]

RanksBy(w, R, t) ==
  /\ w[0] = R /\ Rankings(R, t) = w[N]
  /\ \A k \in 1 .. N :
       w[k] = IF k - 1 \in Ranked THEN Ended(w[k - 1], k - 1, t) ELSE w[k - 1]

(* The files after each step of the walk over the copy of an empire's list *)
(* (cmdTickGenRanks), when cancellations do not lead out of V.             *)
LEMMA EndedWalk ==
  ASSUME NEW V \in SUBSET Files, NEW R \in V, NEW f \in Empire, NEW t,
         \A Q \in V, i \in Nat : Deleted(Q, f, i, t) \in V
  PROVE  \E w \in [0 .. Len(R[f]) -> V] : EndsBy(w, R, f, t)
<1> DEFINE n == Len(R[f])
           step(Q, k) == IF Due(R[f][k], t) THEN Deleted(Q, f, k, t) ELSE Q
           st == [z \in (1 .. n) \X V |-> step(z[2], z[1])]
           is(w) == w = [k \in 0 .. n |-> IF k = 0 THEN R ELSE step(w[k - 1], k)]
           it == CHOOSE w : is(w)
<1>1. n \in Nat
  BY Entries
<1>2. \A k \in 1 .. n, Q \in V : st[<<k, Q>>] = step(Q, k) /\ st[<<k, Q>>] \in V
  OBVIOUS
<1>3. PICK w \in [0 .. n -> V] : IsWalk(w, n, R, st)
  <2> HIDE DEF st, n
  <2> QED BY <1>1, <1>2, WalkExists
<1>4. \A k \in 0 .. n : w[k] = IF k = 0 THEN R ELSE step(w[k - 1], k)
  <2> TAKE k \in 0 .. n
  <2>1. CASE k = 0
    BY <1>3, <2>1 DEF IsWalk
  <2>2. CASE k # 0
    <3>1. k \in 1 .. n /\ w[k - 1] \in V
      BY <1>1, <2>2
    <3>2. w[k] = st[<<k, w[k - 1]>>]
      BY <1>3, <2>2 DEF IsWalk
    <3> HIDE DEF step, st
    <3> QED BY <1>2, <2>2, <3>1, <3>2
  <2> QED BY <2>1, <2>2
<1>5. is(w)
  <2> HIDE DEF step
  <2> QED BY <1>4
<1>6. is(it)
  BY <1>5
<1>7. \A k \in 0 .. n : it[k] = IF k = 0 THEN R ELSE step(it[k - 1], k)
  <2> HIDE DEF it, step
  <2> QED BY <1>6
<1>8. Ended(R, f, t) = it[n]
  BY DEF Ended
<1>9. it = [k \in 0 .. n |-> it[k]]
  <2> HIDE DEF it, step
  <2> QED BY <1>6
<1> HIDE DEF it
<1>10. 0 .. n \subseteq {k \in 0 .. n : it[k] \in V}
  <2> DEFINE G == {k \in 0 .. n : it[k] \in V}
  <2>1. 0 \in G
    BY <1>1, <1>7
  <2>2. ASSUME NEW k \in 0 .. n - 1, k \in G PROVE k + 1 \in G
    <3>1. k + 1 \in 1 .. n /\ k + 1 \in 0 .. n /\ (k + 1) - 1 = k /\ it[k] \in V
      BY <1>1, <2>2
    <3>2. it[k + 1] = step(it[k], k + 1)
      BY <1>7, <3>1
    <3> QED BY <3>1, <3>2
  <2> HIDE DEF G
  <2>3. 0 .. n \subseteq G
    BY <1>1, <2>1, <2>2, CountUp
  <2> QED BY <2>3 DEF G
<1>11. it \in [0 .. n -> V]
  BY <1>9, <1>10
<1>12. it[0] = R /\ \A k \in 1 .. n : it[k] = step(it[k - 1], k)
  <2> HIDE DEF step
  <2> QED BY <1>1, <1>7
<1> QED BY <1>8, <1>11, <1>12 DEF EndsBy

(* The files after each empire that the rankings look at.                  *)
LEMMA RankingsWalk ==
  ASSUME NEW V \in SUBSET Files, NEW R \in V, NEW t,
         \A Q \in V, f \in Empire : Ended(Q, f, t) \in V
  PROVE  \E w \in [0 .. N -> V] : RanksBy(w, R, t)
<1> DEFINE step(Q, k) == IF k - 1 \in Ranked THEN Ended(Q, k - 1, t) ELSE Q
           st == [z \in (1 .. N) \X V |-> step(z[2], z[1])]
           is(w) == w = [k \in 0 .. N |-> IF k = 0 THEN R ELSE step(w[k - 1], k)]
           it == CHOOSE w : is(w)
<1>1. N \in Nat
  BY RelationsConstants
<1>2. \A k \in 1 .. N, Q \in V : st[<<k, Q>>] = step(Q, k) /\ st[<<k, Q>>] \in V
  <2>1. \A k \in 1 .. N : k - 1 \in Empire
    BY <1>1 DEF Empire
  <2> QED BY <2>1
<1>3. PICK w \in [0 .. N -> V] : IsWalk(w, N, R, st)
  <2> HIDE DEF st
  <2> QED BY <1>1, <1>2, WalkExists
<1>4. \A k \in 0 .. N : w[k] = IF k = 0 THEN R ELSE step(w[k - 1], k)
  <2> TAKE k \in 0 .. N
  <2>1. CASE k = 0
    BY <1>3, <2>1 DEF IsWalk
  <2>2. CASE k # 0
    <3>1. k \in 1 .. N /\ w[k - 1] \in V
      BY <1>1, <2>2
    <3>2. w[k] = st[<<k, w[k - 1]>>]
      BY <1>3, <2>2 DEF IsWalk
    <3> HIDE DEF step, st
    <3> QED BY <1>2, <2>2, <3>1, <3>2
  <2> QED BY <2>1, <2>2
<1>5. is(w)
  <2> HIDE DEF step
  <2> QED BY <1>4
<1>6. is(it)
  BY <1>5
<1>7. \A k \in 0 .. N : it[k] = IF k = 0 THEN R ELSE step(it[k - 1], k)
  <2> HIDE DEF it, step
  <2> QED BY <1>6
<1>8. Rankings(R, t) = it[N]
  BY DEF Rankings
<1>9. it = [k \in 0 .. N |-> it[k]]
  <2> HIDE DEF it, step
  <2> QED BY <1>6
<1> HIDE DEF it
<1>10. 0 .. N \subseteq {k \in 0 .. N : it[k] \in V}
  <2> DEFINE G == {k \in 0 .. N : it[k] \in V}
  <2>1. 0 \in G
    BY <1>1, <1>7
  <2>2. ASSUME NEW k \in 0 .. N - 1, k \in G PROVE k + 1 \in G
    <3>1. /\ k + 1 \in 1 .. N /\ k + 1 \in 0 .. N /\ (k + 1) - 1 = k /\ it[k] \in V
          /\ k \in Empire
      BY <1>1, <2>2 DEF Empire
    <3>2. it[k + 1] = step(it[k], k + 1)
      BY <1>7, <3>1
    <3> QED BY <3>1, <3>2
  <2> HIDE DEF G
  <2>3. 0 .. N \subseteq G
    BY <1>1, <2>1, <2>2, CountUp
  <2> QED BY <2>3 DEF G
<1>11. it \in [0 .. N -> V]
  BY <1>9, <1>10
<1>12. it[0] = R /\ \A k \in 1 .. N : it[k] = step(it[k - 1], k)
  <2> HIDE DEF step
  <2> QED BY <1>1, <1>7
<1> QED BY <1>8, <1>11, <1>12 DEF RanksBy

LEMMA EndedStays ==
  ASSUME NEW V \in SUBSET Files, NEW R \in V, NEW f \in Empire, NEW t,
         \A Q \in V, i \in Nat : Deleted(Q, f, i, t) \in V
  PROVE  Ended(R, f, t) \in V
<1>1. Len(R[f]) \in Nat
  BY Entries
<1>2. PICK w \in [0 .. Len(R[f]) -> V] : EndsBy(w, R, f, t)
  BY EndedWalk
<1> QED BY <1>1, <1>2 DEF EndsBy

(* What no cancellation leads out of, the rankings do not lead out of.     *)
LEMMA RankingsStay ==
  ASSUME NEW V \in SUBSET Files, NEW R \in V, NEW t,
         \A Q \in V, f \in Empire, i \in Nat : Deleted(Q, f, i, t) \in V
  PROVE  Rankings(R, t) \in V
<1>1. \A Q \in V, f \in Empire : Ended(Q, f, t) \in V
  BY EndedStays
<1>2. PICK w \in [0 .. N -> V] : RanksBy(w, R, t)
  BY <1>1, RankingsWalk
<1> QED BY <1>2, RelationsConstants DEF RanksBy

SoundFiles == {R \in Files : Sound(R)}

LEMMA RankingsSound ==
  ASSUME Unmixed, NEW R, Sound(R), NEW t \in 0 .. MaxTick
  PROVE  Sound(Rankings(R, t))
<1>1. R \in SoundFiles /\ SoundFiles \in SUBSET Files
  BY DEF SoundFiles, Sound
<1>2. ASSUME NEW Q \in SoundFiles, NEW f \in Empire, NEW i \in Nat
      PROVE  Deleted(Q, f, i, t) \in SoundFiles
  <2>1. Sound(Deleted(Q, f, i, t))
    BY DeletedKeeps DEF SoundFiles
  <2> QED BY <2>1 DEF SoundFiles, Sound
<1>3. Rankings(R, t) \in SoundFiles
  BY <1>1, <1>2, RankingsStay
<1> QED BY <1>3 DEF SoundFiles

----------------------------------------------------------------------------
(* Entering into a relation.                                               *)

With(s, x) == Append(s, x)

LEMMA Appended ==
  ASSUME NEW s \in Seq(Relation), Single(s), NEW x \in Relation,
         \A r \in ToSet(s) : ~Kin(r, x), NEW t, t = With(s, x)
  PROVE  /\ t \in Seq(Relation) /\ Len(t) = Len(s) + 1 /\ DOMAIN t = 1 .. Len(s) + 1
         /\ \A i \in 1 .. Len(s) : t[i] = s[i]
         /\ t[Len(s) + 1] = x
         /\ Single(t) /\ ToSet(t) = ToSet(s) \cup {x}
<1> DEFINE L == Len(s)
<1>1. L \in Nat /\ DOMAIN s = 1 .. L
  OBVIOUS
<1>2. t \in Seq(Relation) /\ Len(t) = L + 1 /\ DOMAIN t = 1 .. L + 1
  BY DEF With
<1>3. (\A i \in 1 .. L : t[i] = s[i]) /\ t[L + 1] = x
  BY DEF With
<1> HIDE DEF L
<1>4. \A i \in 1 .. L + 1 : i \in 1 .. L \/ i = L + 1
  BY <1>1
<1>5. \A i \in 1 .. L : ~Kin(s[i], x) /\ ~Kin(x, s[i])
  BY <1>1 DEF ToSet, Kin
<1>6. Single(t)
  <2> SUFFICES ASSUME NEW i \in 1 .. L + 1, NEW j \in 1 .. L + 1, Kin(t[i], t[j]) PROVE i = j
    BY <1>2 DEF Single
  <2>1. CASE i \in 1 .. L /\ j \in 1 .. L
    BY <1>1, <1>3, <2>1 DEF Single
  <2>2. CASE ~(i \in 1 .. L /\ j \in 1 .. L)
    BY <1>3, <1>4, <1>5, <2>2
  <2> QED BY <2>1, <2>2
<1>7. ToSet(t) = ToSet(s) \cup {x}
  <2>1. ToSet(t) \subseteq ToSet(s) \cup {x}
    BY <1>1, <1>2, <1>3, <1>4 DEF ToSet
  <2>2. 1 .. L \subseteq 1 .. L + 1 /\ L + 1 \in 1 .. L + 1
    BY <1>1
  <2>3. ToSet(s) \cup {x} \subseteq ToSet(t)
    BY <1>1, <1>2, <1>3, <2>2 DEF ToSet
  <2> QED BY <2>1, <2>3
<1> QED BY <1>2, <1>3, <1>6, <1>7 DEF L

\* Records were only added, at the end of files, with tick t.
Grown(R, S, t) ==
  \A h \in Empire :
    /\ \A i \in DOMAIN R[h] : i \in DOMAIN S[h] /\ S[h][i] = R[h][i]
    /\ \A i \in DOMAIN S[h] : (i \in DOMAIN R[h] /\ S[h][i] = R[h][i]) \/ S[h][i].tick = t

(* Two records that are new to both files.                                 *)
LEMMA EnterKeeps ==
  ASSUME Sound(rels), NEW f \in Empire, NEW g \in Empire, f # g,
         NEW mine \in Relation, NEW its \in Relation, Enter(f, g, mine, its),
         mine.type \in Types, mine.empire = g, Answers(its, f, mine), Answers(mine, g, its),
         \A r \in ToSet(rels[f]) : ~Kin(r, mine), \A r \in ToSet(rels[g]) : ~Kin(r, its),
         Proposed(mine) => \A r \in ToSet(rels[f]) : ~Proposed(r), ~Proposed(its),
         mine.tick = now
  PROVE  Sound(rels') /\ Grown(rels, rels', now)
<1>1. rels \in Files /\ \A h \in Empire : /\ rels[h] \in Seq(Relation) /\ Single(rels[h])
                                         /\ Len(rels[h]) \in Nat /\ DOMAIN rels[h] = 1 .. Len(rels[h])
                                         /\ Len(rels[h]) <= MaxRels /\ OneProposal(rels[h])
  BY Entries DEF Sound
<1>2. rels' = [h \in Empire |-> IF h = f THEN With(rels[f], mine)
                               ELSE IF h = g THEN With(rels[g], its) ELSE rels[h]]
  BY <1>1 DEF Enter, Files, With
<1>3. /\ rels'[f] = With(rels[f], mine) /\ rels'[g] = With(rels[g], its)
      /\ \A h \in Empire \ {f, g} : rels'[h] = rels[h]
  BY <1>2
<1>4. /\ rels'[f] \in Seq(Relation) /\ Len(rels'[f]) = Len(rels[f]) + 1
      /\ Single(rels'[f]) /\ ToSet(rels'[f]) = ToSet(rels[f]) \cup {mine}
      /\ \A i \in DOMAIN rels[f] : i \in DOMAIN rels'[f] /\ rels'[f][i] = rels[f][i]
      /\ \A i \in DOMAIN rels'[f] : \/ i \in DOMAIN rels[f] /\ rels'[f][i] = rels[f][i]
                                   \/ rels'[f][i] = mine
  <2>1. /\ rels'[f] \in Seq(Relation) /\ Len(rels'[f]) = Len(rels[f]) + 1
        /\ DOMAIN rels'[f] = 1 .. Len(rels[f]) + 1
        /\ \A i \in 1 .. Len(rels[f]) : rels'[f][i] = rels[f][i]
        /\ rels'[f][Len(rels[f]) + 1] = mine
        /\ Single(rels'[f]) /\ ToSet(rels'[f]) = ToSet(rels[f]) \cup {mine}
    BY <1>1, <1>3, Appended
  <2>2. /\ \A i \in 1 .. Len(rels[f]) + 1 : i \in 1 .. Len(rels[f]) \/ i = Len(rels[f]) + 1
        /\ \A i \in 1 .. Len(rels[f]) : i \in 1 .. Len(rels[f]) + 1
    BY <1>1
  <2> QED BY <1>1, <2>1, <2>2
<1>5. /\ rels'[g] \in Seq(Relation) /\ Len(rels'[g]) = Len(rels[g]) + 1
      /\ Single(rels'[g]) /\ ToSet(rels'[g]) = ToSet(rels[g]) \cup {its}
      /\ \A i \in DOMAIN rels[g] : i \in DOMAIN rels'[g] /\ rels'[g][i] = rels[g][i]
      /\ \A i \in DOMAIN rels'[g] : \/ i \in DOMAIN rels[g] /\ rels'[g][i] = rels[g][i]
                                   \/ rels'[g][i] = its
  <2>1. /\ rels'[g] \in Seq(Relation) /\ Len(rels'[g]) = Len(rels[g]) + 1
        /\ DOMAIN rels'[g] = 1 .. Len(rels[g]) + 1
        /\ \A i \in 1 .. Len(rels[g]) : rels'[g][i] = rels[g][i]
        /\ rels'[g][Len(rels[g]) + 1] = its
        /\ Single(rels'[g]) /\ ToSet(rels'[g]) = ToSet(rels[g]) \cup {its}
    BY <1>1, <1>3, Appended
  <2>2. /\ \A i \in 1 .. Len(rels[g]) + 1 : i \in 1 .. Len(rels[g]) \/ i = Len(rels[g]) + 1
        /\ \A i \in 1 .. Len(rels[g]) : i \in 1 .. Len(rels[g]) + 1
    BY <1>1
  <2> QED BY <1>1, <2>1, <2>2
<1>6. rels' \in Files
  <2>1. \A h \in Empire : rels'[h] \in Seq(Relation)
    BY <1>1, <1>3, <1>4, <1>5
  <2> QED BY <1>2, <2>1 DEF Files
<1>7. \A h \in Empire : Len(rels'[h]) <= MaxRels /\ Single(rels'[h]) /\ OneProposal(rels'[h])
  <2> TAKE h \in Empire
  <2>1. Len(rels[f]) < MaxRels /\ Len(rels[g]) < MaxRels
    BY DEF Enter
  <2>2. Len(rels'[h]) <= MaxRels
    <3>1. Len(rels[f]) + 1 <= MaxRels /\ Len(rels[g]) + 1 <= MaxRels
      BY <1>1, <2>1, RelationsConstants
    <3> QED BY <1>1, <1>3, <1>4, <1>5, <3>1
  <2>3. OneProposal(rels'[h])
    <3>1. CASE h = f
      BY <1>1, <1>4, <3>1 DEF OneProposal
    <3>2. CASE h = g
      BY <1>1, <1>5, <3>2 DEF OneProposal
    <3>3. CASE h \notin {f, g}
      BY <1>1, <1>3, <3>3
    <3> QED BY <3>1, <3>2, <3>3
  <2> QED BY <1>1, <1>3, <1>4, <1>5, <2>2, <2>3
<1>8. Answered(rels')
  <2> SUFFICES ASSUME NEW h \in Empire, NEW z \in ToSet(rels'[h])
               PROVE  /\ z.type \in Types /\ z.empire # h
                      /\ \E w \in ToSet(rels'[z.empire]) : Answers(w, h, z)
    BY DEF Answered
  <2>1. its.type = mine.type /\ its.empire = f
    BY DEF Answers, Mirrors
  <2>2. CASE h = f /\ z = mine
    BY <1>5, <2>1, <2>2
  <2>3. CASE h = g /\ z = its
    BY <1>4, <2>1, <2>3
  <2>4. CASE ~(h = f /\ z = mine) /\ ~(h = g /\ z = its)
    <3>1. z \in ToSet(rels[h])
      <4>1. CASE h = f
        BY <1>4, <2>4, <4>1
      <4>2. CASE h = g
        BY <1>5, <2>4, <4>2
      <4>3. CASE h \notin {f, g}
        BY <1>3, <4>3
      <4> QED BY <4>1, <4>2, <4>3
    <3>2. /\ z.type \in Types /\ z.empire # h /\ z.empire \in Empire
          /\ \E w \in ToSet(rels[z.empire]) : Answers(w, h, z)
      BY <1>1, <3>1, Entries DEF Sound, Answered
    <3>3. ToSet(rels[z.empire]) \subseteq ToSet(rels'[z.empire])
      BY <1>3, <1>4, <1>5, <3>2
    <3> QED BY <3>2, <3>3
  <2> QED BY <2>2, <2>3, <2>4
<1>9. Grown(rels, rels', now)
  <2>1. mine.tick = now /\ its.tick = now
    BY DEF Answers, Mirrors
  <2>2. ASSUME NEW h \in Empire
        PROVE  /\ \A i \in DOMAIN rels[h] : i \in DOMAIN rels'[h] /\ rels'[h][i] = rels[h][i]
               /\ \A i \in DOMAIN rels'[h] : \/ i \in DOMAIN rels[h] /\ rels'[h][i] = rels[h][i]
                                            \/ rels'[h][i].tick = now
    <3>1. CASE h = f
      BY <1>4, <2>1, <3>1
    <3>2. CASE h = g
      BY <1>5, <2>1, <3>2
    <3>3. CASE h \notin {f, g}
      BY <1>3, <3>3
    <3> QED BY <3>1, <3>2, <3>3
  <2> QED BY <2>2 DEF Grown
<1> QED BY <1>6, <1>7, <1>8, <1>9 DEF Sound

LEMMA AllianceKeeps ==
  ASSUME Sound(rels), now \in 0 .. MaxTick, "ally" \in Types,
         NEW f \in Empire, NEW g \in Empire, OfferAlliance(f, g)
  PROVE  Sound(rels') /\ Grown(rels, rels', now)
<1> DEFINE mine == Record("ally", g, FALSE, 0, 0)  its == Record("ally", f, TRUE, 0, 0)
<1>1. mine \in Relation /\ its \in Relation /\ mine.tick = now
  BY DEF Record, Relation, NapState
<1>2. /\ Answers(its, f, mine) /\ Answers(mine, g, its)
      /\ mine.type \in Types /\ mine.empire = g /\ ~Proposed(its)
  BY DEF Record, Answers, Mirrors, Proposed
<1>3. /\ f # g /\ Enter(f, g, mine, its)
      /\ \A r \in ToSet(rels[f]) : ~(r.type = "ally" /\ ~r.incoming)
  BY DEF OfferAlliance
<1>4. \A r \in ToSet(rels[f]) : ~Kin(r, mine) /\ ~Proposed(r)
  BY <1>3 DEF Kin, Record, Proposed
<1>5. ASSUME NEW r \in ToSet(rels[g]), Kin(r, its) PROVE FALSE
  <2>1. r.empire = f /\ r.type = "ally" /\ r.incoming = TRUE
    BY <1>5 DEF Kin, Record
  <2>2. PICK o \in ToSet(rels[f]) : Answers(o, g, r)
    BY <2>1 DEF Sound, Answered
  <2> QED BY <1>3, <2>1, <2>2 DEF Answers, Mirrors
<1> HIDE DEF mine, its
<1> QED BY <1>1, <1>2, <1>3, <1>4, <1>5, EnterKeeps

LEMMA WarKeeps ==
  ASSUME Sound(rels), now \in 0 .. MaxTick, "war" \in Types,
         NEW f \in Empire, NEW g \in Empire, DeclareWar(f, g)
  PROVE  Sound(rels') /\ Grown(rels, rels', now)
<1> DEFINE mine == Record("war", g, FALSE, 0, 0)  its == Record("war", f, TRUE, 0, 0)
<1>1. mine \in Relation /\ its \in Relation /\ mine.tick = now
  BY DEF Record, Relation, NapState
<1>2. /\ Answers(its, f, mine) /\ Answers(mine, g, its)
      /\ mine.type \in Types /\ mine.empire = g /\ ~Proposed(its) /\ ~Proposed(mine)
  BY DEF Record, Answers, Mirrors, Proposed
<1>3. /\ f # g /\ Enter(f, g, mine, its)
      /\ \A r \in ToSet(rels[f]) : ~(r.empire = g /\ r.type = "war" /\ r.incoming = FALSE)
  BY DEF DeclareWar, Bound
<1>4. \A r \in ToSet(rels[f]) : ~Kin(r, mine)
  BY <1>3 DEF Kin, Record
<1>5. ASSUME NEW r \in ToSet(rels[g]), Kin(r, its) PROVE FALSE
  <2>1. r.empire = f /\ r.type = "war" /\ r.incoming = TRUE
    BY <1>5 DEF Kin, Record
  <2>2. PICK o \in ToSet(rels[f]) : Answers(o, g, r)
    BY <2>1 DEF Sound, Answered
  <2> QED BY <1>3, <2>1, <2>2 DEF Answers, Mirrors
<1> HIDE DEF mine, its
<1> QED BY <1>1, <1>2, <1>3, <1>4, <1>5, EnterKeeps

PactWith(r, g) == r.type = "nap" /\ r.empire = g

(* findFamNAPRels finds the record of the pact if there is one.            *)
LEMMA PactFound ==
  ASSUME rels \in Files, NEW f \in Empire, NEW g \in Empire, NEW i, i = PactAt(f, g)
  PROVE  /\ i = 0 => \A r \in ToSet(rels[f]) : ~PactWith(r, g)
         /\ i # 0 => i \in DOMAIN rels[f] /\ PactWith(rels[f][i], g)
<1> DEFINE s == rels[f]
<1>1. s \in Seq(Relation) /\ Len(s) \in Nat /\ DOMAIN s = 1 .. Len(s)
  BY Entries
<1>2. CASE \E k \in DOMAIN s : PactWith(s[k], g)
  <2> DEFINE S == {m \in DOMAIN s : PactWith(s[m], g)}
  <2>1. \E m \in 1 .. Len(s) : m \in S /\ \A l \in 1 .. m - 1 : l \notin S
    <3>1. \E k \in 1 .. Len(s) : k \in S
      BY <1>1, <1>2
    <3> HIDE DEF S
    <3> QED BY <1>1, <3>1, FindFinds
  <2>2. PICK m \in 1 .. Len(s) : m \in S /\ \A l \in 1 .. m - 1 : l \notin S
    BY <2>1
  <2>3. \A l \in 1 .. m - 1 : l \in DOMAIN s
    BY <1>1
  <2>4. \E k \in DOMAIN s : PactWith(s[k], g) /\ \A l \in 1 .. k - 1 : ~PactWith(s[l], g)
    BY <1>1, <2>2, <2>3
  <2>5. i = CHOOSE k \in DOMAIN s : PactWith(s[k], g) /\ \A l \in 1 .. k - 1 : ~PactWith(s[l], g)
    BY <1>2 DEF PactAt, Find, PactWith
  <2>6. i \in DOMAIN s /\ PactWith(s[i], g)
    <3> HIDE DEF s
    <3> QED BY <2>4, <2>5
  <2> QED BY <1>1, <2>6
<1>3. CASE ~\E k \in DOMAIN s : PactWith(s[k], g)
  BY <1>3 DEF PactAt, Find, PactWith, ToSet
<1> QED BY <1>2, <1>3

\* A pact was offered anew or accepted: neither of its records had a timer
\* that ran.
Accepts(R, S, t) ==
  \E f, g \in Empire, i, j \in Nat, x, y \in Relation :
    /\ f # g /\ i \in DOMAIN R[f] /\ j \in DOMAIN R[g]
    /\ R[f][i].empire = g /\ Mirrors(R[g][j], f, R[f][i])
    /\ Changes(R, S, f, i, g, j, x, y, t)

LEMMA PactKeeps ==
  ASSUME Sound(rels), now \in 0 .. MaxTick, Unmixed, "nap" \in Types,
         NEW f \in Empire, NEW g \in Empire, NEW len \in Nat, OfferPact(f, g, len),
         NEW t
  PROVE  Sound(rels') /\ (Grown(rels, rels', now) \/ Accepts(rels, rels', t))
<1> DEFINE i == PactAt(f, g)  j == PactAt(g, f)
           event == IF len = 0 THEN Infinite ELSE Timed
<1>1. f # g /\ rels \in Files
  BY DEF OfferPact, Sound
<1>2. /\ i = 0 => \A r \in ToSet(rels[f]) : ~PactWith(r, g)
      /\ i # 0 => i \in DOMAIN rels[f] /\ PactWith(rels[f][i], g)
  BY <1>1, PactFound
<1>3. /\ j = 0 => \A r \in ToSet(rels[g]) : ~PactWith(r, f)
      /\ j # 0 => j \in DOMAIN rels[g] /\ PactWith(rels[g][j], f)
  BY <1>1, PactFound
<1>4. CASE i # 0 /\ j # 0
  <2> DEFINE r == rels[f][i]  o == rels[g][j]
             table == IF len = o.len THEN Equal ELSE Different
             m == Mine(table, r.state, event)  n == Its(table, o.state, event)
             reset == len # o.len /\ m \notin Made
             new == IF len # o.len /\ m \notin Made THEN len ELSE o.len
             x == [r EXCEPT !.state = m, !.len = new]  y == [o EXCEPT !.state = n, !.len = new]
  <2>1. /\ i \in DOMAIN rels[f] /\ r.type = "nap" /\ r.empire = g
        /\ j \in DOMAIN rels[g] /\ o.type = "nap" /\ o.empire = f
    BY <1>2, <1>3, <1>4 DEF PactWith
  <2>2. r \in Relation /\ o \in Relation /\ r \in ToSet(rels[f]) /\ o \in ToSet(rels[g])
        /\ i \in Nat /\ j \in Nat
    BY <1>1, <2>1, Entries
  <2>3. Answers(o, f, r)
    <3>1. PICK w \in ToSet(rels[g]) : Answers(w, f, r)
      BY <2>1, <2>2 DEF Sound, Answered
    <3>2. Kin(w, o)
      BY <2>1, <3>1 DEF Kin, Answers, Mirrors
    <3>3. PICK k \in DOMAIN rels[g] : w = rels[g][k]
      BY <3>1 DEF ToSet
    <3>4. k = j
      BY <2>1, <3>2, <3>3 DEF Sound, Single
    <3> QED BY <3>1, <3>3, <3>4
  <2>4. /\ Mirrors(o, f, r) /\ Agree(r.state, o.state, o.len)
        /\ r.state \in NapState /\ o.state \in NapState /\ o.len \in Nat
    BY <2>1, <2>2, <2>3 DEF Answers, Mirrors, Relation
  <2>5. r.state \notin Made /\ r.state # 3 /\ r.state # 4 /\ o.state # 3 /\ o.state # 4
    <3>1. r.state \notin Made
      BY <1>4 DEF OfferPact
    <3>2. r.state # 3 /\ r.state # 4
      BY <3>1 DEF Made
    <3> QED BY <2>4, <3>1, <3>2, TimersAgree
  <2>6. m \in NapState /\ n \in NapState /\ Agree(m, n, new) /\ Agree(n, m, new) /\ new \in Nat
    <3> HIDE DEF r, o
    <3> QED BY <2>4, <2>5, OfferAgrees
  <2>7. rels' = Exchanged(rels, f, i, x, g, j, y)
    <3>1. r.len = o.len
      BY <2>4 DEF Mirrors
    <3>2. [r EXCEPT !.state = m, !.len = IF reset THEN len ELSE @] = x
      BY <2>2, <3>1 DEF Relation
    <3>3. [o EXCEPT !.state = n, !.len = IF reset THEN len ELSE @] = y
      BY <2>2 DEF Relation
    <3>4. rels' = [rels EXCEPT ![f][i] = [r EXCEPT !.state = m, !.len = IF reset THEN len ELSE @],
                               ![g][j] = [o EXCEPT !.state = n, !.len = IF reset THEN len ELSE @]]
      BY <1>4 DEF OfferPact
    <3> QED BY <3>2, <3>3, <3>4 DEF Exchanged
  <2>8. x \in Relation /\ y \in Relation /\ Kin(x, r) /\ Kin(y, o)
    BY <2>2, <2>6 DEF Relation, Kin
  <2>9. Answers(y, f, x) /\ Answers(x, g, y)
    BY <2>1, <2>2, <2>4, <2>6 DEF Answers, Mirrors, Relation
  <2>10. TimerKept(r, x, t) /\ TimerKept(o, y, t)
    BY <2>5 DEF TimerKept
  <2> HIDE DEF x, y
  <2>11. Changes(rels, rels', f, i, g, j, x, y, t)
    BY <2>1, <2>7, <2>8, <2>9, <2>10 DEF Changes
  <2>12. Accepts(rels, rels', t)
    BY <1>1, <2>1, <2>2, <2>4, <2>8, <2>11 DEF Accepts
  <2>13. Sound(rels')
    BY <1>1, <2>1, <2>4, <2>7, <2>8, <2>9, MarkedKeeps
  <2> QED BY <2>12, <2>13
<1>5. CASE ~(i # 0 /\ j # 0)
  <2> DEFINE m == Mine(Equal, 0, event)  n == Its(Equal, 0, event)
             mine == Record("nap", g, FALSE, m, len)  its == Record("nap", f, TRUE, n, len)
  <2>1. Enter(f, g, mine, its)
    BY <1>5 DEF OfferPact
  <2>2. m \in NapState /\ n \in NapState /\ Agree(m, n, len) /\ Agree(n, m, len)
    BY FirstOffer
  <2> HIDE DEF m, n
  <2>3. mine \in Relation /\ its \in Relation /\ mine.tick = now
    BY <2>2 DEF Record, Relation
  <2>4. /\ Answers(its, f, mine) /\ Answers(mine, g, its)
        /\ mine.type \in Types /\ mine.empire = g /\ ~Proposed(its) /\ ~Proposed(mine)
    BY <2>2 DEF Record, Answers, Mirrors, Proposed
  <2>5. ASSUME NEW r \in ToSet(rels[f]), PactWith(r, g) PROVE FALSE
    <3>1. j = 0
      BY <1>2, <1>5, <2>5
    <3>2. PICK o \in ToSet(rels[g]) : Answers(o, f, r)
      BY <2>5 DEF Sound, Answered, PactWith
    <3> QED BY <1>3, <2>5, <3>1, <3>2 DEF Answers, Mirrors, PactWith
  <2>6. ASSUME NEW r \in ToSet(rels[g]), PactWith(r, f) PROVE FALSE
    <3>1. PICK o \in ToSet(rels[f]) : Answers(o, g, r)
      BY <2>6 DEF Sound, Answered, PactWith
    <3>2. PactWith(o, g)
      BY <2>6, <3>1 DEF Answers, Mirrors, PactWith
    <3> QED BY <2>5, <3>2
  <2>7. /\ \A r \in ToSet(rels[f]) : ~Kin(r, mine)
        /\ \A r \in ToSet(rels[g]) : ~Kin(r, its)
    BY <2>5, <2>6 DEF Kin, Record, PactWith
  <2> HIDE DEF mine, its
  <2> QED BY <1>1, <2>1, <2>3, <2>4, <2>7, EnterKeeps
<1> QED BY <1>4, <1>5

----------------------------------------------------------------------------
(* The files of all empires stay sound.                                    *)

RelsInv == now \in 0 .. MaxTick /\ Sound(rels)

LEMMA SoundStart == Init => RelsInv
<1> SUFFICES ASSUME Init PROVE RelsInv
  OBVIOUS
<1>1. now \in 0 .. MaxTick
  BY RelationsConstants DEF Init
<1>2. rels \in Files /\ \A f \in Empire : rels[f] = << >> /\ Len(rels[f]) = 0
  BY DEF Init, Files
<1>3. \A f \in Empire : ToSet(rels[f]) = {} /\ Single(rels[f]) /\ OneProposal(rels[f])
  BY <1>2 DEF ToSet, Single, OneProposal
<1>4. Sound(rels)
  BY <1>2, <1>3, RelationsConstants DEF Sound, Answered
<1> QED BY <1>1, <1>4 DEF RelsInv

LEMMA SoundKept ==
  ASSUME Unmixed, RelsInv, [Next]_vars
  PROVE  RelsInv'
<1>1. CASE UNCHANGED vars
  BY <1>1 DEF vars, RelsInv, Sound, Answered, Files
<1>2. ASSUME NEW f \in Empire, NEW g \in Empire, "ally" \in Types, OfferAlliance(f, g)
      PROVE  RelsInv'
  BY <1>2, AllianceKeeps DEF RelsInv, OfferAlliance, Enter
<1>3. ASSUME NEW f \in Empire, NEW g \in Empire, "war" \in Types, DeclareWar(f, g)
      PROVE  RelsInv'
  BY <1>3, WarKeeps DEF RelsInv, DeclareWar, Enter
<1>4. ASSUME NEW f \in Empire, NEW g \in Empire, NEW len \in Lengths, "nap" \in Types,
             OfferPact(f, g, len)
      PROVE  RelsInv'
  <2>1. len \in Nat
    BY RelationsConstants
  <2>2. Sound(rels')
    BY <1>4, <2>1, PactKeeps DEF RelsInv
  <2>3. now' = now
    BY <1>4 DEF OfferPact, Enter
  <2> QED BY <2>2, <2>3 DEF RelsInv
<1>5. ASSUME NEW f \in Empire, NEW i \in 1 .. MaxRels, CancelRelation(f, i)
      PROVE  RelsInv'
  BY <1>5, DeletedKeeps DEF RelsInv, CancelRelation
<1>6. CASE TickEnd
  <2>1. now' \in 0 .. MaxTick
    BY <1>6, RelationsConstants DEF TickEnd, RelsInv
  <2>2. Sound(rels')
    BY <1>6, <2>1, RankingsSound DEF TickEnd, RelsInv
  <2> QED BY <2>1, <2>2 DEF RelsInv
<1> QED BY <1>1, <1>2, <1>3, <1>4, <1>5, <1>6 DEF Next

LEMMA AlwaysSound ==
  ASSUME Unmixed
  PROVE  Spec => []RelsInv
BY SoundStart, SoundKept, PTL DEF Spec

LEMMA SoundIsPaired == ASSUME Sound(rels) PROVE Paired
<1> SUFFICES ASSUME NEW f \in Empire, NEW i \in DOMAIN rels[f]
             PROVE  Cardinality({j \in DOMAIN rels[rels[f][i].empire] :
                                  Mirrors(rels[rels[f][i].empire][j], f, rels[f][i])}) = 1
  BY DEF Paired, Mirrors
<1> DEFINE r == rels[f][i]  s == rels[r.empire]
           T == {j \in DOMAIN s : Mirrors(s[j], f, r)}
<1>1. rels \in Files /\ r \in ToSet(rels[f]) /\ r.empire \in Empire
  BY Entries DEF Sound
<1>2. PICK j \in DOMAIN s : Mirrors(s[j], f, r)
  BY <1>1 DEF Sound, Answered, Answers, ToSet
<1>3. ASSUME NEW k \in DOMAIN s, Mirrors(s[k], f, r) PROVE k = j
  <2>1. Kin(s[k], s[j])
    BY <1>2, <1>3 DEF Kin, Mirrors
  <2> QED BY <1>1, <2>1 DEF Sound, Single
<1>4. T = {j}
  BY <1>2, <1>3
<1>5. Cardinality(T) = 1
  BY <1>4, FS_Singleton
<1> QED BY <1>5

LEMMA SoundIsMutual == ASSUME Sound(rels) PROVE TimedPactsMutual
<1> SUFFICES ASSUME NEW f \in Empire, NEW g \in Empire,
                    NEW r \in Pacts(f, g), NEW o \in Pacts(g, f),
                    r.state \in {3, 4} \/ o.state \in {3, 4}
             PROVE  r.state = o.state
  BY DEF TimedPactsMutual
<1>1. r \in ToSet(rels[f]) /\ r.type = "nap" /\ r.empire = g
  BY DEF Pacts
<1>2. o \in ToSet(rels[g]) /\ o.type = "nap" /\ o.empire = f
  BY DEF Pacts
<1>3. PICK w \in ToSet(rels[g]) : Answers(w, f, r)
  BY <1>1 DEF Sound, Answered
<1>4. w = o
  <2>1. Kin(w, o)
    BY <1>1, <1>2, <1>3 DEF Kin, Answers, Mirrors
  <2> QED BY <1>2, <1>3, <2>1 DEF Sound, Single, ToSet
<1>5. Agree(r.state, o.state, r.len)
  BY <1>1, <1>3, <1>4 DEF Answers
<1> QED BY <1>5, TimersAgree

LEMMA SoundIsOneAlliance == ASSUME Sound(rels) PROVE OneAlliance
<1> SUFFICES ASSUME NEW f \in Empire
             PROVE  Cardinality({i \in DOMAIN rels[f] : Proposed(rels[f][i])}) <= 1
  BY DEF OneAlliance, Proposed
<1> DEFINE T == {i \in DOMAIN rels[f] : Proposed(rels[f][i])}
<1>1. ASSUME NEW i \in T, NEW j \in T PROVE i = j
  <2>1. rels[f][i] = rels[f][j]
    BY DEF Sound, OneProposal, ToSet
  <2> QED BY <2>1 DEF Sound, Single, Kin
<1>2. CASE T = {}
  BY <1>2, FS_EmptySet
<1>3. CASE T # {}
  <2>1. PICK i \in T : TRUE
    BY <1>3
  <2>2. T = {i}
    BY <1>1, <2>1
  <2>3. Cardinality(T) = 1
    BY <2>2, FS_Singleton
  <2> QED BY <2>3
<1> QED BY <1>2, <1>3

(* Where only pacts are entered into, whatever is offered, accepted,       *)
(* cancelled or runs out, in whatever order, and through every walk of the *)
(* rankings: each record has its other side in the other empire's file,    *)
(* and a timer that runs for one empire runs for both (cmdExecAddRelation, *)
(* cmdExecDelRelation, cmdTickGenRanks).                                   *)
THEOREM PactsStayPaired ==
  ASSUME Types \subseteq {"nap"}
  PROVE  Spec => []PactsSound
<1>1. Unmixed
  BY DEF Unmixed
<1>2. RelsInv => PactsSound
  <2>1. RelsInv => TypeOK
    BY DEF RelsInv, Sound, Files, TypeOK
  <2> QED BY <2>1, SoundIsPaired, SoundIsMutual DEF RelsInv, PactsSound
<1> QED BY <1>1, <1>2, AlwaysSound, PTL

(* Where no pacts are entered into, every war and every alliance has both  *)
(* its records, and no empire offers or is in two alliances, also while    *)
(* the rankings cancel by index from a copy of the list.                   *)
THEOREM TiesStayPaired ==
  ASSUME "nap" \notin Types
  PROVE  Spec => []TiesSound
<1>1. Unmixed
  BY DEF Unmixed
<1>2. RelsInv => TiesSound
  BY SoundIsPaired, SoundIsOneAlliance DEF RelsInv, TiesSound
<1> QED BY <1>1, <1>2, AlwaysSound, PTL

----------------------------------------------------------------------------
(* Notices and timers.                                                     *)

\* What every record that is under notice in R is in S.
Noticed(R, S, t) ==
  \A f \in Empire : \A r \in ToSet(R[f]) :
    r.type # "nap" /\ r.tick + Notice > t => r \in ToSet(S[f])

\* f has a pact with g whose timer runs beyond tick t.
Runs(r, g, t) == PactWith(r, g) /\ (r.state = 3 \/ (r.state = 4 /\ ~Over(r, t)))

TimersStay(R, S, t) ==
  \A f, g \in Empire : (\E r \in ToSet(R[f]) : Runs(r, g, t))
                        => \E r \in ToSet(S[f]) : Runs(r, g, t)

LEMMA TimerStarts ==
  ASSUME NEW x, NEW t \in Nat, NEW len \in Nat, len > 0, TicksPerHour > 0,
         x.tick = t, x.len = len
  PROVE  ~Over(x, t)
<1>1. TicksPerHour \in Nat
  BY RelationsConstants
<1>2. len * TicksPerHour > 0
  BY <1>1
<1>3. len * TicksPerHour \in Nat
  BY <1>1
<1> HIDE DEF Over
<1>4. ~(t + len * TicksPerHour <= t)
  <2> DEFINE p == len * TicksPerHour
  <2>1. p \in Nat /\ p > 0
    BY <1>2, <1>3
  <2> HIDE DEF p
  <2>2. ~(t + p <= t)
    BY <2>1
  <2> QED BY <2>2 DEF p
<1> QED BY <1>4 DEF Over

(* The change of a pact's two records lets the timers run.                 *)
LEMMA ChangesRun ==
  ASSUME NEW R, Sound(R), NEW S, NEW t \in Nat,
         NEW f \in Empire, NEW g \in Empire, f # g, NEW i \in DOMAIN R[f], NEW j \in DOMAIN R[g],
         R[f][i].empire = g, Mirrors(R[g][j], f, R[f][i]),
         NEW x \in Relation, NEW y \in Relation, Changes(R, S, f, i, g, j, x, y, t)
  PROVE  Noticed(R, S, t) /\ (TicksPerHour > 0 => TimersStay(R, S, t))
<1> DEFINE r == R[f][i]  o == R[g][j]
<1>1. /\ r.type = "nap" /\ o.type = "nap" /\ Kin(x, r) /\ Kin(y, o)
      /\ TimerKept(r, x, t) /\ TimerKept(o, y, t)
  BY DEF Changes, Mirrors
<1>2. /\ ToSet(S[f]) = (ToSet(R[f]) \ {r}) \cup {x}
      /\ ToSet(S[g]) = (ToSet(R[g]) \ {o}) \cup {y}
      /\ \A h \in Empire \ {f, g} : S[h] = R[h]
  <2>1. Replaced(R, S, f, r, x, g, o, y)
    BY MarkedKeeps DEF Changes
  <2> QED BY <2>1 DEF Replaced
<1>3. ASSUME NEW h \in Empire, NEW z \in ToSet(R[h]), z.type = "nap"
      PROVE  z.len \in Nat /\ (z.state = 3 => z.len > 0)
  <2>1. z \in Relation
    BY Entries DEF Sound
  <2>2. \E w : Agree(z.state, w, z.len)
    BY <1>3 DEF Sound, Answered, Answers
  <2> QED BY <2>1, <2>2 DEF Relation, Agree
<1>4. ASSUME NEW h \in Empire, NEW z \in ToSet(R[h]), NEW v, NEW k \in Empire, TicksPerHour > 0,
             Runs(z, k, t), Kin(v, z), TimerKept(z, v, t)
      PROVE  Runs(v, k, t)
  <2>1. z.type = "nap" /\ PactWith(v, k)
    BY <1>4 DEF Runs, PactWith, Kin
  <2>2. CASE z.state = 3
    <3>1. v.state = 4 /\ v.tick = t /\ v.len = z.len /\ z.len \in Nat /\ z.len > 0
      BY <1>3, <1>4, <2>1, <2>2 DEF TimerKept
    <3>2. ~Over(v, t)
      BY <1>4, <3>1, TimerStarts
    <3> QED BY <2>1, <3>1, <3>2 DEF Runs
  <2>3. CASE z.state = 4
    BY <1>4, <2>3 DEF TimerKept
  <2> QED BY <1>4, <2>2, <2>3 DEF Runs
<1>5. r \in ToSet(R[f]) /\ o \in ToSet(R[g])
  BY DEF ToSet
<1>6. TicksPerHour > 0 => TimersStay(R, S, t)
  <2> SUFFICES ASSUME TicksPerHour > 0, NEW h \in Empire, NEW k \in Empire, NEW z \in ToSet(R[h]),
                      Runs(z, k, t)
               PROVE  \E v \in ToSet(S[h]) : Runs(v, k, t)
    BY DEF TimersStay
  <2>1. CASE h = f /\ z = r
    <3>1. Runs(x, k, t)
      BY <1>1, <1>4, <2>1
    <3> QED BY <1>2, <2>1, <3>1
  <2>2. CASE h = g /\ z = o
    <3>1. Runs(y, k, t)
      BY <1>1, <1>4, <2>2
    <3> QED BY <1>2, <2>2, <3>1
  <2>3. CASE ~(h = f /\ z = r) /\ ~(h = g /\ z = o)
    BY <1>2, <2>3
  <2> QED BY <2>1, <2>2, <2>3
<1>7. Noticed(R, S, t)
  <2> SUFFICES ASSUME NEW h \in Empire, NEW z \in ToSet(R[h]), z.type # "nap"
               PROVE  z \in ToSet(S[h])
    BY DEF Noticed
  <2> QED BY <1>1, <1>2
<1> QED BY <1>6, <1>7

LEMMA DeletedRuns ==
  ASSUME Unmixed, NEW R, Sound(R), NEW f \in Empire, NEW i, NEW t \in 0 .. MaxTick,
         NEW S, S = Deleted(R, f, i, t)
  PROVE  Noticed(R, S, t) /\ (TicksPerHour > 0 => TimersStay(R, S, t))
<1>1. CASE S = R
  BY <1>1 DEF Noticed, TimersStay
<1>2. CASE S # R
  <2>1. PICK g \in Empire, j \in Nat :
              /\ f # g /\ R[f][i].empire = g
              /\ j \in DOMAIN R[g] /\ R[g][j] \in Relation /\ Mirrors(R[g][j], f, R[f][i])
              /\ \/ Goes(R, S, f, i, g, j, t)
                 \/ \E x, y \in Relation : Changes(R, S, f, i, g, j, x, y, t)
    BY <1>2, DeletedCases
  <2>2. i \in DOMAIN R[f] /\ R[f][i] \in Relation
    BY <1>2, DeletedCases
  <2>3. CASE Goes(R, S, f, i, g, j, t)
    <3>1. /\ ToSet(S[f]) = ToSet(R[f]) \ {R[f][i]} /\ ToSet(S[g]) = ToSet(R[g]) \ {R[g][j]}
          /\ \A h \in Empire \ {f, g} : S[h] = R[h]
      <4>1. Dropped(R, S, f, R[f][i], g, R[g][j])
        BY <2>1, <2>2, <2>3, RemovedKeeps DEF Goes
      <4> QED BY <4>1 DEF Dropped
    <3>2. ASSUME NEW z \in Relation, MayGo(z, t)
          PROVE  ~(z.type # "nap" /\ z.tick + Notice > t) /\ \A k : ~Runs(z, k, t)
      <4>1. z.tick \in Nat /\ Notice \in Nat /\ t \in Nat
        BY RelationsConstants DEF Relation
      <4> QED BY <3>2, <4>1 DEF MayGo, Runs, PactWith
    <3>3. /\ ~(R[f][i].type # "nap" /\ R[f][i].tick + Notice > t) /\ \A k : ~Runs(R[f][i], k, t)
          /\ ~(R[g][j].type # "nap" /\ R[g][j].tick + Notice > t) /\ \A k : ~Runs(R[g][j], k, t)
      BY <2>1, <2>2, <2>3, <3>2 DEF Goes
    <3> QED BY <3>1, <3>3 DEF Noticed, TimersStay
  <2>4. CASE \E x, y \in Relation : Changes(R, S, f, i, g, j, x, y, t)
    <3>1. PICK x, y \in Relation : Changes(R, S, f, i, g, j, x, y, t)
      BY <2>4
    <3>2. t \in Nat
      BY RelationsConstants
    <3> QED BY <2>1, <2>2, <3>1, <3>2, ChangesRun
  <2> QED BY <2>1, <2>3, <2>4
<1> QED BY <1>1, <1>2

\* Nothing that must stay goes between R and S.
Respects(R, S, t) == Noticed(R, S, t) /\ (TicksPerHour > 0 => TimersStay(R, S, t))

LEMMA RankingsRespect ==
  ASSUME Unmixed, NEW R, Sound(R), NEW t \in 0 .. MaxTick
  PROVE  Respects(R, Rankings(R, t), t)
<1> DEFINE V == {Q \in SoundFiles : Respects(R, Q, t)}
<1>1. R \in V /\ V \in SUBSET Files
  BY DEF SoundFiles, Sound, Respects, Noticed, TimersStay
<1>2. ASSUME NEW Q \in V, NEW f \in Empire, NEW i \in Nat
      PROVE  Deleted(Q, f, i, t) \in V
  <2> DEFINE D == Deleted(Q, f, i, t)
  <2>1. Sound(Q) /\ Respects(R, Q, t)
    BY DEF SoundFiles
  <2>2. Sound(D) /\ D \in SoundFiles
    <3>1. Sound(D)
      BY <2>1, DeletedKeeps
    <3> QED BY <3>1 DEF SoundFiles, Sound
  <2>3. Respects(Q, D, t)
    BY <2>1, DeletedRuns DEF Respects
  <2>4. Respects(R, D, t)
    <3> HIDE DEF D
    <3>1. Noticed(R, D, t)
      BY <2>1, <2>3 DEF Respects, Noticed
    <3>2. TicksPerHour > 0 => TimersStay(R, D, t)
      BY <2>1, <2>3 DEF Respects, TimersStay
    <3> QED BY <3>1, <3>2 DEF Respects
  <2> QED BY <2>2, <2>4
<1>3. Rankings(R, t) \in V
  <2> HIDE DEF V
  <2> QED BY <1>1, <1>2, RankingsStay
<1> QED BY <1>3

LEMMA StepsRespect ==
  ASSUME Unmixed, RelsInv, [Next]_vars
  PROVE  Respects(rels, rels', now')
<1>1. CASE rels' = rels
  BY <1>1 DEF Respects, Noticed, TimersStay
<1>2. CASE Grown(rels, rels', now) /\ Sound(rels')
  <2>1. \A f \in Empire : \A r \in ToSet(rels[f]) : r \in ToSet(rels'[f])
    BY <1>2 DEF Grown, ToSet
  <2> QED BY <2>1 DEF Respects, Noticed, TimersStay
<1>3. ASSUME NEW f \in Empire, NEW g \in Empire, "ally" \in Types, OfferAlliance(f, g)
      PROVE  Respects(rels, rels', now')
  BY <1>2, <1>3, AllianceKeeps DEF RelsInv
<1>4. ASSUME NEW f \in Empire, NEW g \in Empire, "war" \in Types, DeclareWar(f, g)
      PROVE  Respects(rels, rels', now')
  BY <1>2, <1>4, WarKeeps DEF RelsInv
<1>5. ASSUME NEW f \in Empire, NEW g \in Empire, NEW len \in Lengths, "nap" \in Types,
             OfferPact(f, g, len)
      PROVE  Respects(rels, rels', now')
  <2>1. len \in Nat /\ now \in Nat
    BY RelationsConstants DEF RelsInv
  <2>0. now' = now
    BY <1>5 DEF OfferPact, Enter
  <2>2. Sound(rels') /\ (Grown(rels, rels', now) \/ Accepts(rels, rels', now))
    BY <1>5, <2>1, PactKeeps DEF RelsInv
  <2>3. CASE Accepts(rels, rels', now)
    BY <2>0, <2>1, <2>3, ChangesRun DEF Accepts, Respects, RelsInv
  <2> QED BY <1>2, <2>2, <2>3
<1>6. ASSUME NEW f \in Empire, NEW i \in 1 .. MaxRels, CancelRelation(f, i)
      PROVE  Respects(rels, rels', now')
  BY <1>6, DeletedRuns DEF RelsInv, CancelRelation, Respects
<1>7. CASE TickEnd
  <2>1. now' \in 0 .. MaxTick
    BY <1>7, RelationsConstants DEF TickEnd, RelsInv
  <2> QED BY <1>1, <1>7, <2>1, RankingsRespect DEF TickEnd, RelsInv
<1> QED BY <1>1, <1>3, <1>4, <1>5, <1>6, <1>7 DEF Next, vars

(* No war and no alliance ends before its notice: not through the sweep    *)
(* of cmdTickGenRanks, which cancels by number, from a copy of the list,   *)
(* records that have meanwhile moved, and not through a cancellation that  *)
(* looks its counterpart up in the other file.                             *)
THEOREM NoticesHold ==
  ASSUME Unmixed
  PROVE  Spec => NoticeKept
<1> DEFINE Held == \A f \in Empire : \A i \in DOMAIN rels[f] :
             LET r == rels[f][i]
             IN  r.type # "nap" /\ r.tick + Notice > now' => r \in ToSet(rels[f]')
<1>1. ASSUME RelsInv, [Next]_vars PROVE Held
  <2>1. Noticed(rels, rels', now')
    BY <1>1, StepsRespect DEF Respects
  <2> QED BY <2>1 DEF Noticed, ToSet
<1> HIDE DEF Held
<1>2. RelsInv /\ [Next]_vars => [Held]_vars
  BY <1>1
<1>3. Spec => [][Held]_vars
  BY <1>2, AlwaysSound, PTL DEF Spec
<1> QED BY <1>3 DEF Held, NoticeKept

(* A timed pact that is cancelled holds until its timer has run out,       *)
(* whichever of the two cancels it, and how often (the table of            *)
(* cmdExecDelRelation and its stamp).                                      *)
THEOREM TimedPactsRunOut ==
  ASSUME Unmixed, TicksPerHour > 0
  PROVE  Spec => TimedPactRunsOut
<1> DEFINE Held == \A f, g \in Empire :
             (\E r \in Pacts(f, g) : r.state = 3 \/ (r.state = 4 /\ ~Over(r, now')))
               => \E r \in Pacts(f, g)' : r.state \in {3, 4}
<1>1. ASSUME RelsInv, [Next]_vars PROVE Held
  <2>1. TimersStay(rels, rels', now')
    BY <1>1, StepsRespect DEF Respects
  <2> QED BY <2>1 DEF TimersStay, Runs, PactWith, Pacts
<1> HIDE DEF Held
<1>2. RelsInv /\ [Next]_vars => [Held]_vars
  BY <1>1
<1>3. Spec => [][Held]_vars
  BY <1>2, AlwaysSound, PTL DEF Spec
<1> QED BY <1>3 DEF Held, TimedPactRunsOut

----------------------------------------------------------------------------
(* Wars that are over.                                                     *)

\* A war that was declared long enough ago, on file with who declared it.
DueWar(r, t) == r.type = "war" /\ ~r.incoming /\ r.tick + EndWars <= t

\* Every such war that is left in f's file was further back in it before.
Slipped(R, S, f, t) ==
  \A j \in DOMAIN S[f] :
    DueWar(S[f][j], t) => \E i \in DOMAIN R[f] : i > j /\ R[f][i] = S[f][j]

LEMMA LaterSelf == ASSUME NEW R \in Files PROVE Later(R, R)
<1> SUFFICES ASSUME NEW f \in Empire, NEW j \in DOMAIN R[f]
             PROVE  \E i \in DOMAIN R[f] : i >= j /\ R[f][i] = R[f][j]
  BY DEF Later
<1>1. DOMAIN R[f] = 1 .. Len(R[f]) /\ Len(R[f]) \in Nat
  BY Entries
<1>2. j >= j
  BY <1>1
<1> QED BY <1>2

LEMMA LaterFollows ==
  ASSUME NEW R \in Files, NEW Q \in Files, NEW S \in Files, Later(R, Q), Later(Q, S)
  PROVE  Later(R, S)
<1> SUFFICES ASSUME NEW f \in Empire, NEW j \in DOMAIN S[f]
             PROVE  \E i \in DOMAIN R[f] : i >= j /\ R[f][i] = S[f][j]
  BY DEF Later
<1>1. PICK k \in DOMAIN Q[f] : k >= j /\ Q[f][k] = S[f][j]
  BY DEF Later
<1>2. PICK i \in DOMAIN R[f] : i >= k /\ R[f][i] = Q[f][k]
  BY DEF Later
<1>3. i \in Nat /\ k \in Nat /\ j \in Nat
  BY Entries
<1>4. i >= j
  BY <1>1, <1>2, <1>3
<1> QED BY <1>1, <1>2, <1>4

LEMMA SlippedFollows ==
  ASSUME NEW R \in Files, NEW Q \in Files, NEW S \in Files, NEW f \in Empire, NEW t,
         \/ Slipped(R, Q, f, t) /\ Later(Q, S)
         \/ Later(R, Q) /\ Slipped(Q, S, f, t)
  PROVE  Slipped(R, S, f, t)
<1> SUFFICES ASSUME NEW j \in DOMAIN S[f], DueWar(S[f][j], t)
             PROVE  \E i \in DOMAIN R[f] : i > j /\ R[f][i] = S[f][j]
  BY DEF Slipped
<1>1. CASE Slipped(R, Q, f, t) /\ Later(Q, S)
  <2>1. PICK k \in DOMAIN Q[f] : k >= j /\ Q[f][k] = S[f][j]
    BY <1>1 DEF Later
  <2>2. PICK i \in DOMAIN R[f] : i > k /\ R[f][i] = Q[f][k]
    BY <1>1, <2>1 DEF Slipped
  <2>3. i \in Nat /\ k \in Nat /\ j \in Nat
    BY Entries
  <2>4. i > j
    BY <2>1, <2>2, <2>3
  <2> QED BY <2>1, <2>2, <2>4
<1>2. CASE Later(R, Q) /\ Slipped(Q, S, f, t)
  <2>1. PICK k \in DOMAIN Q[f] : k > j /\ Q[f][k] = S[f][j]
    BY <1>2 DEF Slipped
  <2>2. PICK i \in DOMAIN R[f] : i >= k /\ R[f][i] = Q[f][k]
    BY <1>2 DEF Later
  <2>3. i \in Nat /\ k \in Nat /\ j \in Nat
    BY Entries
  <2>4. i > j
    BY <2>1, <2>2, <2>3
  <2> QED BY <2>1, <2>2, <2>4
<1> QED BY <1>1, <1>2

(* Where there are no pacts, cancellations only move records forward.      *)
LEMMA DeletedLater ==
  ASSUME "nap" \notin Types, NEW R, Sound(R), NEW f \in Empire, NEW i, NEW t \in 0 .. MaxTick
  PROVE  Sound(Deleted(R, f, i, t)) /\ Later(R, Deleted(R, f, i, t))
<1> DEFINE S == Deleted(R, f, i, t)
<1>1. Unmixed /\ R \in Files
  BY DEF Unmixed, Sound
<1>2. Sound(S)
  BY <1>1, DeletedKeeps
<1>3. CASE S = R
  BY <1>1, <1>2, <1>3, LaterSelf
<1>4. CASE S # R
  <2>1. PICK g \in Empire, j \in Nat :
              /\ f # g /\ R[f][i].empire = g
              /\ j \in DOMAIN R[g] /\ R[g][j] \in Relation /\ Mirrors(R[g][j], f, R[f][i])
              /\ \/ Goes(R, S, f, i, g, j, t)
                 \/ \E x, y \in Relation : Changes(R, S, f, i, g, j, x, y, t)
    BY <1>1, <1>4, DeletedCases
  <2>2. i \in DOMAIN R[f] /\ R[f][i] \in ToSet(R[f])
    <3>1. i \in DOMAIN R[f]
      BY <1>1, <1>4, DeletedCases
    <3> QED BY <3>1 DEF ToSet
  <2>3. R[f][i].type # "nap"
    BY <2>2 DEF Sound, Answered
  <2>4. Goes(R, S, f, i, g, j, t)
    BY <2>1, <2>3 DEF Changes
  <2>5. Later(R, S)
    BY <2>1, <2>2, <2>4, RemovedKeeps DEF Goes
  <2> QED BY <1>2, <2>5
<1> QED BY <1>3, <1>4

(* A war that is over goes, when its number is still that of the record.   *)
LEMMA DueGoes ==
  ASSUME "nap" \notin Types, EndWars >= Notice, NEW R, Sound(R),
         NEW f \in Empire, NEW i \in DOMAIN R[f], NEW t \in 0 .. MaxTick, DueWar(R[f][i], t)
  PROVE  R[f][i] \notin ToSet(Deleted(R, f, i, t)[f])
<1> DEFINE r == R[f][i]  j == Counterpart(R, f, r)  S == Deleted(R, f, i, t)
<1>1. Unmixed /\ r \in Relation
  <2>1. r \in ToSet(R[f])
    BY DEF ToSet
  <2> QED BY <2>1, Entries DEF Unmixed, Sound
<1>2. r.type # "nap" /\ ~r.incoming /\ MayEnd(r, t)
  <2>1. r.tick \in Nat /\ EndWars \in Nat /\ Notice \in Nat /\ t \in Nat
    BY <1>1, RelationsConstants DEF Relation
  <2>2. r.tick + EndWars <= t /\ ~r.incoming /\ r.type = "war"
    BY DEF DueWar
  <2> HIDE DEF r
  <2>3. r.tick + Notice <= t
    BY <2>1, <2>2
  <2> QED BY <2>2, <2>3 DEF MayEnd
<1>3. /\ r.empire \in Empire /\ r.empire # f /\ j \in DOMAIN R[r.empire]
      /\ Answers(R[r.empire][j], f, r)
  <2> HIDE DEF j
  <2>1. j = Counterpart(R, f, R[f][i])
    BY DEF j
  <2>2. R[f][i].type # "nap" => ~R[f][i].incoming
    BY <1>2
  <2> QED BY <1>1, <2>1, <2>2, CounterpartFound
<1>4. S = Removed(R, f, i, r.empire, j)
  BY <1>2 DEF Deleted
<1> HIDE DEF S, j
<1>5. Dropped(R, S, f, r, r.empire, R[r.empire][j])
  <2>1. Mirrors(R[r.empire][j], f, r)
    BY <1>3 DEF Answers
  <2> QED BY <1>3, <1>4, <2>1, RemovedKeeps
<1>6. r \notin ToSet(S[f])
  BY <1>5 DEF Dropped
<1> QED BY <1>6 DEF S

(* The walk over the list of an empire that is looked at: each war that is *)
(* over is cancelled, or moves forward in the file.                        *)
LEMMA EndedSlips ==
  ASSUME "nap" \notin Types, EndWars >= Notice, NEW R \in SoundFiles,
         NEW f \in Empire, NEW t \in 0 .. MaxTick
  PROVE  /\ Ended(R, f, t) \in SoundFiles
         /\ Later(R, Ended(R, f, t)) /\ Slipped(R, Ended(R, f, t), f, t)
<1> DEFINE n == Len(R[f])
<1>1. /\ SoundFiles \in SUBSET Files /\ R \in Files
      /\ \A Q \in SoundFiles : Q \in Files /\ Sound(Q)
      /\ n \in Nat /\ DOMAIN R[f] = 1 .. n
  <2>1. SoundFiles \in SUBSET Files /\ R \in Files /\ \A Q \in SoundFiles : Q \in Files /\ Sound(Q)
    BY DEF SoundFiles
  <2> QED BY <2>1, Entries
<1>2. \A Q \in SoundFiles, i \in Nat : Deleted(Q, f, i, t) \in SoundFiles /\ Later(Q, Deleted(Q, f, i, t))
  <2> TAKE Q \in SoundFiles, i \in Nat
  <2>1. Sound(Deleted(Q, f, i, t)) /\ Later(Q, Deleted(Q, f, i, t))
    BY <1>1, DeletedLater
  <2> QED BY <2>1 DEF SoundFiles, Sound
<1>3. PICK w \in [0 .. n -> SoundFiles] : EndsBy(w, R, f, t)
  BY <1>1, <1>2, EndedWalk
<1>4. w[0] = R /\ Ended(R, f, t) = w[n]
  BY <1>3 DEF EndsBy
<1>5. \A k \in 1 .. n : w[k] = IF Due(R[f][k], t) THEN Deleted(w[k - 1], f, k, t) ELSE w[k - 1]
  BY <1>3 DEF EndsBy
<1> HIDE DEF n
<1> DEFINE Passed(k) == \A j \in DOMAIN w[k][f] : j <= k /\ DueWar(w[k][f][j], t) =>
                           \E i \in DOMAIN R[f] : i > j /\ R[f][i] = w[k][f][j]
           G == {k \in 0 .. n : Later(R, w[k]) /\ Passed(k)}
<1>6. 0 \in G
  <2>1. 0 \in 0 .. n /\ Later(R, w[0])
    BY <1>1, <1>4, LaterSelf
  <2>2. Passed(0)
    BY <1>1, <1>4
  <2> QED BY <2>1, <2>2
<1>7. ASSUME NEW k \in 0 .. n - 1, k \in G PROVE k + 1 \in G
  <2> DEFINE Q == w[k]  S == w[k + 1]
  <2>1. k \in Nat /\ k \in 0 .. n /\ k + 1 \in 0 .. n /\ k + 1 \in 1 .. n /\ k + 1 \in Nat /\ (k + 1) - 1 = k
    BY <1>1
  <2>2. Q \in SoundFiles /\ S \in SoundFiles /\ Q \in Files /\ S \in Files /\ Sound(Q)
    BY <1>1, <2>1
  <2>3. Later(R, Q) /\ Passed(k)
    BY <1>7
  <2>4. S = IF Due(R[f][k + 1], t) THEN Deleted(Q, f, k + 1, t) ELSE Q
    BY <1>5, <2>1
  <2>5. Later(Q, S)
    BY <1>2, <2>1, <2>2, <2>4, LaterSelf
  <2>6. Later(R, S)
    BY <1>1, <2>2, <2>3, <2>5, LaterFollows
  <2>7. Passed(k + 1)
    <3> SUFFICES ASSUME NEW j \in DOMAIN S[f], j <= k + 1, DueWar(S[f][j], t)
                 PROVE  \E i \in DOMAIN R[f] : i > j /\ R[f][i] = S[f][j]
      OBVIOUS
    <3>1. PICK l \in DOMAIN Q[f] : l >= j /\ Q[f][l] = S[f][j]
      BY <2>5 DEF Later
    <3>2. PICK i \in DOMAIN R[f] : i >= l /\ R[f][i] = Q[f][l]
      BY <2>3 DEF Later
    <3>3. i \in Nat /\ j \in Nat /\ l \in Nat
      BY <1>1, <2>2, Entries
    <3>4. CASE l <= k
      <4>1. DueWar(Q[f][l], t)
        BY <3>1
      <4>2. PICK m \in DOMAIN R[f] : m > l /\ R[f][m] = Q[f][l]
        BY <2>3, <3>4, <4>1
      <4>3. m \in Nat
        BY <1>1
      <4>4. m > j
        BY <3>1, <3>3, <4>2, <4>3
      <4> QED BY <3>1, <4>2, <4>4
    <3>5. CASE i > j
      BY <3>1, <3>2, <3>5
    <3>6. CASE ~(l <= k) /\ ~(i > j)
      <4>1. i = k + 1 /\ l = k + 1 /\ j = k + 1
        BY <2>1, <3>1, <3>2, <3>3, <3>6
      <4>2. DueWar(R[f][k + 1], t) /\ Q[f][k + 1] = S[f][k + 1] /\ R[f][k + 1] = Q[f][k + 1]
        BY <3>1, <3>2, <4>1
      <4>3. Due(R[f][k + 1], t)
        BY <4>2 DEF Due, DueWar
      <4>4. S = Deleted(Q, f, k + 1, t)
        BY <2>4, <4>3
      <4>5. Q[f][k + 1] \notin ToSet(S[f])
        BY <2>2, <3>1, <4>1, <4>2, <4>4, DueGoes
      <4>6. S[f][k + 1] \in ToSet(S[f])
        BY <4>1 DEF ToSet
      <4> QED BY <4>2, <4>5, <4>6
    <3> QED BY <3>4, <3>5, <3>6
  <2> QED BY <2>1, <2>6, <2>7
<1> HIDE DEF G
<1>8. n \in G
  <2>1. 0 .. n \subseteq G
    BY <1>1, <1>6, <1>7, CountUp
  <2> QED BY <1>1, <2>1
<1>9. Later(R, w[n]) /\ Passed(n) /\ w[n] \in SoundFiles /\ w[n] \in Files
  BY <1>1, <1>8 DEF G
<1>10. Slipped(R, w[n], f, t)
  <2> SUFFICES ASSUME NEW j \in DOMAIN w[n][f], DueWar(w[n][f][j], t)
               PROVE  \E i \in DOMAIN R[f] : i > j /\ R[f][i] = w[n][f][j]
    BY DEF Slipped
  <2>1. PICK i \in DOMAIN R[f] : i >= j
    BY <1>9 DEF Later
  <2>2. j \in Nat
    BY <1>9, Entries
  <2>3. j <= n
    BY <1>1, <2>1, <2>2
  <2> QED BY <1>9, <2>3
<1> QED BY <1>4, <1>9, <1>10

(* The rankings: the same for every empire they look at.                   *)
LEMMA RankingsSlip ==
  ASSUME "nap" \notin Types, EndWars >= Notice, NEW R \in SoundFiles, NEW t \in 0 .. MaxTick
  PROVE  /\ Rankings(R, t) \in SoundFiles /\ Later(R, Rankings(R, t))
         /\ \A f \in Ranked : Slipped(R, Rankings(R, t), f, t)
<1>1. SoundFiles \in SUBSET Files /\ N \in Nat /\ Ranked \subseteq Empire
  BY RelationsConstants DEF SoundFiles, Empire
<1>2. \A Q \in SoundFiles, f \in Empire : Ended(Q, f, t) \in SoundFiles
  BY EndedSlips
<1>3. PICK w \in [0 .. N -> SoundFiles] : RanksBy(w, R, t)
  BY <1>1, <1>2, RankingsWalk
<1>4. w[0] = R /\ Rankings(R, t) = w[N]
  BY <1>3 DEF RanksBy
<1>5. \A k \in 1 .. N : w[k] = IF k - 1 \in Ranked THEN Ended(w[k - 1], k - 1, t) ELSE w[k - 1]
  BY <1>3 DEF RanksBy
<1> DEFINE G == {k \in 0 .. N : /\ Later(R, w[k])
                               /\ \A f \in Ranked : f < k => Slipped(R, w[k], f, t)}
<1>6. 0 \in G
  <2>1. \A f \in Ranked : ~(f < 0)
    BY <1>1 DEF Empire
  <2>2. Later(R, w[0])
    BY <1>1, <1>4, LaterSelf
  <2> QED BY <1>1, <2>1, <2>2
<1>7. ASSUME NEW k \in 0 .. N - 1, k \in G PROVE k + 1 \in G
  <2> DEFINE Q == w[k]  S == w[k + 1]
  <2>1. k \in Nat /\ k \in 0 .. N /\ k + 1 \in 0 .. N /\ k + 1 \in 1 .. N /\ (k + 1) - 1 = k /\ k \in Empire
    BY <1>1 DEF Empire
  <2>2. Q \in SoundFiles /\ S \in SoundFiles /\ Q \in Files /\ S \in Files /\ R \in Files
    BY <1>1, <2>1
  <2>3. Later(R, Q) /\ \A f \in Ranked : f < k => Slipped(R, Q, f, t)
    BY <1>7
  <2>4. S = IF k \in Ranked THEN Ended(Q, k, t) ELSE Q
    BY <1>5, <2>1
  <2> HIDE DEF Q, S
  <2>5. Later(Q, S) /\ (k \in Ranked => Slipped(Q, S, k, t))
    BY <2>1, <2>2, <2>4, LaterSelf, EndedSlips
  <2>6. Later(R, S)
    BY <2>2, <2>3, <2>5, LaterFollows
  <2>7. ASSUME NEW f \in Ranked, f < k + 1 PROVE Slipped(R, S, f, t)
    <3>1. f \in Empire /\ (f < k \/ f = k)
      BY <1>1, <2>1, <2>7 DEF Empire
    <3> QED BY <2>2, <2>3, <2>5, <3>1, SlippedFollows
  <2> QED BY <2>1, <2>6, <2>7 DEF S
<1> HIDE DEF G
<1>8. N \in G
  <2>1. 0 .. N \subseteq G
    BY <1>1, <1>6, <1>7, CountUp
  <2> QED BY <1>1, <2>1
<1>9. /\ Later(R, w[N]) /\ w[N] \in SoundFiles
      /\ \A f \in Ranked : f < N => Slipped(R, w[N], f, t)
  BY <1>1, <1>8 DEF G
<1>10. \A f \in Ranked : f < N
  BY <1>1 DEF Empire
<1> QED BY <1>4, <1>9, <1>10

\* How far back in its file a war may be that has been over for some ticks.
Slipping(R, t) ==
  \A f \in Ranked : \A i \in DOMAIN R[f] :
    DueWar(R[f][i], t) => i + (t - (R[f][i].tick + EndWars)) < MaxRels

LEMMA SlippingKept ==
  ASSUME "nap" \notin Types, EndWars >= Notice, EndWars > 0,
         RelsInv, Slipping(rels, now), [Next]_vars
  PROVE  Slipping(rels', now')
<1>1. /\ RelsInv' /\ Unmixed /\ Ranked \subseteq Empire /\ now \in Nat /\ now' \in Nat
      /\ rels \in Files /\ rels' \in Files /\ EndWars \in Nat /\ MaxRels \in Nat
  BY SoundKept, RelationsConstants DEF Unmixed, RelsInv, Sound, Empire
<1>2. CASE UNCHANGED vars
  BY <1>2 DEF vars, Slipping
<1>3. CASE Grown(rels, rels', now) /\ now' = now
  <2> SUFFICES ASSUME NEW f \in Ranked, NEW i \in DOMAIN rels'[f], DueWar(rels'[f][i], now)
               PROVE  i + (now - (rels'[f][i].tick + EndWars)) < MaxRels
    BY <1>3 DEF Slipping
  <2>1. rels'[f][i].tick # now
    <3>1. ~(now + EndWars <= now)
      BY <1>1
    <3> QED BY <3>1 DEF DueWar
  <2>2. i \in DOMAIN rels[f] /\ rels'[f][i] = rels[f][i]
    BY <1>1, <1>3, <2>1 DEF Grown
  <2> QED BY <2>2 DEF Slipping
<1>4. ASSUME NEW f \in Empire, NEW g \in Empire, "ally" \in Types, OfferAlliance(f, g)
      PROVE  Slipping(rels', now')
  BY <1>3, <1>4, AllianceKeeps DEF RelsInv, OfferAlliance, Enter
<1>5. ASSUME NEW f \in Empire, NEW g \in Empire, "war" \in Types, DeclareWar(f, g)
      PROVE  Slipping(rels', now')
  BY <1>3, <1>5, WarKeeps DEF RelsInv, DeclareWar, Enter
<1>6. ASSUME NEW f \in Empire, NEW i \in 1 .. MaxRels, CancelRelation(f, i)
      PROVE  Slipping(rels', now')
  <2>1. Later(rels, rels') /\ now' = now
    BY <1>6, DeletedLater DEF RelsInv, CancelRelation
  <2> SUFFICES ASSUME NEW h \in Ranked, NEW j \in DOMAIN rels'[h], DueWar(rels'[h][j], now)
               PROVE  j + (now - (rels'[h][j].tick + EndWars)) < MaxRels
    BY <2>1 DEF Slipping
  <2>2. PICK k \in DOMAIN rels[h] : k >= j /\ rels[h][k] = rels'[h][j]
    BY <1>1, <2>1 DEF Later
  <2>3. k + (now - (rels[h][k].tick + EndWars)) < MaxRels
    BY <2>2 DEF Slipping
  <2>4. j \in Nat /\ k \in Nat /\ rels'[h][j] \in Relation
    BY <1>1, <2>2, Entries
  <2>5. rels'[h][j].tick \in Nat
    BY <2>4 DEF Relation
  <2> QED BY <1>1, <2>2, <2>3, <2>4, <2>5
<1>7. CASE TickEnd
  <2>1. now' \in {now, now + 1} /\ rels' = Rankings(rels, now') /\ now' \in 0 .. MaxTick
    BY <1>1, <1>7 DEF TickEnd, RelsInv
  <2>2. rels \in SoundFiles
    BY <1>1 DEF SoundFiles, RelsInv
  <2>3. \A f \in Ranked : Slipped(rels, rels', f, now')
    BY <2>1, <2>2, RankingsSlip
  <2> SUFFICES ASSUME NEW h \in Ranked, NEW j \in DOMAIN rels'[h], DueWar(rels'[h][j], now')
               PROVE  j + (now' - (rels'[h][j].tick + EndWars)) < MaxRels
    BY DEF Slipping
  <2>4. PICK k \in DOMAIN rels[h] : k > j /\ rels[h][k] = rels'[h][j]
    BY <2>3 DEF Slipped
  <2>5. /\ j \in Nat /\ k \in Nat /\ k <= Len(rels[h]) /\ Len(rels[h]) \in Nat
        /\ rels'[h][j] \in Relation
    BY <1>1, <2>4, Entries
  <2>6. rels'[h][j].tick \in Nat /\ Len(rels[h]) <= MaxRels
    BY <1>1, <2>5 DEF Relation, RelsInv, Sound
  <2>7. rels'[h][j].tick + EndWars <= now'
    BY DEF DueWar
  <2>8. CASE rels'[h][j].tick + EndWars <= now
    <3>1. DueWar(rels[h][k], now)
      BY <2>4, <2>8 DEF DueWar
    <3>2. k + (now - (rels[h][k].tick + EndWars)) < MaxRels
      BY <3>1 DEF Slipping
    <3> QED BY <1>1, <2>1, <2>4, <2>5, <2>6, <3>2, SMTT(20)
  <2>9. CASE ~(rels'[h][j].tick + EndWars <= now)
    <3>1. rels'[h][j].tick + EndWars = now'
      BY <1>1, <2>1, <2>6, <2>7, <2>9
    <3> QED BY <1>1, <2>4, <2>5, <2>6, <3>1
  <2> QED BY <2>8, <2>9
<1> QED BY <1>2, <1>4, <1>5, <1>6, <1>7 DEF Next

(* A war that has lasted ends, although the sweep of cmdTickGenRanks       *)
(* cancels by number, from a copy of the list, records that have moved: it *)
(* is missed only by moving forward, hence fewer times than the file is    *)
(* long, and the other empires' sweeps and cancellations do not move it    *)
(* back.                                                                   *)
THEOREM WarsEnd ==
  ASSUME Unmixed
  PROVE  Spec => []NoEndlessWar
<1> DEFINE WarsStop == EndWars > 0 /\ EndWars >= Notice
           Inv == RelsInv /\ ("nap" \notin Types /\ WarsStop => Slipping(rels, now))
<1>1. Init => Inv
  <2> SUFFICES ASSUME Init PROVE Inv
    OBVIOUS
  <2>1. \A f \in Ranked : rels[f] = << >>
    BY RelationsConstants DEF Init, Empire
  <2>2. Slipping(rels, now)
    BY <2>1 DEF Slipping
  <2> QED BY <2>2, SoundStart
<1>2. Inv /\ [Next]_vars => Inv'
  <2> SUFFICES ASSUME Inv, [Next]_vars PROVE Inv'
    OBVIOUS
  <2>1. RelsInv'
    BY SoundKept
  <2>2. "nap" \notin Types /\ WarsStop => Slipping(rels', now')
    BY SlippingKept
  <2> QED BY <2>1, <2>2
<1>3. ASSUME Inv, WarsStop, NEW f \in Ranked, NEW r \in ToSet(rels[f]) PROVE ~Overdue(r)
  <2>1. f \in Empire /\ rels \in Files /\ MaxRels \in Nat /\ EndWars \in Nat /\ now \in Nat
    BY <1>3, RelationsConstants DEF Empire, RelsInv, Sound
  <2>2. r.type \in Types /\ r \in Relation
    BY <1>3, <2>1, Entries DEF RelsInv, Sound, Answered
  <2>3. CASE r.type # "war" \/ r.incoming
    BY <2>3 DEF Overdue
  <2>4. CASE r.type = "war" /\ ~r.incoming
    <3>1. Slipping(rels, now)
      BY <1>3, <2>2, <2>4 DEF Unmixed
    <3>2. PICK i \in DOMAIN rels[f] : r = rels[f][i]
      BY DEF ToSet
    <3>3. i \in Nat /\ i >= 1 /\ i <= MaxRels /\ r.tick \in Nat
      <4>1. i \in 1 .. Len(rels[f]) /\ Len(rels[f]) \in Nat
        BY <2>1, <3>2, Entries
      <4>2. Len(rels[f]) <= MaxRels
        BY <1>3, <2>1 DEF RelsInv, Sound
      <4> QED BY <2>1, <2>2, <4>1, <4>2 DEF Relation
    <3>4. CASE r.tick + EndWars <= now
      <4>1. i + (now - (r.tick + EndWars)) < MaxRels
        BY <2>4, <3>1, <3>2, <3>4 DEF Slipping, DueWar
      <4>2. ~(r.tick + EndWars + MaxRels - 1 <= now)
        BY <2>1, <3>3, <4>1
      <4> QED BY <4>2 DEF Overdue
    <3>5. CASE ~(r.tick + EndWars <= now)
      <4>1. ~(r.tick + EndWars + MaxRels - 1 <= now)
        BY <2>1, <3>3, <3>5
      <4> QED BY <4>1 DEF Overdue
    <3> QED BY <3>4, <3>5
  <2> QED BY <2>3, <2>4
<1>4. Inv => NoEndlessWar
  BY <1>3 DEF NoEndlessWar
<1> HIDE DEF Inv
<1> QED BY <1>1, <1>2, <1>4, PTL DEF Spec
=============================================================================
