----------------------------- MODULE ForumProofs -----------------------------
(***************************************************************************)
(* However many forums, threads and posts there are: the lists of threads  *)
(* can be walked both ways, no slot is lost or used twice, the chains of   *)
(* offsets lead through all posts to the end, and the six counts agree, as *)
(* long as only the last forum is ever deleted.                            *)
(*                                                                         *)
(* A file of posts is shown to spell out a list of lengths at positions    *)
(* that follow from them (Holds), a file of threads to spell out a list of *)
(* the threads and one of the free slots (Listed).  Each handler is an     *)
(* operation on these lists, and what Board promises follows from that.    *)
(***************************************************************************)
EXTENDS Forum, FiniteSetTheorems, SequenceTheorems, WellFoundedInduction, TLAPS

-----------------------------------------------------------------------------
(* Counting up. *)

LEMMA Least ==
  ASSUME NEW T \in SUBSET Nat, T # {}
  PROVE  \E x \in T : \A y \in T : x <= y
<1> DEFINE R == OpToRel(<, Nat)
<1>1. IsWellFoundedOn(R, Nat)
  BY NatLessThanWellFounded
<1>2. \A x, y \in Nat : x < y => <<x, y>> \in R
  BY DEF OpToRel
<1> HIDE DEF R
<1>3. PICK x \in T : \A y \in T : ~ (<<y, x>> \in R)
  BY <1>1, WFMin
<1>4. ASSUME NEW y \in T PROVE x <= y
  <2>1. x \in Nat /\ y \in Nat /\ ~(<<y, x>> \in R)
    BY <1>3
  <2>2. ~(y < x)
    BY <1>2, <2>1
  <2> QED BY <2>1, <2>2
<1> QED BY <1>4

\* What holds of 0 and of each number with the one before it holds up to n.
LEMMA CountUp ==
  ASSUME NEW n \in Nat, NEW S, 0 \in S, \A k \in 0 .. n - 1 : k \in S => k + 1 \in S
  PROVE  \A k \in 0 .. n : k \in S
<1> DEFINE T == {k \in 0 .. n : k \notin S}
<1>1. SUFFICES ASSUME T # {} PROVE FALSE
  OBVIOUS
<1>2. T \in SUBSET Nat
  OBVIOUS
<1>3. PICK k \in T : \A j \in T : k <= j
  BY <1>1, <1>2, Least
<1>4. k \in 0 .. n /\ k \notin S /\ k # 0
  BY <1>3
<1>5. k - 1 \in 0 .. n - 1 /\ (k - 1) + 1 = k /\ ~(k <= k - 1) /\ k - 1 \in 0 .. n
  BY <1>4
<1>6. k - 1 \in S
  BY <1>3, <1>5
<1> QED BY <1>4, <1>5, <1>6

-----------------------------------------------------------------------------
(* Files of posts.  The posts have the lengths l and start at the positions *)
(* pos.                                                                     *)

Entry    == [next: Nat, length: Nat]
Writings == UNION {[S -> Entry] : S \in SUBSET Nat}
File     == [num: Nat, end: Nat, posts: Nat, at: Writings]

\* The lengths l of n posts and the positions they lead to.
Placed(l, pos, n) ==
  /\ n \in Nat /\ l \in [1 .. n -> Post] /\ pos \in [0 .. n -> Nat]
  /\ pos[0] = 0 /\ \A k \in 1 .. n : pos[k] = pos[k - 1] + 1 + l[k]

\* The first n of them are written, and nothing else begins before the next.
Laid(at, l, pos, n) ==
  /\ \A k \in 0 .. n - 1 : pos[k] \in DOMAIN at /\ at[pos[k]] = [next |-> pos[k + 1], length |-> l[k + 1]]
  /\ \A o \in DOMAIN at : o < pos[n] => \E k \in 0 .. n - 1 : o = pos[k]

Holds(file, l, pos) ==
  /\ file \in File /\ Placed(l, pos, file.num) /\ Laid(file.at, l, pos, file.num)
  /\ file.end = pos[file.num]

LEMMA Lengths == \A p \in Post : p \in Nat /\ p > 0
BY ForumConstants

LEMMA Grows ==
  ASSUME NEW l, NEW pos, NEW n, Placed(l, pos, n)
  PROVE  \A i, k \in 0 .. n : i < k => pos[i] < pos[k]
<1> SUFFICES ASSUME NEW i \in 0 .. n, NEW k \in 0 .. n, i < k PROVE pos[i] < pos[k]
  OBVIOUS
<1> DEFINE S == {j \in 0 .. n : j > i => pos[i] < pos[j]}
<1>1. n \in Nat /\ \A j \in 0 .. n : pos[j] \in Nat
  BY DEF Placed
<1>2. 0 \in S
  BY <1>1
<1>3. ASSUME NEW j \in 0 .. n - 1, j \in S PROVE j + 1 \in S
  <2>1. j + 1 \in 1 .. n /\ j + 1 \in 0 .. n /\ j \in 0 .. n /\ (j + 1) - 1 = j
    BY <1>1
  <2>2. pos[j + 1] = pos[j] + 1 + l[j + 1] /\ l[j + 1] \in Nat
    BY <2>1, Lengths DEF Placed
  <2>3. pos[j] < pos[j + 1]
    BY <1>1, <2>1, <2>2
  <2> QED BY <1>1, <1>3, <2>1, <2>3
<1> HIDE DEF S
<1>4. k \in S
  BY <1>1, <1>2, <1>3, CountUp
<1> QED BY <1>4 DEF S

LEMMA WritingsAre ==
  ASSUME NEW at \in Writings
  PROVE  /\ DOMAIN at \in SUBSET Nat /\ at = [o \in DOMAIN at |-> at[o]]
         /\ \A o \in DOMAIN at : at[o] \in Entry
BY DEF Writings

LEMMA AreWritings ==
  ASSUME NEW S \in SUBSET Nat, NEW at \in [S -> Entry]
  PROVE  at \in Writings
BY DEF Writings

\* v is file with a post of length p at o, over whatever began inside it.
Overwritten(v, file, o, p) ==
  /\ v \in File /\ v.num = file.num /\ v.end = file.end /\ v.posts = file.posts
  /\ DOMAIN v.at = {o} \cup (DOMAIN file.at \ (o .. o + p))
  /\ v.at[o] = [next |-> o + 1 + p, length |-> p]
  /\ \A q \in DOMAIN file.at \ (o .. o + p) : v.at[q] = file.at[q]

LEMMA PutIs ==
  ASSUME NEW file \in File, NEW o \in Nat, NEW p \in Nat
  PROVE  Overwritten(Put(file, o, p), file, o, p)
<1> DEFINE e == [next |-> o + 1 + p, length |-> p]
           D == DOMAIN file.at \ (o .. o + p)
           at == Entered(Restrict(file.at, D), o, e)
           S == {o} \cup D
<1>1. file.at \in Writings
  BY DEF File
<1>2. e \in Entry
  BY DEF Entry
<1>3. D \in SUBSET Nat /\ \A q \in D : file.at[q] \in Entry
  BY <1>1, WritingsAre
<1>4. at = [q \in S |-> IF q = o THEN e ELSE file.at[q]]
  BY DEF Entered, Restrict
<1>5. at \in [S -> Entry] /\ S \in SUBSET Nat
  BY <1>2, <1>3, <1>4
<1>6. o \notin D
  OBVIOUS
<1>7. Put(file, o, p) = [file EXCEPT !.at = at]
  BY DEF Put
<1>8. DOMAIN at = S /\ at[o] = e /\ \A q \in D : at[q] = file.at[q]
  BY <1>4, <1>6
<1> HIDE DEF at, S, D, e
<1>9. at \in Writings
  BY <1>5, AreWritings
<1>10. /\ [file EXCEPT !.at = at] \in File /\ [file EXCEPT !.at = at].at = at
       /\ [file EXCEPT !.at = at].num = file.num /\ [file EXCEPT !.at = at].end = file.end
       /\ [file EXCEPT !.at = at].posts = file.posts
  BY <1>9 DEF File
<1> QED BY <1>7, <1>8, <1>10 DEF S, D, e, Overwritten

LEMMA PutKeeps ==
  ASSUME NEW file \in File, NEW o \in Nat, NEW p \in Nat
  PROVE  /\ Put(file, o, p) \in File /\ Put(file, o, p).num = file.num
         /\ Put(file, o, p).posts = file.posts
<1>1. Overwritten(Put(file, o, p), file, o, p)
  BY PutIs
<1> QED BY <1>1 DEF Overwritten

\* The next post is written behind the first n.
LEMMA PutLays ==
  ASSUME NEW file \in File, NEW l, NEW pos, NEW m, Placed(l, pos, m), NEW n \in 0 .. m - 1,
         Laid(file.at, l, pos, n)
  PROVE  Laid(Put(file, pos[n], l[n + 1]).at, l, pos, n + 1)
<1> DEFINE o == pos[n]
           p == l[n + 1]
           v == Put(file, o, p)
<1>1. m \in Nat /\ n \in 0 .. m /\ n + 1 \in 1 .. m /\ (n + 1) - 1 = n
  BY DEF Placed
<1>2. o \in Nat /\ p \in Nat /\ pos[n + 1] = o + 1 + p
  BY <1>1, Lengths DEF Placed
<1>3. /\ DOMAIN v.at = {o} \cup (DOMAIN file.at \ (o .. o + p))
      /\ v.at[o] = [next |-> o + 1 + p, length |-> p]
      /\ \A q \in DOMAIN file.at \ (o .. o + p) : v.at[q] = file.at[q]
  BY <1>2, PutIs DEF Overwritten
<1>4. DOMAIN file.at \in SUBSET Nat
  BY WritingsAre DEF File
<1>5. \A k \in 0 .. n - 1 : pos[k] \in Nat /\ pos[k] < o
  <2> TAKE k \in 0 .. n - 1
  <2>1. k \in 0 .. m /\ k < n
    BY <1>1
  <2>2. \A i, j \in 0 .. m : i < j => pos[i] < pos[j]
    BY Grows
  <2> QED BY <1>1, <2>1, <2>2 DEF Placed
<1> HIDE DEF v
<1>6. ASSUME NEW k \in 0 .. (n + 1) - 1
      PROVE  pos[k] \in DOMAIN v.at /\ v.at[pos[k]] = [next |-> pos[k + 1], length |-> l[k + 1]]
  <2>1. CASE k = n
    BY <1>2, <1>3, <2>1
  <2>2. CASE k # n
    <3>1. k \in 0 .. n - 1
      BY <2>2
    <3>2. pos[k] \in DOMAIN file.at /\ file.at[pos[k]] = [next |-> pos[k + 1], length |-> l[k + 1]]
      BY <3>1 DEF Laid
    <3>3. pos[k] \notin o .. o + p
      BY <1>2, <1>5, <3>1
    <3> QED BY <1>3, <3>2, <3>3
  <2> QED BY <2>1, <2>2
<1>7. ASSUME NEW q \in DOMAIN v.at, q < pos[n + 1]
      PROVE  \E k \in 0 .. (n + 1) - 1 : q = pos[k]
  <2>1. CASE q = o
    <3>1. n \in 0 .. (n + 1) - 1
      BY <1>1
    <3> QED BY <2>1, <3>1
  <2>2. CASE q # o
    <3>1. q \in DOMAIN file.at /\ q \notin o .. o + p /\ q \in Nat
      BY <1>3, <1>4, <2>2
    <3>2. q < o
      BY <1>2, <1>7, <3>1
    <3>3. PICK k \in 0 .. n - 1 : q = pos[k]
      BY <3>1, <3>2 DEF Laid
    <3> QED BY <3>3
  <2> QED BY <2>1, <2>2
<1> QED BY <1>6, <1>7 DEF Laid, v

LEMMA AtPlace ==
  ASSUME NEW file, NEW l, NEW pos, Holds(file, l, pos), NEW k \in 0 .. file.num - 1
  PROVE  At(file, pos[k]) = [next |-> pos[k + 1], length |-> l[k + 1]]
BY DEF Holds, Laid, At

\* Walking k posts on leads to the position of the k-th.
LEMMA OffsetIs ==
  ASSUME NEW file, NEW l, NEW pos, Holds(file, l, pos), NEW k \in 0 .. file.num
  PROVE  Offset(file, k) = pos[k]
<1> DEFINE is(s) == s = [i \in 0 .. k |-> IF i = 0 THEN 0 ELSE At(file, s[i - 1]).next]
           met == [i \in 0 .. k |-> pos[i]]
           at == CHOOSE s : is(s)
           S == {i \in 0 .. k : at[i] = pos[i]}
<1>1. file.num \in Nat /\ k \in Nat /\ pos[0] = 0
  BY DEF Holds, Placed
<1>2. \A i \in 1 .. k : /\ i - 1 \in 0 .. k /\ i - 1 \in 0 .. file.num - 1 /\ (i - 1) + 1 = i
                        /\ At(file, pos[i - 1]).next = pos[i]
  <2> TAKE i \in 1 .. k
  <2>1. i - 1 \in 0 .. k /\ i - 1 \in 0 .. file.num - 1 /\ (i - 1) + 1 = i
    BY <1>1
  <2>2. At(file, pos[i - 1]) = [next |-> pos[i], length |-> l[i]]
    BY <2>1, AtPlace
  <2> QED BY <2>1, <2>2
<1>3. is(met)
  <2>1. ASSUME NEW i \in 0 .. k, i # 0 PROVE At(file, met[i - 1]).next = pos[i]
    BY <1>2, <2>1
  <2> QED BY <1>1, <2>1
<1>4. is(at)
  <2> HIDE DEF met
  <2> QED BY <1>3
<1>5. Offset(file, k) = at[k]
  BY DEF Offset
<1> HIDE DEF at
<1>6. 0 \in S
  BY <1>1, <1>4
<1>7. ASSUME NEW i \in 0 .. k - 1, i \in S PROVE i + 1 \in S
  <2>1. i + 1 \in 1 .. k /\ (i + 1) - 1 = i /\ i + 1 # 0 /\ i + 1 \in 0 .. k
    BY <1>1
  <2>2. at[i + 1] = At(file, at[i]).next
    BY <1>4, <2>1
  <2> QED BY <1>2, <1>7, <2>1, <2>2
<1> HIDE DEF S
<1>8. k \in S
  BY <1>1, <1>6, <1>7, CountUp
<1> QED BY <1>5, <1>8 DEF S

LEMMA PostsAre ==
  ASSUME NEW file, NEW l, NEW pos, Holds(file, l, pos)
  PROVE  ListPosts(file) = l
<1>1. file.num \in Nat /\ l = [k \in 1 .. file.num |-> l[k]]
  BY DEF Holds, Placed
<1>2. ASSUME NEW k \in 1 .. file.num PROVE At(file, Offset(file, k - 1)).length = l[k]
  <2>1. k - 1 \in 0 .. file.num - 1 /\ k - 1 \in 0 .. file.num /\ (k - 1) + 1 = k
    BY <1>1
  <2>2. Offset(file, k - 1) = pos[k - 1]
    BY <2>1, OffsetIs
  <2>3. At(file, pos[k - 1]) = [next |-> pos[k], length |-> l[k]]
    BY <2>1, AtPlace
  <2> QED BY <2>2, <2>3
<1> QED BY <1>1, <1>2 DEF ListPosts

(* The loops that write, as functions of the number of turns.               *)

Moves(s, n, x) == s = [i \in 0 .. n |-> IF i = 0 THEN x ELSE Move(s[i - 1])]
Writes(s, n, x, held) == s = [i \in 0 .. n |-> IF i = 0 THEN x ELSE Write(s[i - 1], held[i])]

LEMMA MovesExist ==
  ASSUME NEW n \in Nat, NEW x
  PROVE  \E s : Moves(s, n, x)
<1> DEFINE is(m, s) == s = [i \in 0 .. m |-> IF i = 0 THEN x ELSE Move(s[i - 1])]
           S == {m \in 0 .. n : \E s : is(m, s)}
<1>1. 0 \in S
  <2> DEFINE s == [i \in 0 .. 0 |-> x]
  <2>1. is(0, s)
    OBVIOUS
  <2> HIDE DEF s
  <2> QED BY <2>1
<1>2. ASSUME NEW m \in 0 .. n - 1, m \in S PROVE m + 1 \in S
  <2>1. PICK s : is(m, s)
    BY <1>2
  <2> DEFINE g == [i \in 0 .. m + 1 |-> IF i = 0 THEN x ELSE Move(s[i - 1])]
  <2>2. \A i \in 1 .. m + 1 : i - 1 \in 0 .. m /\ i - 1 \in 0 .. m + 1 /\ i # 0
    OBVIOUS
  <2>3. \A i \in 0 .. m : g[i] = s[i]
    BY <2>1
  <2>4. is(m + 1, g)
    <3>1. ASSUME NEW i \in 0 .. m + 1, i # 0 PROVE g[i - 1] = s[i - 1]
      <4>1. i \in 1 .. m + 1
        BY <3>1
      <4> QED BY <2>2, <2>3, <4>1
    <3> HIDE DEF g
    <3>2. g = [i \in 0 .. m + 1 |-> IF i = 0 THEN x ELSE Move(s[i - 1])]
      BY DEF g
    <3> QED BY <3>1, <3>2
  <2> HIDE DEF g
  <2>5. m + 1 \in 0 .. n
    OBVIOUS
  <2> QED BY <2>4, <2>5
<1> HIDE DEF S
<1>3. n \in S
  BY <1>1, <1>2, CountUp
<1> QED BY <1>3 DEF S, Moves

LEMMA WritesExist ==
  ASSUME NEW n \in Nat, NEW x, NEW held
  PROVE  \E s : Writes(s, n, x, held)
<1> DEFINE is(m, s) == s = [i \in 0 .. m |-> IF i = 0 THEN x ELSE Write(s[i - 1], held[i])]
           S == {m \in 0 .. n : \E s : is(m, s)}
<1>1. 0 \in S
  <2> DEFINE s == [i \in 0 .. 0 |-> x]
  <2>1. is(0, s)
    OBVIOUS
  <2> HIDE DEF s
  <2> QED BY <2>1
<1>2. ASSUME NEW m \in 0 .. n - 1, m \in S PROVE m + 1 \in S
  <2>1. PICK s : is(m, s)
    BY <1>2
  <2> DEFINE g == [i \in 0 .. m + 1 |-> IF i = 0 THEN x ELSE Write(s[i - 1], held[i])]
  <2>2. \A i \in 1 .. m + 1 : i - 1 \in 0 .. m /\ i - 1 \in 0 .. m + 1 /\ i # 0
    OBVIOUS
  <2>3. \A i \in 0 .. m : g[i] = s[i]
    BY <2>1
  <2>4. is(m + 1, g)
    <3>1. ASSUME NEW i \in 0 .. m + 1, i # 0 PROVE g[i - 1] = s[i - 1]
      <4>1. i \in 1 .. m + 1
        BY <3>1
      <4> QED BY <2>2, <2>3, <4>1
    <3> HIDE DEF g
    <3>2. g = [i \in 0 .. m + 1 |-> IF i = 0 THEN x ELSE Write(s[i - 1], held[i])]
      BY DEF g
    <3> QED BY <3>1, <3>2
  <2> HIDE DEF g
  <2>5. m + 1 \in 0 .. n
    OBVIOUS
  <2> QED BY <2>4, <2>5
<1> HIDE DEF S
<1>3. n \in S
  BY <1>1, <1>2, CountUp
<1> QED BY <1>3 DEF S, Writes

\* A list without its k-th element, and with an element in front.
Less(l, n, k)  == [i \in 1 .. n - 1 |-> IF i < k THEN l[i] ELSE l[i + 1]]
InFront(t, l, n) == [i \in 1 .. n + 1 |-> IF i = 1 THEN t ELSE l[i - 1]]

LEMMA TrimmedIs ==
  ASSUME NEW file \in File, NEW l, NEW pos, NEW m, Placed(l, pos, m), NEW n \in 0 .. m,
         Laid(file.at, l, pos, n), pos[n] = file.end
  PROVE  LET v == Trimmed(file) IN
         /\ v \in File /\ v.num = file.num /\ v.end = file.end /\ v.posts = file.posts
         /\ Laid(v.at, l, pos, n)
<1> DEFINE D == {o \in DOMAIN file.at : o < file.end}
           at == [o \in D |-> file.at[o]]
<1>1. Trimmed(file) = [file EXCEPT !.at = at]
  BY DEF Trimmed, RestrictDomain, Restrict
<1>2. D \in SUBSET Nat /\ \A o \in D : file.at[o] \in Entry
  BY WritingsAre DEF File
<1>3. at \in [D -> Entry]
  BY <1>2
<1>4. at \in Writings
  <2> HIDE DEF at, D
  <2> QED BY <1>2, <1>3, AreWritings
<1>5. m \in Nat /\ \A k \in 0 .. n - 1 : k \in 0 .. m /\ n \in 0 .. m /\ k < n
  BY DEF Placed
<1>6. \A k \in 0 .. n - 1 : pos[k] < file.end
  <2>1. \A i, k \in 0 .. m : i < k => pos[i] < pos[k]
    BY Grows
  <2> QED BY <1>5, <2>1
<1>7. Laid(at, l, pos, n)
  <2>1. ASSUME NEW k \in 0 .. n - 1
        PROVE  pos[k] \in DOMAIN at /\ at[pos[k]] = [next |-> pos[k + 1], length |-> l[k + 1]]
    <3>1. pos[k] \in DOMAIN file.at /\ file.at[pos[k]] = [next |-> pos[k + 1], length |-> l[k + 1]]
      BY DEF Laid
    <3>2. pos[k] \in D
      BY <1>6, <3>1
    <3> QED BY <3>1, <3>2
  <2>2. ASSUME NEW o \in DOMAIN at, o < pos[n] PROVE \E k \in 0 .. n - 1 : o = pos[k]
    BY <2>2 DEF Laid
  <2> HIDE DEF at
  <2> QED BY <2>1, <2>2 DEF Laid
<1> HIDE DEF at
<1>8. LET v == [file EXCEPT !.at = at] IN
      v \in File /\ v.num = file.num /\ v.end = file.end /\ v.posts = file.posts /\ v.at = at
  BY <1>4 DEF File
<1> QED BY <1>1, <1>7, <1>8

LEMMA LaidSame ==
  ASSUME NEW at, NEW l, NEW pos, NEW n \in Nat, Laid(at, l, pos, n), NEW m, NEW q,
         \A k \in 0 .. n : q[k] = pos[k], \A k \in 1 .. n : m[k] = l[k]
  PROVE  Laid(at, m, q, n)
<1>1. \A k \in 0 .. n - 1 : q[k] = pos[k] /\ q[k + 1] = pos[k + 1] /\ m[k + 1] = l[k + 1]
  <2> TAKE k \in 0 .. n - 1
  <2>1. k \in 0 .. n /\ k + 1 \in 0 .. n /\ k + 1 \in 1 .. n
    OBVIOUS
  <2> QED BY <2>1
<1>2. ASSUME NEW k \in 0 .. n - 1
      PROVE  q[k] \in DOMAIN at /\ at[q[k]] = [next |-> q[k + 1], length |-> m[k + 1]]
  BY <1>1 DEF Laid
<1>3. ASSUME NEW o \in DOMAIN at, o < q[n] PROVE \E k \in 0 .. n - 1 : o = q[k]
  <2>1. o < pos[n]
    BY <1>3
  <2>2. PICK k \in 0 .. n - 1 : o = pos[k]
    BY <2>1 DEF Laid
  <2> QED BY <1>1, <2>2
<1> QED BY <1>2, <1>3 DEF Laid

LEMMA LaidBefore ==
  ASSUME NEW file \in File, NEW l, NEW pos, NEW n, Placed(l, pos, n), NEW k \in 0 .. n,
         Laid(file.at, l, pos, n)
  PROVE  Laid(file.at, l, pos, k)
<1>1. n \in Nat /\ k \in Nat /\ n \in 0 .. n /\ (k = n \/ k < n) /\ \A j \in 0 .. n : pos[j] \in Nat
  BY DEF Placed
<1>g. \A i, j \in 0 .. n : i < j => pos[i] < pos[j]
  BY Grows
<1>2. ASSUME NEW i \in 0 .. k - 1
      PROVE  pos[i] \in DOMAIN file.at /\ file.at[pos[i]] = [next |-> pos[i + 1], length |-> l[i + 1]]
  <2>1. i \in 0 .. n - 1
    BY <1>1
  <2> QED BY <2>1 DEF Laid
<1>3. ASSUME NEW o \in DOMAIN file.at, o < pos[k] PROVE \E i \in 0 .. k - 1 : o = pos[i]
  <2>1. o \in Nat
    BY WritingsAre DEF File
  <2>2. pos[k] <= pos[n] /\ pos[k] \in Nat /\ pos[n] \in Nat
    <3>1. pos[k] \in Nat /\ pos[n] \in Nat
      BY <1>1
    <3>2. k = n \/ pos[k] < pos[n]
      BY <1>1, <1>g
    <3> QED BY <3>1, <3>2
  <2>3. PICK i \in 0 .. n - 1 : o = pos[i]
    <3>1. o < pos[n]
      BY <1>3, <2>1, <2>2
    <3> QED BY <3>1 DEF Laid
  <2>4. i \in 0 .. n /\ ~(k < i) /\ i # k
    <3>1. i \in 0 .. n
      BY <1>1
    <3>2. k < i => pos[k] < pos[i]
      BY <1>g, <3>1
    <3> QED BY <1>3, <2>1, <2>2, <2>3, <3>1, <3>2
  <2> QED BY <1>1, <2>3, <2>4
<1> QED BY <1>2, <1>3 DEF Laid

(* A post is appended. *)
LEMMA AppendedIs ==
  ASSUME NEW file, NEW l, NEW pos, Holds(file, l, pos), NEW p \in Post
  PROVE  LET v == Appended(file, p)
             n == file.num
             m == [k \in 1 .. n + 1 |-> IF k = n + 1 THEN p ELSE l[k]]
         IN /\ \E q : Holds(v, m, q)
            /\ v.num = n + 1 /\ v.posts = file.posts + 1
<1> DEFINE n == file.num
           m == [k \in 1 .. n + 1 |-> IF k = n + 1 THEN p ELSE l[k]]
           q == [k \in 0 .. n + 1 |-> IF k = n + 1 THEN file.end + 1 + p ELSE pos[k]]
           u == Put(file, file.end, p)
           v == Appended(file, p)
<1>1. /\ file \in File /\ n \in Nat /\ l \in [1 .. n -> Post] /\ pos \in [0 .. n -> Nat]
      /\ pos[0] = 0 /\ \A k \in 1 .. n : pos[k] = pos[k - 1] + 1 + l[k]
      /\ Laid(file.at, l, pos, n) /\ file.end = pos[n] /\ n \in 0 .. n
  BY DEF Holds, Placed, File
<1>2. p \in Nat /\ p \in Post /\ file.end \in Nat /\ file.posts \in Nat
  BY <1>1, Lengths DEF File
<1> HIDE DEF n
<1>3. /\ \A k \in 1 .. n : m[k] = l[k] /\ k \in 1 .. n + 1
      /\ \A k \in 0 .. n : q[k] = pos[k] /\ k \in 0 .. n + 1
      /\ m[n + 1] = p /\ q[n + 1] = file.end + 1 + p /\ n + 1 \in 1 .. n + 1
  BY <1>1
<1>4. m \in [1 .. n + 1 -> Post] /\ q \in [0 .. n + 1 -> Nat]
  <2>1. \A k \in 1 .. n + 1 : k # n + 1 => k \in 1 .. n
    BY <1>1
  <2>2. \A k \in 0 .. n + 1 : k # n + 1 => k \in 0 .. n
    BY <1>1
  <2> QED BY <1>1, <1>2, <2>1, <2>2
<1> HIDE DEF m, q
<1>5. Placed(m, q, n + 1)
  <2>1. n + 1 \in Nat /\ q[0] = 0
    BY <1>1, <1>3
  <2>2. ASSUME NEW k \in 1 .. n + 1 PROVE q[k] = q[k - 1] + 1 + m[k]
    <3>1. CASE k = n + 1
      <4>1. k - 1 = n /\ q[k - 1] = pos[n]
        BY <1>1, <1>3, <3>1
      <4> QED BY <1>1, <1>3, <3>1, <4>1
    <3>2. CASE k # n + 1
      <4>1. k \in 1 .. n /\ k \in 0 .. n /\ k - 1 \in 0 .. n
        BY <1>1, <3>2
      <4> QED BY <1>1, <1>3, <4>1
    <3> QED BY <3>1, <3>2
  <2> QED BY <1>4, <2>1, <2>2 DEF Placed
<1>6. Laid(file.at, m, q, n)
  BY <1>1, <1>3, LaidSame
<1>7. Laid(u.at, m, q, n + 1)
  <2>1. n \in 0 .. (n + 1) - 1 /\ q[n] = file.end /\ m[n + 1] = p
    BY <1>1, <1>3
  <2>2. Laid(Put(file, q[n], m[n + 1]).at, m, q, n + 1)
    BY <1>1, <1>5, <1>6, <2>1, PutLays
  <2> QED BY <2>1, <2>2
<1>8. u \in File
  BY <1>1, <1>2, PutIs DEF Overwritten
<1>9. v = [u EXCEPT !.num = n + 1, !.posts = file.posts + 1, !.end = file.end + 1 + p]
  BY DEF Appended, n
<1> HIDE DEF u, v
<1>10. /\ v \in File /\ v.at = u.at /\ v.num = n + 1 /\ v.posts = file.posts + 1
       /\ v.end = file.end + 1 + p
  <2>1. n + 1 \in Nat /\ file.posts + 1 \in Nat /\ file.end + 1 + p \in Nat
    BY <1>1, <1>2
  <2> QED BY <1>8, <1>9, <2>1 DEF File
<1>11. Holds(v, m, q)
  BY <1>3, <1>5, <1>7, <1>10 DEF Holds
<1> QED BY <1>10, <1>11 DEF v, m, n

-----------------------------------------------------------------------------
(* A post is written anew. *)

\* Turn i of the loop has written one post more.
LEMMA WritesLay ==
  ASSUME NEW file \in File, NEW m, NEW q, NEW n, Placed(m, q, n), NEW k \in 0 .. n,
         Laid(file.at, m, q, k), NEW held, \A i \in 1 .. n - k : held[i] = m[k + i],
         NEW s, Writes(s, n - k, [file |-> file, to |-> q[k]], held)
  PROVE  /\ s[n - k].file \in File /\ s[n - k].file.num = file.num /\ s[n - k].file.posts = file.posts
         /\ Laid(s[n - k].file.at, m, q, n) /\ s[n - k].to = q[n]
<1> DEFINE inv(i) == /\ s[i].file \in File /\ s[i].file.num = file.num /\ s[i].file.posts = file.posts
                     /\ Laid(s[i].file.at, m, q, k + i) /\ s[i].to = q[k + i]
           S == {i \in 0 .. n - k : inv(i)}
<1>1. n \in Nat /\ k \in Nat /\ n - k \in Nat
  BY DEF Placed
<1>2. s[0] = [file |-> file, to |-> q[k]] /\ \A i \in 0 .. n - k : i # 0 => s[i] = Write(s[i - 1], held[i])
  BY <1>1 DEF Writes
<1>3. 0 \in S
  BY <1>1, <1>2
<1>4. ASSUME NEW i \in 0 .. (n - k) - 1, i \in S PROVE i + 1 \in S
  <2>1. /\ i + 1 \in 1 .. n - k /\ i + 1 \in 0 .. n - k /\ (i + 1) - 1 = i /\ i + 1 # 0 /\ i \in 0 .. n - k
        /\ k + i \in 0 .. n - 1 /\ k + (i + 1) = (k + i) + 1 /\ (k + i) + 1 \in 1 .. n /\ k + i \in 0 .. n
    BY <1>1
  <2>2. inv(i)
    BY <1>4
  <2>3. s[i + 1] = Write(s[i], held[i + 1])
    BY <1>2, <2>1
  <2>4. held[i + 1] = m[(k + i) + 1]
    BY <2>1
  <2> DEFINE p == m[(k + i) + 1]
             u == Put(s[i].file, q[k + i], p)
  <2>5. s[i + 1] = [file |-> u, to |-> q[k + i] + 1 + p]
    BY <2>2, <2>3, <2>4 DEF Write
  <2>6. q[k + i] \in Nat /\ p \in Nat /\ q[(k + i) + 1] = q[k + i] + 1 + p
    <3>1. p \in Post /\ q[k + i] \in Nat
      BY <2>1 DEF Placed
    <3>2. ((k + i) + 1) - 1 = k + i
      BY <1>1, <2>1
    <3>3. q[(k + i) + 1] = q[((k + i) + 1) - 1] + 1 + m[(k + i) + 1]
      BY <2>1 DEF Placed
    <3> QED BY <3>1, <3>2, <3>3, Lengths
  <2>7. u \in File /\ u.num = s[i].file.num /\ u.posts = s[i].file.posts
    <3>1. s[i].file \in File
      BY <2>2
    <3>2. q[k + i] \in Nat /\ p \in Nat
      BY <2>6
    <3> HIDE DEF inv, p
    <3> QED BY <3>1, <3>2, PutKeeps
  <2>8. Laid(u.at, m, q, (k + i) + 1)
    BY <2>1, <2>2, PutLays
  <2> HIDE DEF u, p
  <2>9. inv(i + 1)
    BY <2>1, <2>2, <2>5, <2>6, <2>7, <2>8
  <2> QED BY <2>1, <2>9
<1> HIDE DEF S
<1>5. n - k \in S
  <2>1. \A i \in 0 .. (n - k) - 1 : i \in S => i + 1 \in S
    BY <1>4
  <2>2. \A i \in 0 .. n - k : i \in S
    BY <1>1, <1>3, <2>1, CountUp
  <2> QED BY <1>1, <2>2
<1>6. inv(n - k) /\ k + (n - k) = n
  BY <1>1, <1>5 DEF S
<1> QED BY <1>6

LEMMA RewrittenIs ==
  ASSUME NEW file, NEW l, NEW pos, Holds(file, l, pos), NEW k \in 0 .. file.num - 1, NEW p \in Post
  PROVE  LET v == Rewritten(file, k, p)
             m == [l EXCEPT ![k + 1] = p]
         IN /\ \E q : Holds(v, m, q)
            /\ v.num = file.num /\ v.posts = file.posts
<1> DEFINE n == file.num
           m == [l EXCEPT ![k + 1] = p]
           q == [j \in 0 .. n |-> IF j <= k THEN pos[j] ELSE pos[j] + p - l[k + 1]]
           held == <<p>> \o SubSeq(ListPosts(file), k + 2, n)
           v == Rewritten(file, k, p)
<1>1. /\ file \in File /\ n \in Nat /\ l \in [1 .. n -> Post] /\ pos \in [0 .. n -> Nat]
      /\ pos[0] = 0 /\ \A j \in 1 .. n : pos[j] = pos[j - 1] + 1 + l[j]
      /\ Laid(file.at, l, pos, n) /\ file.end = pos[n] /\ n \in 0 .. n
      /\ Placed(l, pos, n)
  BY DEF Holds, Placed, File
<1>2. p \in Nat /\ p \in Post /\ k + 1 \in 1 .. n /\ l[k + 1] \in Post /\ l[k + 1] \in Nat /\ k \in Nat
      /\ k \in 0 .. n /\ k + 1 \in 0 .. n /\ k < n
  <2>1. k + 1 \in 1 .. n /\ k \in Nat /\ k \in 0 .. n /\ k + 1 \in 0 .. n /\ k < n
    BY <1>1
  <2>2. l[k + 1] \in Post
    BY <1>1, <2>1
  <2> QED BY <2>1, <2>2, Lengths
<1>g. \A i, j \in 0 .. n : i < j => pos[i] < pos[j]
  <2>1. Placed(l, pos, n)
    BY <1>1
  <2> QED BY <2>1, Grows
<1>3. ListPosts(file) = l
  BY PostsAre
<1> HIDE DEF n
<1>4. l \in Seq(Post) /\ Len(l) = n
  BY <1>1
<1>5. Len(held) = n - k /\ \A i \in 1 .. n - k : held[i] = m[k + i]
  <2> DEFINE rest == SubSeq(l, k + 2, n)
  <2>1. rest \in Seq(Post) /\ Len(rest) = n - (k + 1) /\ \A i \in 1 .. n - (k + 1) : rest[i] = l[(k + 1) + i]
    BY <1>1, <1>2, <1>4
  <2>2. held = <<p>> \o rest
    BY <1>3
  <2> HIDE DEF rest
  <2>3. Len(held) = n - k
    BY <1>1, <1>2, <2>1, <2>2
  <2>4. ASSUME NEW i \in 1 .. n - k PROVE held[i] = m[k + i]
    <3>1. CASE i = 1
      BY <1>1, <1>2, <2>1, <2>2, <3>1
    <3>2. CASE i # 1
      <4>1. i - 1 \in 1 .. n - (k + 1) /\ (k + 1) + (i - 1) = k + i /\ k + i # k + 1 /\ k + i \in 1 .. n
        BY <1>1, <1>2, <3>2
      <4>2. held[i] = rest[i - 1]
        <5>1. i \in 1 .. 1 + Len(rest) /\ ~(i <= 1) /\ <<p>> \in Seq(Post) /\ rest \in Seq(Post)
          BY <1>1, <1>2, <2>1, <3>2
        <5>2. Len(<<p>>) = 1
          OBVIOUS
        <5>3. \A j \in 1 .. Len(<<p>>) + Len(rest) :
                (<<p>> \o rest)[j] = IF j <= Len(<<p>>) THEN <<p>>[j] ELSE rest[j - Len(<<p>>)]
          <6> HIDE DEF rest
          <6> QED BY <5>1, ConcatProperties
        <5> QED BY <2>2, <5>1, <5>2, <5>3
      <4> QED BY <1>1, <2>1, <4>1, <4>2
    <3> QED BY <3>1, <3>2
  <2> QED BY <2>3, <2>4
<1>6. /\ \A j \in 0 .. n : j <= k => q[j] = pos[j]
      /\ \A j \in 0 .. n : ~(j <= k) => q[j] = pos[j] + p - l[k + 1]
      /\ m[k + 1] = p /\ \A j \in 1 .. n : j # k + 1 => m[j] = l[j]
  BY <1>1, <1>2
<1>7. m \in [1 .. n -> Post]
  BY <1>1, <1>2
<1>8. \A j \in 0 .. n : q[j] \in Nat
  <2> TAKE j \in 0 .. n
  <2>1. CASE j <= k
    BY <1>1, <1>6, <2>1
  <2>2. CASE ~(j <= k)
    <3>1. pos[j] >= pos[k + 1]
      <4>1. CASE j = k + 1
        BY <1>1, <1>2, <4>1
      <4>2. CASE j # k + 1
        <5>1. k + 1 < j /\ k + 1 \in 0 .. n /\ j \in 0 .. n
          BY <1>1, <1>2, <2>2, <4>2
        <5>2. pos[k + 1] \in Nat /\ pos[j] \in Nat
          <6>1. pos \in [0 .. n -> Nat]
            BY <1>1
          <6> HIDE DEF q, m
          <6> QED BY <5>1, <6>1
        <5> QED BY <1>2, <1>g, <5>1, <5>2
      <4> QED BY <4>1, <4>2
    <3>2. pos[k + 1] = pos[k] + 1 + l[k + 1] /\ pos[k] \in Nat /\ pos[j] \in Nat
      <4>1. (k + 1) - 1 = k
        BY <1>2
      <4> QED BY <1>1, <1>2, <4>1
    <3> QED BY <1>2, <1>6, <2>2, <3>1, <3>2
  <2> QED BY <2>1, <2>2
<1>9. q \in [0 .. n -> Nat]
  BY <1>8
<1> HIDE DEF m, q, held
<1>10. Placed(m, q, n)
  <2>1. q[0] = 0
    <3>1. n \in Nat /\ k \in Nat
      BY <1>1, <1>2
    <3>2. 0 \in 0 .. n /\ 0 <= k
      BY <3>1
    <3> QED BY <1>1, <1>6, <3>2
  <2>2. ASSUME NEW j \in 1 .. n PROVE q[j] = q[j - 1] + 1 + m[j]
    <3>1. j \in 0 .. n /\ j - 1 \in 0 .. n /\ pos[j] = pos[j - 1] + 1 + l[j] /\ l[j] \in Nat
          /\ pos[j] \in Nat /\ pos[j - 1] \in Nat
      BY <1>1, Lengths
    <3>2. CASE j <= k
      <4>1. j - 1 <= k /\ j # k + 1
        BY <1>2, <3>2
      <4> QED BY <1>6, <3>1, <3>2, <4>1
    <3>3. CASE j = k + 1
      <4>1. j - 1 = k /\ ~(j <= k)
        BY <1>2, <3>3
      <4>2. q[j] = pos[j] + p - l[j] /\ q[j - 1] = pos[j - 1] /\ m[j] = p
        BY <1>6, <3>1, <3>3, <4>1
      <4> QED BY <1>2, <3>1, <4>2
    <3>4. CASE j > k + 1
      <4>1. ~(j - 1 <= k) /\ ~(j <= k) /\ j # k + 1
        BY <1>2, <3>4
      <4>2. q[j] = pos[j] + p - l[k + 1] /\ q[j - 1] = pos[j - 1] + p - l[k + 1] /\ m[j] = l[j]
        BY <1>6, <3>1, <4>1
      <4> QED BY <1>2, <3>1, <4>2
    <3> QED BY <1>2, <3>2, <3>3, <3>4
  <2> QED BY <1>1, <1>7, <1>9, <2>1, <2>2 DEF Placed
<1>11. Laid(file.at, m, q, k)
  <2>1. Laid(file.at, l, pos, k)
    <3>1. file \in File /\ Placed(l, pos, n) /\ k \in 0 .. n /\ Laid(file.at, l, pos, n)
      BY <1>1, <1>2
    <3> QED BY <3>1, LaidBefore
  <2>2. \A j \in 0 .. k : j \in 0 .. n /\ j <= k
    BY <1>1, <1>2
  <2>3. \A j \in 1 .. k : j \in 1 .. n /\ j # k + 1
    BY <1>1, <1>2
  <2> QED BY <1>2, <1>6, <2>1, <2>2, <2>3, LaidSame
<1>12. Offset(file, k) = q[k]
  <2>1. Offset(file, k) = pos[k]
    BY <1>2, OffsetIs DEF n
  <2> QED BY <1>2, <1>6, <2>1
<1> DEFINE x == [file |-> file, to |-> q[k]]
           s == CHOOSE f : Writes(f, n - k, x, held)
<1>13. v = Trimmed([s[n - k].file EXCEPT !.end = s[n - k].to])
  <2>1. v = RewrittenWith(file, k, held)
    BY DEF Rewritten, held, n
  <2> QED BY <1>5, <1>12, <2>1 DEF RewrittenWith, Writes
<1>14. Writes(s, n - k, x, held)
  <2>1. n - k \in Nat
    BY <1>1, <1>2
  <2> HIDE DEF x
  <2>2. \E f : Writes(f, n - k, x, held)
    BY <2>1, WritesExist
  <2> QED BY <2>2
<1> HIDE DEF s
<1>15. /\ s[n - k].file \in File /\ s[n - k].file.num = n /\ s[n - k].file.posts = file.posts
       /\ Laid(s[n - k].file.at, m, q, n) /\ s[n - k].to = q[n]
  <2>1. /\ file \in File /\ Placed(m, q, n) /\ k \in 0 .. n /\ Laid(file.at, m, q, k)
        /\ \A i \in 1 .. n - k : held[i] = m[k + i]
    BY <1>1, <1>2, <1>5, <1>10, <1>11
  <2>2. Writes(s, n - k, [file |-> file, to |-> q[k]], held)
    BY <1>14
  <2>3. /\ s[n - k].file \in File /\ s[n - k].file.num = file.num /\ s[n - k].file.posts = file.posts
        /\ Laid(s[n - k].file.at, m, q, n) /\ s[n - k].to = q[n]
    BY <2>1, <2>2, WritesLay
  <2> QED BY <2>3 DEF n
<1> DEFINE u == [s[n - k].file EXCEPT !.end = s[n - k].to]
<1>16. u \in File /\ u.num = n /\ u.posts = file.posts /\ u.at = s[n - k].file.at /\ u.end = q[n]
  <2>1. q[n] \in Nat
    BY <1>1, <1>8
  <2> QED BY <1>15, <2>1 DEF File
<1> HIDE DEF u
<1>17. v \in File /\ v.num = n /\ v.posts = file.posts /\ v.end = q[n] /\ Laid(v.at, m, q, n)
  <2>1. v = Trimmed(u) /\ Laid(u.at, m, q, n)
    BY <1>13, <1>15, <1>16 DEF u
  <2> HIDE DEF v
  <2> QED BY <1>1, <1>10, <1>16, <2>1, TrimmedIs
<1>18. Holds(v, m, q)
  BY <1>10, <1>17 DEF Holds
<1> HIDE DEF v
<1> QED BY <1>17, <1>18 DEF v, m, n

-----------------------------------------------------------------------------
(* A post is cut out. *)

\* The positions without the k-th post.
Closed(l, pos, n, k) == [j \in 0 .. n - 1 |-> IF j < k THEN pos[j] ELSE pos[j + 1] - (1 + l[k])]

LEMMA LessIs ==
  ASSUME NEW l, NEW n \in Nat, NEW k \in 1 .. n, NEW X, l \in [1 .. n -> X]
  PROVE  /\ Less(l, n, k) \in [1 .. n - 1 -> X]
         /\ \A i \in 1 .. n - 1 : Less(l, n, k)[i] = IF i < k THEN l[i] ELSE l[i + 1]
<1>1. \A i \in 1 .. n - 1 : i \in 1 .. n /\ i + 1 \in 1 .. n
  OBVIOUS
<1> QED BY <1>1 DEF Less

LEMMA ClosedIs ==
  ASSUME NEW l, NEW pos, NEW n, Placed(l, pos, n), NEW k \in 1 .. n
  PROVE  /\ Placed(Less(l, n, k), Closed(l, pos, n, k), n - 1)
         /\ \A j \in 0 .. k - 1 : Closed(l, pos, n, k)[j] = pos[j]
         /\ \A j \in k - 1 .. n - 1 : Closed(l, pos, n, k)[j] = pos[j + 1] - (1 + l[k])
<1> DEFINE m == Less(l, n, k)
           q == Closed(l, pos, n, k)
<1>1. /\ n \in Nat /\ l \in [1 .. n -> Post] /\ pos \in [0 .. n -> Nat]
      /\ pos[0] = 0 /\ \A j \in 1 .. n : pos[j] = pos[j - 1] + 1 + l[j]
  BY DEF Placed
<1>g. \A i, j \in 0 .. n : i < j => pos[i] < pos[j]
  BY Grows
<1>2. m \in [1 .. n - 1 -> Post] /\ \A i \in 1 .. n - 1 : m[i] = IF i < k THEN l[i] ELSE l[i + 1]
  BY <1>1, LessIs
<1>3. k \in 1 .. n /\ k - 1 \in 0 .. n /\ k \in 0 .. n /\ n - 1 \in Nat /\ l[k] \in Nat /\ pos[k] = pos[k - 1] + 1 + l[k]
      /\ pos[k] \in Nat /\ pos[k - 1] \in Nat
  <2>1. k - 1 \in 0 .. n /\ k \in 0 .. n /\ n - 1 \in Nat /\ l[k] \in Post
    BY <1>1
  <2> QED BY <1>1, <2>1, Lengths
<1>4. \A j \in 0 .. n - 1 : q[j] = IF j < k THEN pos[j] ELSE pos[j + 1] - (1 + l[k])
  BY DEF Closed
<1> HIDE DEF m, q
<1>5. \A j \in 0 .. k - 1 : q[j] = pos[j]
  <2>1. \A j \in 0 .. k - 1 : j \in 0 .. n - 1 /\ j < k
    BY <1>1
  <2> QED BY <1>4, <2>1
<1>6. \A j \in k - 1 .. n - 1 : q[j] = pos[j + 1] - (1 + l[k])
  <2> TAKE j \in k - 1 .. n - 1
  <2>1. j \in 0 .. n - 1
    BY <1>1
  <2>2. CASE j = k - 1
    <3>1. j < k /\ j + 1 = k
      BY <1>1, <2>2
    <3>2. q[j] = pos[k - 1]
      BY <1>4, <2>1, <2>2, <3>1
    <3> QED BY <1>3, <3>1, <3>2
  <2>3. CASE j # k - 1
    <3>1. ~(j < k)
      BY <1>1, <2>3
    <3> QED BY <1>4, <2>1, <3>1
  <2> QED BY <2>2, <2>3
<1>7. q \in [0 .. n - 1 -> Nat]
  <2>1. ASSUME NEW j \in 0 .. n - 1 PROVE q[j] \in Nat
    <3>0. j \in 0 .. n /\ j + 1 \in 0 .. n
      BY <1>1
    <3>1. CASE j < k
      BY <1>1, <1>4, <3>0, <3>1
    <3>2. CASE ~(j < k)
      <4>1. k < j + 1
        BY <1>1, <3>2
      <4>2. pos[k] < pos[j + 1] /\ pos[j + 1] \in Nat
        BY <1>1, <1>3, <1>g, <3>0, <4>1
      <4>3. q[j] = pos[j + 1] - (1 + l[k])
        BY <1>4, <3>2
      <4> QED BY <1>3, <4>2, <4>3
    <3> QED BY <3>1, <3>2
  <2>2. q = [j \in 0 .. n - 1 |-> q[j]]
    BY DEF q, Closed
  <2> QED BY <2>1, <2>2
<1>8. q[0] = 0
  <2>1. 0 \in 0 .. k - 1
    BY <1>1
  <2> QED BY <1>1, <1>5, <2>1
<1>9. ASSUME NEW j \in 1 .. n - 1 PROVE q[j] = q[j - 1] + 1 + m[j]
  <2>0. j \in 1 .. n /\ j + 1 \in 1 .. n /\ j \in 0 .. n /\ j - 1 \in 0 .. n /\ j + 1 \in 0 .. n /\ (j + 1) - 1 = j
        /\ j \in 0 .. n - 1 /\ j - 1 \in 0 .. n - 1 /\ (j - 1) + 1 = j
    BY <1>1
  <2>1. /\ pos[j] = pos[j - 1] + 1 + l[j] /\ pos[j + 1] = pos[j] + 1 + l[j + 1]
        /\ l[j] \in Nat /\ l[j + 1] \in Nat /\ pos[j] \in Nat /\ pos[j - 1] \in Nat /\ pos[j + 1] \in Nat
    <3>1. l[j] \in Post /\ l[j + 1] \in Post
      BY <1>1, <2>0
    <3> QED BY <1>1, <2>0, <3>1, Lengths
  <2>2. CASE j < k
    <3>1. j \in 0 .. k - 1 /\ j - 1 \in 0 .. k - 1
      BY <2>2
    <3>2. q[j] = pos[j] /\ q[j - 1] = pos[j - 1] /\ m[j] = l[j]
      BY <1>2, <1>5, <2>2, <3>1
    <3> QED BY <2>1, <3>2
  <2>3. CASE ~(j < k)
    <3>1. j \in k - 1 .. n - 1 /\ j - 1 \in k - 1 .. n - 1
      BY <1>1, <2>3
    <3>2. q[j] = pos[j + 1] - (1 + l[k]) /\ q[j - 1] = pos[(j - 1) + 1] - (1 + l[k]) /\ m[j] = l[j + 1]
      BY <1>2, <1>6, <2>3, <3>1
    <3>3. q[j - 1] = pos[j] - (1 + l[k])
      BY <2>0, <3>2
    <3> QED BY <1>3, <2>1, <3>2, <3>3
  <2> QED BY <2>2, <2>3
<1>10. Placed(m, q, n - 1)
  BY <1>2, <1>3, <1>7, <1>8, <1>9 DEF Placed
<1> QED BY <1>5, <1>6, <1>10 DEF m, q

\* The posts from the j-th on are still where they were.
Waiting(at, l, pos, j, n) ==
  \A i \in j .. n - 1 : pos[i] \in DOMAIN at /\ at[pos[i]] = [next |-> pos[i + 1], length |-> l[i + 1]]

\* Turn i of the loop has moved one post more.
LEMMA MovesLay ==
  ASSUME NEW file \in File, NEW l, NEW pos, NEW n, Placed(l, pos, n), NEW k \in 1 .. n,
         NEW m, NEW q, m = Less(l, n, k), q = Closed(l, pos, n, k),
         Laid(file.at, m, q, k - 1), Waiting(file.at, l, pos, k, n),
         NEW s, Moves(s, n - k, [file |-> file, from |-> pos[k], to |-> q[k - 1]])
  PROVE  /\ s[n - k].file \in File /\ s[n - k].file.num = file.num /\ s[n - k].file.posts = file.posts
         /\ Laid(s[n - k].file.at, m, q, n - 1) /\ s[n - k].to = q[n - 1]
<1> DEFINE inv(i) == /\ s[i].file \in File /\ s[i].file.num = file.num /\ s[i].file.posts = file.posts
                     /\ Laid(s[i].file.at, m, q, (k - 1) + i) /\ s[i].to = q[(k - 1) + i]
                     /\ s[i].from = pos[k + i] /\ Waiting(s[i].file.at, l, pos, k + i, n)
           S == {i \in 0 .. n - k : inv(i)}
<1>1. n \in Nat /\ k \in Nat /\ n - k \in Nat /\ k \in 1 .. n /\ n - 1 \in Nat
  BY DEF Placed
<1>2. /\ s[0] = [file |-> file, from |-> pos[k], to |-> q[k - 1]]
      /\ \A i \in 0 .. n - k : i # 0 => s[i] = Move(s[i - 1])
  BY <1>1 DEF Moves
<1>p. Placed(m, q, n - 1) /\ \A j \in k - 1 .. n - 1 : q[j] = pos[j + 1] - (1 + l[k])
  BY ClosedIs
<1>m. \A i \in 1 .. n - 1 : m[i] = IF i < k THEN l[i] ELSE l[i + 1]
  <2>1. l \in [1 .. n -> Post]
    BY DEF Placed
  <2> QED BY <1>1, <2>1, LessIs
<1>3. 0 \in S
  <2>1. k + 0 = k /\ (k - 1) + 0 = k - 1 /\ 0 \in 0 .. n - k
    BY <1>1
  <2> QED BY <1>2, <2>1
<1>4. ASSUME NEW i \in 0 .. (n - k) - 1, i \in S PROVE i + 1 \in S
  <2> DEFINE j == (k - 1) + i
  <2>1. /\ i + 1 \in 0 .. n - k /\ (i + 1) - 1 = i /\ i + 1 # 0
        /\ j \in k - 1 .. n - 1 /\ j + 1 = k + i /\ (k - 1) + (i + 1) = j + 1 /\ k + (i + 1) = j + 2
        /\ j + 1 \in k .. n - 1 /\ j \in 0 .. (n - 1) - 1 /\ j + 1 \in 1 .. n - 1 /\ ~(j + 1 < k)
        /\ j + 2 \in 1 .. n /\ (j + 2) - 1 = j + 1 /\ j + 1 \in 0 .. n /\ j + 2 \in 0 .. n /\ (j + 1) + 1 = j + 2
        /\ j \in Nat /\ j + 1 \in 1 .. n
    BY <1>1
  <2>2. inv(i)
    BY <1>4
  <2>3. s[i + 1] = Move(s[i])
    BY <1>2, <2>1
  <2> HIDE DEF j
  <2>4. /\ s[i].from = pos[j + 1] /\ s[i].to = q[j] /\ s[i].file \in File /\ Laid(s[i].file.at, m, q, j)
        /\ Waiting(s[i].file.at, l, pos, j + 1, n)
        /\ s[i].file.num = file.num /\ s[i].file.posts = file.posts
    BY <2>1, <2>2 DEF j
  <2> HIDE DEF inv
  <2>5. At(s[i].file, pos[j + 1]) = [next |-> pos[j + 2], length |-> l[j + 2]]
    <3>1. j + 1 \in j + 1 .. n - 1
      BY <2>1, <1>1
    <3>2. /\ pos[j + 1] \in DOMAIN s[i].file.at
          /\ s[i].file.at[pos[j + 1]] = [next |-> pos[(j + 1) + 1], length |-> l[(j + 1) + 1]]
      BY <2>4, <3>1 DEF Waiting
    <3> QED BY <2>1, <3>2 DEF At
  <2>6. m[j + 1] = l[j + 2]
    BY <1>m, <2>1
  <2> DEFINE p == m[j + 1]
             u == Put(s[i].file, q[j], p)
  <2>7. s[i + 1] = [file |-> u, from |-> pos[j + 2], to |-> q[j] + 1 + p]
    BY <2>3, <2>4, <2>5, <2>6 DEF Move
  <2>8. /\ q[j] \in Nat /\ p \in Nat /\ q[j + 1] = q[j] + 1 + p /\ q[j] = pos[j + 1] - (1 + l[k]) /\ l[k] \in Nat
        /\ pos[j + 2] = pos[j + 1] + 1 + p /\ pos[j + 1] \in Nat /\ pos[j + 2] \in Nat
    <3>1. p \in Post /\ q[j] \in Nat /\ q[j + 1] = q[(j + 1) - 1] + 1 + m[j + 1] /\ (j + 1) - 1 = j
      <4>1. j \in 0 .. n - 1 /\ (j + 1) - 1 = j
        BY <1>1, <2>1
      <4> QED BY <1>p, <2>1, <4>1 DEF Placed
    <3>2. l[k] \in Post /\ pos[j + 1] \in Nat /\ pos[j + 2] \in Nat /\ pos[j + 2] = pos[(j + 2) - 1] + 1 + l[j + 2]
      BY <1>1, <2>1 DEF Placed
    <3>3. q[j] = pos[j + 1] - (1 + l[k])
      BY <1>p, <2>1
    <3> QED BY <2>1, <2>6, <3>1, <3>2, <3>3, Lengths
  <2>9. /\ u \in File /\ u.num = s[i].file.num /\ u.posts = s[i].file.posts
    <3>1. s[i].file \in File /\ q[j] \in Nat /\ p \in Nat
      BY <2>4, <2>8
    <3> HIDE DEF p
    <3> QED BY <3>1, PutKeeps
  <2>10. Laid(u.at, m, q, j + 1)
    BY <1>p, <2>1, <2>4, PutLays
  <2>11. Waiting(u.at, l, pos, j + 2, n)
    <3> SUFFICES ASSUME NEW a \in j + 2 .. n - 1
                 PROVE  pos[a] \in DOMAIN u.at /\ u.at[pos[a]] = [next |-> pos[a + 1], length |-> l[a + 1]]
      BY DEF Waiting
    <3>1. a \in j + 1 .. n - 1 /\ a \in 0 .. n /\ (a = j + 2 \/ j + 2 < a)
      BY <1>1, <2>1
    <3>2. /\ pos[a] \in DOMAIN s[i].file.at
          /\ s[i].file.at[pos[a]] = [next |-> pos[a + 1], length |-> l[a + 1]]
      BY <2>4, <3>1 DEF Waiting
    <3>3. pos[j + 2] <= pos[a] /\ pos[a] \in Nat
      <4>1. \A b, c \in 0 .. n : b < c => pos[b] < pos[c]
        BY Grows
      <4>2. pos[a] \in Nat
        BY <3>1 DEF Placed
      <4> QED BY <2>1, <2>8, <3>1, <4>1, <4>2
    <3>4. pos[a] \notin q[j] .. q[j] + p
      BY <2>8, <3>3
    <3>5. /\ DOMAIN u.at = {q[j]} \cup (DOMAIN s[i].file.at \ (q[j] .. q[j] + p))
          /\ \A b \in DOMAIN s[i].file.at \ (q[j] .. q[j] + p) : u.at[b] = s[i].file.at[b]
      <4>1. s[i].file \in File /\ q[j] \in Nat /\ p \in Nat
        BY <2>4, <2>8
      <4> HIDE DEF p
      <4>2. Overwritten(u, s[i].file, q[j], p)
        BY <4>1, PutIs
      <4> HIDE DEF u
      <4> QED BY <4>2 DEF Overwritten
    <3> QED BY <3>2, <3>4, <3>5
  <2> HIDE DEF u, p
  <2>12. inv(i + 1)
    BY <2>1, <2>4, <2>7, <2>8, <2>9, <2>10, <2>11 DEF inv, j
  <2> QED BY <2>1, <2>12
<1> HIDE DEF S
<1>5. n - k \in S
  <2>1. \A i \in 0 .. (n - k) - 1 : i \in S => i + 1 \in S
    BY <1>4
  <2>2. \A i \in 0 .. n - k : i \in S
    BY <1>1, <1>3, <2>1, CountUp
  <2> QED BY <1>1, <2>2
<1>6. inv(n - k) /\ (k - 1) + (n - k) = n - 1
  BY <1>1, <1>5 DEF S
<1> QED BY <1>6

LEMMA CutIs ==
  ASSUME NEW file, NEW l, NEW pos, Holds(file, l, pos), NEW k \in 0 .. file.num - 1, file.posts \in Nat \ {0}
  PROVE  LET v == Cut(file, k) IN
         /\ \E q : Holds(v, Less(l, file.num, k + 1), q)
         /\ v.num = file.num - 1 /\ v.posts = file.posts - 1
<1> DEFINE n == file.num
           m == Less(l, n, k + 1)
           q == Closed(l, pos, n, k + 1)
           v == Cut(file, k)
           o == Offset(file, k)
           x == [file |-> file, from |-> At(file, o).next, to |-> o]
           s == CHOOSE f : Moves(f, n - k - 1, x)
           u == [s[n - k - 1].file EXCEPT !.num = n - 1, !.posts = file.posts - 1, !.end = s[n - k - 1].to]
<1>1. v = Trimmed(u)
  BY DEF Cut, Moves
<1>2. Moves(s, n - (k + 1), x) /\ n - k - 1 = n - (k + 1)
  <2>1. n - k - 1 = n - (k + 1) /\ n - k - 1 \in Nat
    BY DEF Holds, Placed
  <2> HIDE DEF x, n
  <2>2. \E f : Moves(f, n - k - 1, x)
    BY <2>1, MovesExist
  <2> QED BY <2>1, <2>2
<1>3. /\ file \in File /\ n \in Nat /\ Laid(file.at, l, pos, n) /\ file.end = pos[n] /\ Placed(l, pos, n)
      /\ file.posts \in Nat \ {0}
  BY DEF Holds, Placed, File
<1>4. o = pos[k] /\ x = [file |-> file, from |-> pos[k + 1], to |-> pos[k]]
  <2>1. k \in 0 .. n
    BY <1>3
  <2>2. o = pos[k]
    BY <2>1, OffsetIs
  <2>3. At(file, pos[k]) = [next |-> pos[k + 1], length |-> l[k + 1]]
    BY AtPlace
  <2> QED BY <2>2, <2>3
<1> HIDE DEF n, v, s, x, o
<1>5. k + 1 \in 1 .. n /\ (k + 1) - 1 = k /\ k \in 0 .. n /\ n - 1 \in Nat /\ n - 1 \in 0 .. n - 1 /\ k \in Nat
      /\ k < n
  BY <1>3 DEF n
<1>6. Placed(m, q, n - 1) /\ \A j \in 0 .. k : q[j] = pos[j]
  <2>1. Placed(m, q, n - 1) /\ \A j \in 0 .. (k + 1) - 1 : q[j] = pos[j]
    BY <1>3, <1>5, ClosedIs
  <2> QED BY <1>5, <2>1
<1>7. Laid(file.at, m, q, k)
  <2>1. Laid(file.at, l, pos, k)
    BY <1>3, <1>5, LaidBefore
  <2>2. \A j \in 1 .. k : m[j] = l[j]
    <3>1. l \in [1 .. n -> Post]
      BY <1>3 DEF Placed
    <3>2. \A j \in 1 .. n - 1 : m[j] = IF j < k + 1 THEN l[j] ELSE l[j + 1]
      BY <1>3, <1>5, <3>1, LessIs
    <3>3. \A j \in 1 .. k : j \in 1 .. n - 1 /\ j < k + 1
      <4>1. k < n
        BY <1>5
      <4> QED BY <1>3, <1>5, <4>1
    <3> HIDE DEF m
    <3> QED BY <3>2, <3>3
  <2> HIDE DEF m, q
  <2> QED BY <1>5, <1>6, <2>1, <2>2, LaidSame
<1>8. Waiting(file.at, l, pos, k + 1, n)
  <2>1. \A i \in k + 1 .. n - 1 : i \in 0 .. n - 1
    BY <1>3, <1>5
  <2> QED BY <1>3, <2>1 DEF Waiting, Laid
<1>9. q[k] = pos[k]
  BY <1>5, <1>6
<1>10. /\ s[n - (k + 1)].file \in File /\ s[n - (k + 1)].file.num = n /\ s[n - (k + 1)].file.posts = file.posts
       /\ Laid(s[n - (k + 1)].file.at, m, q, n - 1) /\ s[n - (k + 1)].to = q[n - 1]
  <2>1. /\ m = Less(l, n, k + 1) /\ q = Closed(l, pos, n, k + 1)
        /\ file \in File /\ Placed(l, pos, n) /\ k + 1 \in 1 .. n
        /\ Laid(file.at, m, q, (k + 1) - 1) /\ Waiting(file.at, l, pos, k + 1, n)
    BY <1>3, <1>5, <1>7, <1>8
  <2>2. Moves(s, n - (k + 1), [file |-> file, from |-> pos[k + 1], to |-> q[(k + 1) - 1]])
    BY <1>2, <1>4, <1>5, <1>9
  <2> HIDE DEF m, q
  <2>3. /\ s[n - (k + 1)].file \in File /\ s[n - (k + 1)].file.num = file.num
        /\ s[n - (k + 1)].file.posts = file.posts
        /\ Laid(s[n - (k + 1)].file.at, m, q, n - 1) /\ s[n - (k + 1)].to = q[n - 1]
    BY <2>1, <2>2, MovesLay
  <2> QED BY <2>3 DEF n
<1> HIDE DEF m, q
<1>11. /\ u \in File /\ u.num = n - 1 /\ u.posts = file.posts - 1 /\ u.end = q[n - 1]
       /\ Laid(u.at, m, q, n - 1)
  <2>1. q[n - 1] \in Nat /\ file.posts - 1 \in Nat
    BY <1>3, <1>5, <1>6 DEF Placed
  <2>2. s[n - k - 1] = s[n - (k + 1)]
    BY <1>2
  <2> QED BY <1>5, <1>10, <2>1, <2>2 DEF File
<1> HIDE DEF u
<1>12. v \in File /\ v.num = n - 1 /\ v.posts = file.posts - 1 /\ v.end = q[n - 1] /\ Laid(v.at, m, q, n - 1)
  <2>1. n - 1 \in 0 .. n - 1 /\ q[n - 1] = u.end
    BY <1>5, <1>11
  <2> QED BY <1>1, <1>6, <1>11, <2>1, TrimmedIs
<1>13. Holds(v, m, q)
  BY <1>6, <1>12 DEF Holds
<1> QED BY <1>12, <1>13 DEF v, m, n

-----------------------------------------------------------------------------
(* Files of threads. *)

Cell  == [prev: Link, next: Link, free: BOOLEAN, posts: Nat]
Files == UNION {[S -> File] : S \in SUBSET Slots}
Dir   == [num: Nat, used: Link, free: Link, next: 0 .. MaxSlots, threads: Nat,
          slot: [Slots -> Cell], file: Files]

\* A list of n slots, its members, and its k-th, if there is one.
List(l, n)    == n \in Nat /\ l \in [1 .. n -> Slots] /\ \A i, k \in 1 .. n : l[i] = l[k] => i = k
Members(l, n) == {l[k] : k \in 1 .. n}
Item(l, n, k) == IF k \in 1 .. n THEN l[k] ELSE -1

\* The slots spell out the list l of n threads, both ways, and the list r of
\* m free slots.
Linked(slot, l, n) == \A k \in 1 .. n :
  slot[l[k]].next = Item(l, n, k + 1) /\ slot[l[k]].prev = Item(l, n, k - 1) /\ ~slot[l[k]].free
Freed(slot, r, m) == \A k \in 1 .. m : slot[r[k]].next = Item(r, m, k + 1) /\ slot[r[k]].free

Listed(d, l, r) == LET n == d.num m == d.next - d.num IN
  /\ d \in Dir /\ d.threads = d.num
  /\ List(l, n) /\ Linked(d.slot, l, n) /\ d.used = Item(l, n, 1)
  /\ List(r, m) /\ Freed(d.slot, r, m) /\ d.free = Item(r, m, 1)
  /\ Members(l, n) \cup Members(r, m) = 0 .. d.next - 1
  /\ DOMAIN d.file = Members(l, n)

LEMMA SlotsAre == -1 \notin Slots /\ Slots \subseteq Nat /\ Slots \subseteq Link /\ -1 \in Link
BY ForumConstants DEF Slots, Link

\* The links of the slots lead along the list.
Leading(slot, l, n) == \A i \in 1 .. n : slot[l[i]].next = Item(l, n, i + 1)

LEMMA FollowingIs ==
  ASSUME NEW d, NEW l, NEW n, List(l, n), Leading(d.slot, l, n), NEW k \in 0 .. n
  PROVE  Following(d, Item(l, n, 1), k) = Item(l, n, k + 1)
<1> DEFINE t == Item(l, n, 1)
           is(s) == s = [i \in 0 .. k |-> IF i = 0 THEN t ELSE IF s[i - 1] = -1 THEN -1 ELSE d.slot[s[i - 1]].next]
           met == [i \in 0 .. k |-> Item(l, n, i + 1)]
           at == CHOOSE s : is(s)
           S == {i \in 0 .. k : at[i] = Item(l, n, i + 1)}
<1>1. n \in Nat /\ k \in Nat
  BY DEF List
<1>2. ASSUME NEW i \in 1 .. k
      PROVE  /\ i - 1 \in 0 .. k /\ i \in 1 .. n /\ (i - 1) + 1 = i
             /\ Item(l, n, i) # -1 /\ d.slot[Item(l, n, i)].next = Item(l, n, i + 1)
  <2>1. i - 1 \in 0 .. k /\ i \in 1 .. n /\ (i - 1) + 1 = i
    BY <1>1
  <2>2. Item(l, n, i) = l[i] /\ l[i] \in Slots
    BY <2>1 DEF Item, List
  <2>3. d.slot[l[i]].next = Item(l, n, i + 1)
    BY <2>1 DEF Leading
  <2> QED BY <2>1, <2>2, <2>3, SlotsAre
<1>3. is(met)
  <2>1. ASSUME NEW i \in 0 .. k, i # 0
        PROVE  met[i] = IF met[i - 1] = -1 THEN -1 ELSE d.slot[met[i - 1]].next
    <3>1. i \in 1 .. k
      BY <1>1, <2>1
    <3>2. met[i - 1] = Item(l, n, i) /\ met[i] = Item(l, n, i + 1)
      BY <1>2, <3>1
    <3> QED BY <1>2, <3>1, <3>2
  <2>2. met[0] = t
    BY <1>1
  <2>3. met = [i \in 0 .. k |-> met[i]]
    OBVIOUS
  <2> HIDE DEF met, t
  <2> QED BY <2>1, <2>2, <2>3
<1>4. is(at)
  <2> HIDE DEF met
  <2> QED BY <1>3
<1>5. Following(d, t, k) = at[k]
  BY DEF Following
<1> HIDE DEF at
<1>6. 0 \in S
  <2>1. 0 \in 0 .. k
    BY <1>1
  <2> QED BY <1>4, <2>1
<1>7. ASSUME NEW i \in 0 .. k - 1, i \in S PROVE i + 1 \in S
  <2>1. i + 1 \in 1 .. k /\ (i + 1) - 1 = i /\ i + 1 # 0 /\ i + 1 \in 0 .. k
    BY <1>1
  <2>2. at[i + 1] = IF at[i] = -1 THEN -1 ELSE d.slot[at[i]].next
    BY <1>4, <2>1
  <2>3. at[i] = Item(l, n, i + 1)
    BY <1>7
  <2>4. Item(l, n, i + 1) # -1 /\ d.slot[Item(l, n, i + 1)].next = Item(l, n, (i + 1) + 1)
    BY <1>2, <2>1
  <2> QED BY <2>1, <2>2, <2>3, <2>4
<1> HIDE DEF S
<1>8. k \in S
  <2>1. \A i \in 0 .. k : i \in S
    BY <1>1, <1>6, <1>7, CountUp
  <2> QED BY <1>1, <2>1
<1> QED BY <1>5, <1>8 DEF S

\* The walks over the links find the lists.
LEMMA ThreadsAre ==
  ASSUME NEW d, NEW l, NEW r, Listed(d, l, r)
  PROVE  ListThreads(d) = l /\ Nth(d, d.num) = -1
<1> DEFINE n == d.num
<1>1. n \in Nat /\ List(l, n) /\ Linked(d.slot, l, n) /\ d.used = Item(l, n, 1) /\ l \in [1 .. n -> Slots]
  BY DEF Listed, List
<1> HIDE DEF n
<1>2. Leading(d.slot, l, n)
  BY <1>1 DEF Linked, Leading
<1>3. ASSUME NEW k \in 0 .. n PROVE Nth(d, k) = Item(l, n, k + 1)
  <2>1. Following(d, Item(l, n, 1), k) = Item(l, n, k + 1)
    BY <1>1, <1>2, FollowingIs
  <2> QED BY <1>1, <2>1 DEF Nth
<1>4. ASSUME NEW k \in 1 .. n PROVE Nth(d, k - 1) = l[k]
  <2>1. k - 1 \in 0 .. n /\ (k - 1) + 1 = k
    BY <1>1
  <2>2. Nth(d, k - 1) = Item(l, n, k)
    BY <1>3, <2>1
  <2> QED BY <2>2 DEF Item
<1>5. Nth(d, n) = -1
  <2>1. n \in 0 .. n /\ n + 1 \notin 1 .. n
    BY <1>1
  <2> QED BY <1>3, <2>1 DEF Item
<1> QED BY <1>1, <1>4, <1>5 DEF ListThreads, n

LEMMA FreeSlotsAre ==
  ASSUME NEW d, NEW l, NEW r, Listed(d, l, r)
  PROVE  LET m == d.next - d.num IN
         {FreeSlot(d, k) : k \in 0 .. d.next - d.num - 1} = Members(r, m) /\ FreeSlot(d, m) = -1
<1> DEFINE m == d.next - d.num
<1>1. m \in Nat /\ List(r, m) /\ Freed(d.slot, r, m) /\ d.free = Item(r, m, 1)
  BY DEF Listed, List
<1> HIDE DEF m
<1>2. Leading(d.slot, r, m)
  BY <1>1 DEF Freed, Leading
<1>3. ASSUME NEW k \in 0 .. m PROVE FreeSlot(d, k) = Item(r, m, k + 1)
  <2>1. Following(d, Item(r, m, 1), k) = Item(r, m, k + 1)
    BY <1>1, <1>2, FollowingIs
  <2> QED BY <1>1, <2>1 DEF FreeSlot
<1>4. ASSUME NEW k \in 1 .. m PROVE k - 1 \in 0 .. m - 1 /\ FreeSlot(d, k - 1) = r[k]
  <2>1. k - 1 \in 0 .. m /\ (k - 1) + 1 = k /\ k - 1 \in 0 .. m - 1
    BY <1>1
  <2>2. FreeSlot(d, k - 1) = Item(r, m, k)
    BY <1>3, <2>1
  <2> QED BY <2>1, <2>2 DEF Item
<1>5. ASSUME NEW k \in 0 .. m - 1 PROVE k + 1 \in 1 .. m /\ FreeSlot(d, k) = r[k + 1]
  <2>1. k + 1 \in 1 .. m /\ k \in 0 .. m
    BY <1>1
  <2> QED BY <1>3, <2>1 DEF Item
<1>6. FreeSlot(d, m) = -1
  <2>1. m \in 0 .. m /\ m + 1 \notin 1 .. m
    BY <1>1
  <2> QED BY <1>3, <2>1 DEF Item
<1>7. {FreeSlot(d, k) : k \in 0 .. m - 1} = Members(r, m)
  BY <1>4, <1>5 DEF Members
<1> QED BY <1>6, <1>7 DEF m

(* A member is taken out of a list, or put in front of it.                  *)

LEMMA ItemIs ==
  ASSUME NEW l, NEW n, List(l, n), NEW i \in 1 .. n, NEW k \in Nat
  PROVE  Item(l, n, i) = l[i] /\ l[i] \in Slots /\ (l[i] = Item(l, n, k) <=> i = k)
<1>1. Item(l, n, i) = l[i] /\ l[i] \in Slots
  BY DEF Item, List
<1>2. CASE k \in 1 .. n
  BY <1>1, <1>2 DEF Item, List
<1>3. CASE k \notin 1 .. n
  <2>1. Item(l, n, k) = -1 /\ i # k
    BY <1>3 DEF Item
  <2> QED BY <1>1, <2>1, SlotsAre
<1> QED BY <1>1, <1>2, <1>3

LEMMA ItemIn ==
  ASSUME NEW l, NEW n, List(l, n), NEW k
  PROVE  Item(l, n, k) \in Link
BY SlotsAre DEF Item, List

LEMMA LessList ==
  ASSUME NEW l, NEW n, List(l, n), NEW k \in 1 .. n
  PROVE  /\ List(Less(l, n, k), n - 1)
         /\ Members(Less(l, n, k), n - 1) = Members(l, n) \ {l[k]}
         /\ l[k] \in Members(l, n) /\ l[k] \in Slots
<1> DEFINE m == Less(l, n, k)
           j(i) == IF i < k THEN i ELSE i + 1
<1>1. n \in Nat /\ l \in [1 .. n -> Slots] /\ \A i, h \in 1 .. n : l[i] = l[h] => i = h
  BY DEF List
<1>2. \A i \in 1 .. n - 1 : m[i] = IF i < k THEN l[i] ELSE l[i + 1]
  BY <1>1, LessIs
<1>3. m \in [1 .. n - 1 -> Slots]
  BY <1>1, LessIs
<1> HIDE DEF m
<1>4. \A i \in 1 .. n - 1 : m[i] = l[j(i)] /\ j(i) \in 1 .. n /\ j(i) # k
  BY <1>1, <1>2
<1>5. ASSUME NEW i \in 1 .. n - 1, NEW h \in 1 .. n - 1, m[i] = m[h] PROVE i = h
  <2>1. j(i) = j(h)
    <3> HIDE DEF j
    <3> QED BY <1>1, <1>4, <1>5
  <2> QED BY <1>1, <2>1
<1>6. List(m, n - 1)
  <2>1. n - 1 \in Nat
    BY <1>1
  <2> QED BY <1>3, <1>5, <2>1 DEF List
<1>7. ASSUME NEW i \in 1 .. n, i # k PROVE \E h \in 1 .. n - 1 : m[h] = l[i]
  <2>1. CASE i < k
    <3>1. i \in 1 .. n - 1
      BY <1>1, <2>1
    <3> QED BY <1>2, <2>1, <3>1
  <2>2. CASE ~(i < k)
    <3>1. i - 1 \in 1 .. n - 1 /\ ~(i - 1 < k) /\ (i - 1) + 1 = i
      BY <1>1, <1>7, <2>2
    <3> QED BY <1>2, <3>1
  <2> QED BY <2>1, <2>2
<1>8. \A i \in 1 .. n - 1 : \E h \in 1 .. n : m[i] = l[h] /\ h # k
  <2> HIDE DEF j
  <2> QED BY <1>4
<1>9. \A h \in 1 .. n : h # k => l[h] # l[k]
  BY <1>1
<1>10. Members(m, n - 1) = Members(l, n) \ {l[k]}
  <2>1. ASSUME NEW x \in Members(m, n - 1) PROVE x \in Members(l, n) \ {l[k]}
    BY <1>8, <1>9 DEF Members
  <2>2. ASSUME NEW x \in Members(l, n) \ {l[k]} PROVE x \in Members(m, n - 1)
    <3>1. PICK i \in 1 .. n : x = l[i] /\ i # k
      BY DEF Members
    <3>2. PICK h \in 1 .. n - 1 : m[h] = l[i]
      BY <1>7, <3>1
    <3> QED BY <3>1, <3>2 DEF Members
  <2> QED BY <2>1, <2>2
<1>11. l[k] \in Members(l, n) /\ l[k] \in Slots
  BY <1>1 DEF Members
<1> QED BY <1>6, <1>10, <1>11 DEF m

LEMMA LessItem ==
  ASSUME NEW l, NEW n, List(l, n), NEW k \in 1 .. n, NEW i \in 0 .. n
  PROVE  Item(Less(l, n, k), n - 1, i) = IF i < k THEN Item(l, n, i) ELSE Item(l, n, i + 1)
<1>1. n \in Nat /\ l \in [1 .. n -> Slots]
  BY DEF List
<1>2. \A h \in 1 .. n - 1 : Less(l, n, k)[h] = IF h < k THEN l[h] ELSE l[h + 1]
  BY <1>1, LessIs
<1>3. CASE i \in 1 .. n - 1
  <2>1. i \in 1 .. n /\ i + 1 \in 1 .. n
    BY <1>1, <1>3
  <2> QED BY <1>2, <1>3, <2>1 DEF Item
<1>4. CASE i = 0
  <2>1. i \notin 1 .. n - 1 /\ i \notin 1 .. n /\ i < k
    BY <1>1, <1>4
  <2> QED BY <2>1 DEF Item
<1>5. CASE i = n
  <2>1. i \notin 1 .. n - 1 /\ i + 1 \notin 1 .. n /\ ~(i < k)
    BY <1>1, <1>5
  <2> QED BY <2>1 DEF Item
<1>6. i \in 1 .. n - 1 \/ i = 0 \/ i = n
  BY <1>1
<1> QED BY <1>3, <1>4, <1>5, <1>6

LEMMA FrontList ==
  ASSUME NEW l, NEW n, List(l, n), NEW t \in Slots, t \notin Members(l, n)
  PROVE  /\ List(InFront(t, l, n), n + 1)
         /\ Members(InFront(t, l, n), n + 1) = Members(l, n) \cup {t}
<1> DEFINE m == InFront(t, l, n)
<1>1. n \in Nat /\ l \in [1 .. n -> Slots] /\ \A i, h \in 1 .. n : l[i] = l[h] => i = h
  BY DEF List
<1>2. \A i \in 1 .. n + 1 : i # 1 => i - 1 \in 1 .. n
  BY <1>1
<1>3. m \in [1 .. n + 1 -> Slots] /\ \A i \in 1 .. n + 1 : m[i] = IF i = 1 THEN t ELSE l[i - 1]
  BY <1>1, <1>2 DEF InFront
<1> HIDE DEF m
<1>4. \A i \in 1 .. n : l[i] # t
  BY DEF Members
<1>5. ASSUME NEW i \in 1 .. n + 1, NEW h \in 1 .. n + 1, m[i] = m[h] PROVE i = h
  <2>1. CASE i = 1 \/ h = 1
    BY <1>2, <1>3, <1>4, <1>5, <2>1
  <2>2. CASE i # 1 /\ h # 1
    <3>1. l[i - 1] = l[h - 1] /\ i - 1 \in 1 .. n /\ h - 1 \in 1 .. n
      BY <1>2, <1>3, <1>5, <2>2
    <3>2. i - 1 = h - 1
      BY <1>1, <3>1
    <3> QED BY <3>2
  <2> QED BY <2>1, <2>2
<1>6. List(m, n + 1)
  <2>1. n + 1 \in Nat
    BY <1>1
  <2> QED BY <1>3, <1>5, <2>1 DEF List
<1>7. 1 \in 1 .. n + 1 /\ \A i \in 1 .. n : i + 1 \in 1 .. n + 1 /\ i + 1 # 1 /\ (i + 1) - 1 = i
  BY <1>1
<1>8. m[1] = t /\ \A i \in 1 .. n : m[i + 1] = l[i]
  BY <1>3, <1>7
<1>9. Members(m, n + 1) = Members(l, n) \cup {t}
  <2>1. ASSUME NEW x \in Members(m, n + 1) PROVE x \in Members(l, n) \cup {t}
    <3>1. PICK i \in 1 .. n + 1 : x = m[i]
      BY DEF Members
    <3> QED BY <1>2, <1>3, <3>1 DEF Members
  <2>2. ASSUME NEW x \in Members(l, n) \cup {t} PROVE x \in Members(m, n + 1)
    <3>1. CASE x = t
      BY <1>7, <1>8, <3>1 DEF Members
    <3>2. CASE x # t
      <4>1. PICK i \in 1 .. n : x = l[i]
        BY <3>2 DEF Members
      <4> QED BY <1>7, <1>8, <4>1 DEF Members
    <3> QED BY <3>1, <3>2
  <2> QED BY <2>1, <2>2
<1> QED BY <1>6, <1>9 DEF m

LEMMA FrontItem ==
  ASSUME NEW l, NEW n, List(l, n), NEW t, NEW i \in 0 .. n + 2
  PROVE  Item(InFront(t, l, n), n + 1, i) = IF i = 1 THEN t ELSE Item(l, n, i - 1)
<1>1. n \in Nat
  BY DEF List
<1>2. \A h \in 1 .. n + 1 : InFront(t, l, n)[h] = IF h = 1 THEN t ELSE l[h - 1]
  BY DEF InFront
<1>3. CASE i \in 1 .. n + 1 /\ i # 1
  <2>1. i - 1 \in 1 .. n
    BY <1>1, <1>3
  <2> QED BY <1>2, <1>3, <2>1 DEF Item
<1>4. CASE i = 1
  <2>1. i \in 1 .. n + 1
    BY <1>1, <1>4
  <2> QED BY <1>2, <1>4, <2>1 DEF Item
<1>5. CASE i \notin 1 .. n + 1
  <2>1. i - 1 \notin 1 .. n /\ i # 1
    BY <1>1, <1>5
  <2> QED BY <1>5, <2>1 DEF Item
<1> QED BY <1>3, <1>4, <1>5

LEMMA PrevIs ==
  ASSUME NEW slot \in [Slots -> Cell], NEW t \in Link, NEW to \in Link
  PROVE  /\ Prev(slot, t, to) \in [Slots -> Cell]
         /\ \A x \in Slots : /\ Prev(slot, t, to)[x].prev = IF x = t THEN to ELSE slot[x].prev
                             /\ Prev(slot, t, to)[x].next = slot[x].next
                             /\ Prev(slot, t, to)[x].free = slot[x].free
                             /\ Prev(slot, t, to)[x].posts = slot[x].posts
                             /\ x # t => Prev(slot, t, to)[x] = slot[x]
<1>1. CASE t = -1
  BY <1>1, SlotsAre DEF Prev
<1>2. CASE t # -1
  <2>1. t \in Slots
    BY <1>2 DEF Link
  <2> QED BY <1>2, <2>1 DEF Prev, Cell
<1> QED BY <1>1, <1>2

LEMMA OnwardIs ==
  ASSUME NEW slot \in [Slots -> Cell], NEW t \in Link, NEW to \in Link
  PROVE  /\ Onward(slot, t, to) \in [Slots -> Cell]
         /\ \A x \in Slots : /\ Onward(slot, t, to)[x].next = IF x = t THEN to ELSE slot[x].next
                             /\ Onward(slot, t, to)[x].prev = slot[x].prev
                             /\ Onward(slot, t, to)[x].free = slot[x].free
                             /\ Onward(slot, t, to)[x].posts = slot[x].posts
                             /\ x # t => Onward(slot, t, to)[x] = slot[x]
<1>1. CASE t = -1
  BY <1>1, SlotsAre DEF Onward
<1>2. CASE t # -1
  <2>1. t \in Slots
    BY <1>2 DEF Link
  <2> QED BY <1>2, <2>1 DEF Onward, Cell
<1> QED BY <1>1, <1>2

\* The slot on either side of the k-th is linked to the other one.
Pulled(slot, l, n, k) ==
  Prev(Onward(slot, Item(l, n, k - 1), Item(l, n, k + 1)), Item(l, n, k + 1), Item(l, n, k - 1))

LEMMA PulledKeeps ==
  ASSUME NEW slot \in [Slots -> Cell], NEW l, NEW n, List(l, n), NEW k \in 1 .. n
  PROVE  LET v == Pulled(slot, l, n, k) a == Item(l, n, k - 1) b == Item(l, n, k + 1) IN
         /\ v \in [Slots -> Cell]
         /\ \A x \in Slots : /\ v[x].next = IF x = a THEN b ELSE slot[x].next
                             /\ v[x].prev = IF x = b THEN a ELSE slot[x].prev
                             /\ v[x].free = slot[x].free
                             /\ v[x].posts = slot[x].posts
                             /\ (x # a /\ x # b) => v[x] = slot[x]
<1> DEFINE v == Pulled(slot, l, n, k)
           a == Item(l, n, k - 1)
           b == Item(l, n, k + 1)
           u == Onward(slot, a, b)
<1>1. a \in Link /\ b \in Link
  BY ItemIn
<1>2. v = Prev(u, b, a)
  BY DEF Pulled
<1> HIDE DEF v, a, b
<1>3. /\ u \in [Slots -> Cell]
      /\ \A x \in Slots : /\ u[x].next = IF x = a THEN b ELSE slot[x].next
                          /\ u[x].prev = slot[x].prev
                          /\ u[x].free = slot[x].free
                          /\ u[x].posts = slot[x].posts
                          /\ x # a => u[x] = slot[x]
  BY <1>1, OnwardIs
<1> HIDE DEF u
<1>4. /\ v \in [Slots -> Cell]
      /\ \A x \in Slots : /\ v[x].prev = IF x = b THEN a ELSE u[x].prev
                          /\ v[x].next = u[x].next
                          /\ v[x].free = u[x].free
                          /\ v[x].posts = u[x].posts
                          /\ x # b => v[x] = u[x]
  BY <1>1, <1>2, <1>3, PrevIs
<1> QED BY <1>3, <1>4 DEF v, a, b

LEMMA PulledSpares ==
  ASSUME NEW slot \in [Slots -> Cell], NEW l, NEW n, List(l, n), NEW k \in 1 .. n,
         NEW x \in Slots, x \notin Members(l, n) \/ x = l[k]
  PROVE  Pulled(slot, l, n, k)[x] = slot[x]
<1> DEFINE a == Item(l, n, k - 1)
           b == Item(l, n, k + 1)
<1>1. n \in Nat /\ k - 1 \in Nat /\ k + 1 \in Nat /\ k # k - 1 /\ k # k + 1
  BY DEF List
<1>2. l[k] # a /\ l[k] # b
  BY <1>1, ItemIs
<1>3. x \notin Members(l, n) => x # a /\ x # b
  BY SlotsAre DEF Item, Members
<1>4. (x # a /\ x # b) => Pulled(slot, l, n, k)[x] = slot[x]
  BY PulledKeeps
<1> QED BY <1>2, <1>3, <1>4

\* The slots other than the k-th are linked as the list l says.
LinkedBut(slot, l, n, k) == \A i \in 1 .. n : i # k =>
  slot[l[i]].next = Item(l, n, i + 1) /\ slot[l[i]].prev = Item(l, n, i - 1) /\ ~slot[l[i]].free

LEMMA PulledLinks ==
  ASSUME NEW slot \in [Slots -> Cell], NEW l, NEW n, List(l, n), NEW k \in 1 .. n, LinkedBut(slot, l, n, k)
  PROVE  Linked(Pulled(slot, l, n, k), Less(l, n, k), n - 1)
<1> DEFINE v == Pulled(slot, l, n, k)
           m == Less(l, n, k)
           a == Item(l, n, k - 1)
           b == Item(l, n, k + 1)
<1>1. /\ \A x \in Slots : v[x].next = IF x = a THEN b ELSE slot[x].next
      /\ \A x \in Slots : v[x].prev = IF x = b THEN a ELSE slot[x].prev
      /\ \A x \in Slots : v[x].free = slot[x].free
  BY PulledKeeps
<1>2. n \in Nat /\ k - 1 \in Nat /\ k + 1 \in Nat
  BY DEF List
<1>3. \A i \in 1 .. n : l[i] \in Slots /\ (l[i] = a <=> i = k - 1) /\ (l[i] = b <=> i = k + 1)
  BY <1>2, ItemIs
<1>4. ASSUME NEW i \in 1 .. n, i # k
      PROVE  /\ v[l[i]].next = IF i = k - 1 THEN b ELSE Item(l, n, i + 1)
             /\ v[l[i]].prev = IF i = k + 1 THEN a ELSE Item(l, n, i - 1)
             /\ ~v[l[i]].free
  <2>1. slot[l[i]].next = Item(l, n, i + 1) /\ slot[l[i]].prev = Item(l, n, i - 1) /\ ~slot[l[i]].free
    BY <1>4 DEF LinkedBut
  <2> HIDE DEF v, a, b
  <2> QED BY <1>1, <1>3, <2>1
<1>5. \A i \in 0 .. n : Item(m, n - 1, i) = IF i < k THEN Item(l, n, i) ELSE Item(l, n, i + 1)
  BY LessItem
<1>6. \A i \in 1 .. n - 1 : m[i] = IF i < k THEN l[i] ELSE l[i + 1]
  <2>1. l \in [1 .. n -> Slots]
    BY DEF List
  <2> QED BY <1>2, <2>1, LessIs
<1> HIDE DEF v, m
<1>7. ASSUME NEW i \in 1 .. n - 1
      PROVE  v[m[i]].next = Item(m, n - 1, i + 1) /\ v[m[i]].prev = Item(m, n - 1, i - 1) /\ ~v[m[i]].free
  <2>1. i \in 1 .. n /\ i + 1 \in 1 .. n /\ i + 1 \in 0 .. n /\ i - 1 \in 0 .. n /\ (i - 1) + 1 = i /\ (i + 1) - 1 = i
    BY <1>2
  <2>2. CASE i < k
    <3>1. i # k /\ i # k + 1 /\ i - 1 < k /\ m[i] = l[i]
      BY <1>6, <2>1, <2>2
    <3>2. Item(m, n - 1, i - 1) = Item(l, n, i - 1)
      BY <1>5, <2>1, <3>1
    <3>3. v[m[i]].prev = Item(l, n, i - 1) /\ ~v[m[i]].free
      BY <1>4, <2>1, <3>1
    <3>4. CASE i = k - 1
      <4>1. ~(i + 1 < k) /\ (i + 1) + 1 = k + 1
        BY <1>2, <3>4
      <4>2. Item(m, n - 1, i + 1) = b
        BY <1>5, <2>1, <4>1
      <4>3. v[m[i]].next = b
        BY <1>4, <2>1, <3>1, <3>4
      <4> QED BY <3>2, <3>3, <4>2, <4>3
    <3>5. CASE i # k - 1
      <4>1. i + 1 < k
        BY <1>2, <2>2, <3>5
      <4>2. Item(m, n - 1, i + 1) = Item(l, n, i + 1)
        BY <1>5, <2>1, <4>1
      <4>3. v[m[i]].next = Item(l, n, i + 1)
        BY <1>4, <2>1, <3>1, <3>5
      <4> QED BY <3>2, <3>3, <4>2, <4>3
    <3> QED BY <3>4, <3>5
  <2>3. CASE ~(i < k)
    <3>1. i + 1 # k /\ i + 1 # k - 1 /\ m[i] = l[i + 1] /\ ~(i + 1 < k)
      BY <1>6, <2>1, <2>3
    <3>2. Item(m, n - 1, i + 1) = Item(l, n, (i + 1) + 1)
      BY <1>5, <2>1, <3>1
    <3>3. v[m[i]].next = Item(l, n, (i + 1) + 1) /\ ~v[m[i]].free
      BY <1>4, <2>1, <3>1
    <3>4. CASE i = k
      <4>1. i + 1 = k + 1 /\ i - 1 < k /\ i - 1 = k - 1
        BY <3>4
      <4>2. Item(m, n - 1, i - 1) = a
        BY <1>5, <2>1, <4>1
      <4>3. v[m[i]].prev = a
        BY <1>4, <2>1, <3>1, <4>1
      <4> QED BY <3>2, <3>3, <4>2, <4>3
    <3>5. CASE i # k
      <4>1. ~(i - 1 < k) /\ i + 1 # k + 1
        BY <1>2, <2>3, <3>5
      <4>2. Item(m, n - 1, i - 1) = Item(l, n, i)
        BY <1>5, <2>1, <4>1
      <4>3. v[m[i]].prev = Item(l, n, i)
        BY <1>4, <2>1, <3>1, <4>1
      <4> QED BY <3>2, <3>3, <4>2, <4>3
    <3> QED BY <3>4, <3>5
  <2> QED BY <2>2, <2>3
<1>8. Linked(v, m, n - 1)
  BY <1>7 DEF Linked
<1> QED BY <1>8 DEF v, m

LEMMA PushedLinks ==
  ASSUME NEW slot \in [Slots -> Cell], NEW l, NEW n, List(l, n), Linked(slot, l, n),
         NEW t \in Slots, t \notin Members(l, n),
         slot[t].prev = -1, slot[t].next = Item(l, n, 1), ~slot[t].free
  PROVE  Linked(Prev(slot, Item(l, n, 1), t), InFront(t, l, n), n + 1)
<1> DEFINE b == Item(l, n, 1)
           v == Prev(slot, b, t)
           m == InFront(t, l, n)
<1>1. n \in Nat /\ 1 \in Nat
  BY DEF List
<1>2. b \in Link /\ t \in Link
  BY ItemIn, SlotsAre
<1>3. /\ \A x \in Slots : v[x].next = slot[x].next
      /\ \A x \in Slots : v[x].prev = IF x = b THEN t ELSE slot[x].prev
      /\ \A x \in Slots : v[x].free = slot[x].free
  <2> HIDE DEF b
  <2> QED BY <1>2, PrevIs
<1>4. \A i \in 1 .. n : l[i] \in Slots /\ (l[i] = b <=> i = 1)
  BY <1>1, ItemIs
<1>5. t # b
  BY SlotsAre DEF Item, Members
<1>6. \A i \in 0 .. n + 2 : Item(m, n + 1, i) = IF i = 1 THEN t ELSE Item(l, n, i - 1)
  BY FrontItem
<1>7. \A i \in 1 .. n + 1 : m[i] = IF i = 1 THEN t ELSE l[i - 1]
  BY DEF InFront
<1> HIDE DEF v, m
<1>8. ASSUME NEW i \in 1 .. n + 1
      PROVE  v[m[i]].next = Item(m, n + 1, i + 1) /\ v[m[i]].prev = Item(m, n + 1, i - 1) /\ ~v[m[i]].free
  <2>1. i + 1 \in 0 .. n + 2 /\ i - 1 \in 0 .. n + 2 /\ i + 1 # 1 /\ (i + 1) - 1 = i
    BY <1>1
  <2>2. Item(m, n + 1, i + 1) = Item(l, n, i)
    BY <1>6, <2>1
  <2>3. CASE i = 1
    <3>1. m[i] = t
      BY <1>7, <2>3
    <3>2. Item(m, n + 1, i - 1) = Item(l, n, -1) /\ Item(l, n, -1) = -1
      <4>1. i - 1 # 1 /\ (i - 1) - 1 = -1 /\ -1 \notin 1 .. n
        BY <1>1, <2>3
      <4> QED BY <1>6, <2>1, <4>1 DEF Item
    <3>3. v[t].next = b /\ v[t].prev = -1 /\ ~v[t].free
      <4> HIDE DEF b
      <4> QED BY <1>3, <1>5 DEF b
    <3> QED BY <2>2, <2>3, <3>1, <3>2, <3>3
  <2>4. CASE i # 1
    <3>1. i - 1 \in 1 .. n /\ m[i] = l[i - 1] /\ (i - 1) + 1 = i
      BY <1>1, <1>7, <2>4
    <3>2. /\ slot[l[i - 1]].next = Item(l, n, i) /\ slot[l[i - 1]].prev = Item(l, n, (i - 1) - 1)
          /\ ~slot[l[i - 1]].free
      BY <3>1 DEF Linked
    <3>3. v[m[i]].next = Item(l, n, i) /\ ~v[m[i]].free
      BY <1>3, <1>4, <3>1, <3>2
    <3>4. v[m[i]].prev = Item(m, n + 1, i - 1)
      <4>1. CASE i = 2
        <5>1. v[m[i]].prev = t
          BY <1>3, <1>4, <3>1, <4>1
        <5>2. i - 1 = 1
          BY <4>1
        <5> QED BY <1>6, <2>1, <5>1, <5>2
      <4>2. CASE i # 2
        <5>1. i - 1 # 1
          BY <1>1, <4>2
        <5>2. v[m[i]].prev = Item(l, n, (i - 1) - 1)
          BY <1>3, <1>4, <3>1, <3>2, <5>1
        <5> QED BY <1>6, <2>1, <5>1, <5>2
      <4> QED BY <4>1, <4>2
    <3> QED BY <2>2, <3>3, <3>4
  <2> QED BY <2>3, <2>4
<1>9. Linked(v, m, n + 1)
  BY <1>8 DEF Linked
<1> QED BY <1>9 DEF v, m

LEMMA LinkedSame ==
  ASSUME NEW slot, NEW l, NEW n, Linked(slot, l, n), NEW other,
         \A x \in Members(l, n) : /\ other[x].next = slot[x].next /\ other[x].prev = slot[x].prev
                                  /\ other[x].free = slot[x].free
  PROVE  Linked(other, l, n)
BY DEF Linked, Members

LEMMA FreedSame ==
  ASSUME NEW slot, NEW r, NEW m, Freed(slot, r, m), NEW other,
         \A x \in Members(r, m) : other[x].next = slot[x].next /\ other[x].free = slot[x].free
  PROVE  Freed(other, r, m)
BY DEF Freed, Members

LEMMA FrontFreed ==
  ASSUME NEW slot, NEW r, NEW m, List(r, m), Freed(slot, r, m), NEW t,
         slot[t].next = Item(r, m, 1), slot[t].free
  PROVE  Freed(slot, InFront(t, r, m), m + 1)
<1>1. m \in Nat
  BY DEF List
<1>2. ASSUME NEW k \in 1 .. m + 1
      PROVE  /\ slot[InFront(t, r, m)[k]].next = Item(InFront(t, r, m), m + 1, k + 1)
             /\ slot[InFront(t, r, m)[k]].free
  <2>1. k + 1 \in 0 .. m + 2 /\ k + 1 # 1 /\ (k + 1) - 1 = k
    BY <1>1
  <2>2. Item(InFront(t, r, m), m + 1, k + 1) = Item(r, m, k)
    BY <2>1, FrontItem
  <2>3. CASE k = 1
    <3>1. InFront(t, r, m)[k] = t
      BY <2>3 DEF InFront
    <3> QED BY <2>2, <2>3, <3>1
  <2>4. CASE k # 1
    <3>1. InFront(t, r, m)[k] = r[k - 1] /\ k - 1 \in 1 .. m /\ (k - 1) + 1 = k
      BY <1>1, <2>4 DEF InFront
    <3>2. slot[r[k - 1]].next = Item(r, m, k) /\ slot[r[k - 1]].free
      BY <3>1 DEF Freed
    <3> QED BY <2>2, <3>1, <3>2
  <2> QED BY <2>3, <2>4
<1> QED BY <1>2 DEF Freed

LEMMA RestFreed ==
  ASSUME NEW slot, NEW r, NEW m, List(r, m), Freed(slot, r, m), 1 \in 1 .. m
  PROVE  Freed(slot, Less(r, m, 1), m - 1)
<1>1. m \in Nat /\ r \in [1 .. m -> Slots]
  BY DEF List
<1>2. \A i \in 1 .. m - 1 : Less(r, m, 1)[i] = IF i < 1 THEN r[i] ELSE r[i + 1]
  BY <1>1, LessIs
<1>3. ASSUME NEW k \in 1 .. m - 1
      PROVE  /\ slot[Less(r, m, 1)[k]].next = Item(Less(r, m, 1), m - 1, k + 1)
             /\ slot[Less(r, m, 1)[k]].free
  <2>1. k + 1 \in 0 .. m /\ k + 1 \in 1 .. m /\ ~(k < 1) /\ ~(k + 1 < 1)
    BY <1>1
  <2>2. Item(Less(r, m, 1), m - 1, k + 1) = Item(r, m, (k + 1) + 1)
    BY <2>1, LessItem
  <2>3. slot[r[k + 1]].next = Item(r, m, (k + 1) + 1) /\ slot[r[k + 1]].free
    BY <2>1 DEF Freed
  <2> QED BY <1>2, <2>1, <2>2, <2>3
<1> QED BY <1>3 DEF Freed

LEMMA FrontLess ==
  ASSUME NEW l, NEW n, List(l, n), 1 \in 1 .. n
  PROVE  InFront(l[1], Less(l, n, 1), n - 1) = l
<1>1. n \in Nat /\ l \in [1 .. n -> Slots] /\ (n - 1) + 1 = n
  BY DEF List
<1>2. \A i \in 1 .. n - 1 : Less(l, n, 1)[i] = IF i < 1 THEN l[i] ELSE l[i + 1]
  BY <1>1, LessIs
<1>3. \A i \in 1 .. n : i # 1 => i - 1 \in 1 .. n - 1 /\ ~(i - 1 < 1) /\ (i - 1) + 1 = i
  BY <1>1
<1>4. \A i \in 1 .. n : (IF i = 1 THEN l[1] ELSE Less(l, n, 1)[i - 1]) = l[i]
  BY <1>2, <1>3
<1>5. l = [i \in 1 .. n |-> l[i]]
  BY <1>1
<1> QED BY <1>1, <1>4, <1>5 DEF InFront

(* The operations on a directory.                                           *)

LEMMA FilesAre ==
  ASSUME NEW file \in Files
  PROVE  /\ DOMAIN file \in SUBSET Slots /\ file = [t \in DOMAIN file |-> file[t]]
         /\ \A t \in DOMAIN file : file[t] \in File
BY DEF Files

LEMMA AreFiles ==
  ASSUME NEW S \in SUBSET Slots, NEW file \in [S -> File]
  PROVE  file \in Files
BY DEF Files

LEMMA ListsApart ==
  ASSUME NEW d, NEW l, NEW r, Listed(d, l, r)
  PROVE  Members(l, d.num) \cap Members(r, d.next - d.num) = {}
BY DEF Listed, Linked, Freed, Members

LEMMA MembersIn ==
  ASSUME NEW l, NEW n, List(l, n)
  PROVE  Members(l, n) \in SUBSET Slots /\ \A k \in 1 .. n : l[k] \in Members(l, n)
BY DEF List, Members

LEMMA WithThreadIs ==
  ASSUME NEW d, NEW l, NEW r, Listed(d, l, r), NEW t \in DOMAIN d.file, NEW file \in File
  PROVE  LET v == WithThread(d, t, file) IN
         /\ Listed(v, l, r) /\ v.num = d.num
         /\ DOMAIN v.file = DOMAIN d.file
         /\ v.file[t] = file /\ v.slot[t].posts = file.posts
         /\ \A x \in DOMAIN d.file : x # t => v.file[x] = d.file[x] /\ v.slot[x].posts = d.slot[x].posts
<1> DEFINE n == d.num
           m == d.next - d.num
           v == WithThread(d, t, file)
           files == [d.file EXCEPT ![t] = file]
           slots == [d.slot EXCEPT ![t].posts = file.posts]
<1>1. /\ d \in Dir /\ d.threads = d.num
      /\ List(l, n) /\ Linked(d.slot, l, n) /\ d.used = Item(l, n, 1)
      /\ List(r, m) /\ Freed(d.slot, r, m) /\ d.free = Item(r, m, 1)
      /\ Members(l, n) \cup Members(r, m) = 0 .. d.next - 1
      /\ DOMAIN d.file = Members(l, n)
  BY DEF Listed
<1>2. /\ Members(l, n) \in SUBSET Slots /\ Members(r, m) \in SUBSET Slots
  BY <1>1, MembersIn
<1>3. d.slot \in [Slots -> Cell] /\ d.file \in Files /\ t \in Slots /\ file.posts \in Nat
  BY <1>1, <1>2 DEF Dir, File
<1>4. files \in Files /\ DOMAIN files = DOMAIN d.file /\ files[t] = file
      /\ \A x \in DOMAIN d.file : x # t => files[x] = d.file[x]
  <2>1. DOMAIN d.file \in SUBSET Slots /\ \A x \in DOMAIN d.file : d.file[x] \in File
    BY <1>3, FilesAre
  <2>2. files \in [DOMAIN d.file -> File]
    BY <2>1
  <2>3. files \in Files
    <3> HIDE DEF files
    <3> QED BY <2>1, <2>2, AreFiles
  <2> QED BY <2>3
<1>5. /\ slots \in [Slots -> Cell] /\ slots[t].posts = file.posts
      /\ \A x \in Slots : /\ slots[x].next = d.slot[x].next /\ slots[x].prev = d.slot[x].prev
                          /\ slots[x].free = d.slot[x].free
                          /\ x # t => slots[x].posts = d.slot[x].posts
  BY <1>3 DEF Cell
<1>6. v = [d EXCEPT !.file = files, !.slot = slots]
  BY DEF WithThread
<1> HIDE DEF files, slots, v, n, m
<1>7. /\ v \in Dir /\ v.num = d.num /\ v.next = d.next /\ v.used = d.used /\ v.free = d.free
      /\ v.threads = d.threads /\ v.slot = slots /\ v.file = files
  BY <1>1, <1>4, <1>5, <1>6 DEF Dir
<1>8. Linked(slots, l, n) /\ Freed(slots, r, m)
  <2>1. \A x \in Members(l, n) : /\ slots[x].next = d.slot[x].next /\ slots[x].prev = d.slot[x].prev
                                 /\ slots[x].free = d.slot[x].free
    BY <1>2, <1>5
  <2>2. \A x \in Members(r, m) : slots[x].next = d.slot[x].next /\ slots[x].free = d.slot[x].free
    BY <1>2, <1>5
  <2>3. Linked(slots, l, n)
    BY <1>1, <2>1, LinkedSame
  <2>4. Freed(slots, r, m)
    BY <1>1, <2>2, FreedSame
  <2> QED BY <2>3, <2>4
<1>9. Listed(v, l, r)
  BY <1>1, <1>4, <1>7, <1>8 DEF Listed, n, m
<1> QED BY <1>2, <1>1, <1>4, <1>5, <1>7, <1>9 DEF v

LEMMA RaisedIs ==
  ASSUME NEW d, NEW l, NEW r, Listed(d, l, r), NEW k \in 1 .. d.num
  PROVE  LET v == Raised(d, l[k]) IN
         /\ Listed(v, InFront(l[k], Less(l, d.num, k), d.num - 1), r)
         /\ v.num = d.num /\ v.file = d.file
         /\ \A x \in Slots : v.slot[x].posts = d.slot[x].posts
<1> DEFINE n == d.num
           m == d.next - d.num
           t == l[k]
           v == Raised(d, t)
           less == Less(l, n, k)
           front == InFront(t, less, n - 1)
<1>1. /\ d \in Dir /\ d.threads = d.num
      /\ List(l, n) /\ Linked(d.slot, l, n) /\ d.used = Item(l, n, 1)
      /\ List(r, m) /\ Freed(d.slot, r, m) /\ d.free = Item(r, m, 1)
      /\ Members(l, n) \cup Members(r, m) = 0 .. d.next - 1
      /\ DOMAIN d.file = Members(l, n)
  BY DEF Listed
<1>2. d.slot \in [Slots -> Cell] /\ n \in Nat /\ l \in [1 .. n -> Slots] /\ 1 \in Nat /\ k \in Nat
      /\ 1 \in 1 .. n /\ (n - 1) + 1 = n
  BY <1>1 DEF Dir, List
<1>3. t \in Slots /\ (t = d.used <=> k = 1)
  BY <1>1, <1>2, ItemIs
<1> HIDE DEF n, m
<1>4. CASE k = 1
  <2>1. v = d
    BY <1>3, <1>4 DEF Raised
  <2>2. front = l
    BY <1>1, <1>2, <1>4, FrontLess
  <2> QED BY <2>1, <2>2 DEF n
<1>5. CASE k # 1
  <2> DEFINE cut == Pulled(d.slot, l, n, k)
             turned == [cut EXCEPT ![t].prev = -1, ![t].next = d.used]
             slots == Prev(turned, d.used, t)
  <2>1. d.slot[t].next = Item(l, n, k + 1) /\ d.slot[t].prev = Item(l, n, k - 1) /\ ~d.slot[t].free
    BY <1>1, <1>2 DEF Linked, n
  <2>2. v = [d EXCEPT !.used = t, !.slot = slots]
    BY <1>3, <1>5, <2>1 DEF Raised, Pulled
  <2>3. LinkedBut(d.slot, l, n, k)
    BY <1>1 DEF Linked, LinkedBut
  <2>4. /\ List(less, n - 1) /\ Members(less, n - 1) = Members(l, n) \ {t}
        /\ t \in Members(l, n) /\ t \in Slots
    <3>1. k \in 1 .. n
      BY DEF n
    <3> QED BY <1>1, <3>1, LessList
  <2>5. Linked(cut, less, n - 1)
    <3>1. k \in 1 .. n
      BY DEF n
    <3> QED BY <1>1, <1>2, <2>3, <3>1, PulledLinks
  <2>6. cut \in [Slots -> Cell] /\ \A x \in Slots : cut[x].posts = d.slot[x].posts
    <3>1. k \in 1 .. n
      BY DEF n
    <3> QED BY <1>1, <1>2, <3>1, PulledKeeps
  <2>7. \A x \in Slots : x \notin Members(l, n) \/ x = t => cut[x] = d.slot[x]
    <3>1. k \in 1 .. n
      BY DEF n
    <3> QED BY <1>1, <1>2, <3>1, PulledSpares
  <2>8. d.used \in Link /\ t \in Link /\ d.used = Item(less, n - 1, 1)
    <3>1. k \in 1 .. n /\ 1 \in 0 .. n /\ 1 < k
      BY <1>2, <1>5 DEF n
    <3>2. Item(less, n - 1, 1) = IF 1 < k THEN Item(l, n, 1) ELSE Item(l, n, 1 + 1)
      BY <1>1, <3>1, LessItem
    <3>3. d.used \in Link /\ t \in Link
      BY <1>1, <1>3, SlotsAre DEF Dir
    <3> QED BY <1>1, <3>1, <3>2, <3>3
  <2> HIDE DEF cut, less
  <2>9. /\ turned \in [Slots -> Cell] /\ turned[t].prev = -1 /\ turned[t].next = d.used
        /\ turned[t].free = cut[t].free
        /\ \A x \in Slots : x # t => turned[x] = cut[x]
        /\ \A x \in Slots : turned[x].posts = cut[x].posts
    <3>1. -1 \in Link
      BY SlotsAre
    <3> QED BY <1>3, <2>6, <2>8, <3>1 DEF Cell
  <2> HIDE DEF turned, t
  <2>10. Linked(turned, less, n - 1)
    <3>1. \A x \in Members(less, n - 1) : x \in Slots /\ x # t
      BY <2>4, MembersIn
    <3>2. \A x \in Members(less, n - 1) : turned[x] = cut[x]
      BY <2>9, <3>1
    <3> QED BY <2>5, <3>2, LinkedSame
  <2>11. Linked(slots, front, n)
    <3>1. t \notin Members(less, n - 1) /\ turned[t].next = Item(less, n - 1, 1)
      BY <2>4, <2>8, <2>9
    <3>2. ~turned[t].free
      BY <1>3, <2>1, <2>7, <2>9 DEF t
    <3>3. Linked(Prev(turned, Item(less, n - 1, 1), t), InFront(t, less, n - 1), (n - 1) + 1)
      BY <2>4, <2>9, <2>10, <3>1, <3>2, PushedLinks
    <3> QED BY <1>2, <2>8, <3>3
  <2>12. List(front, n) /\ Members(front, n) = Members(l, n)
    <3>1. t \notin Members(less, n - 1)
      BY <2>4
    <3>2. List(front, (n - 1) + 1) /\ Members(front, (n - 1) + 1) = Members(less, n - 1) \cup {t}
      BY <2>4, <3>1, FrontList
    <3> QED BY <1>2, <2>4, <3>2
  <2>13. t = Item(front, n, 1)
    <3>1. front[1] = t
      BY <1>2 DEF InFront
    <3> QED BY <1>2, <3>1 DEF Item
  <2>14. /\ slots \in [Slots -> Cell]
         /\ \A x \in Slots : slots[x].posts = turned[x].posts /\ (x # d.used => slots[x] = turned[x])
    BY <2>8, <2>9, PrevIs
  <2>15. Freed(slots, r, m)
    <3>1. ASSUME NEW x \in Members(r, m) PROVE slots[x] = d.slot[x]
      <4>1. x \in Slots /\ x \notin Members(l, n)
        BY <1>1, ListsApart, MembersIn DEF n, m
      <4>2. x # t /\ x # d.used
        <5>1. d.used \in Members(l, n)
          BY <1>1, <1>2 DEF Item, Members
        <5> QED BY <2>4, <4>1, <5>1 DEF t
      <4> QED BY <2>7, <2>9, <2>14, <4>1, <4>2 DEF t
    <3> QED BY <1>1, <3>1, FreedSame
  <2>16. \A x \in Slots : slots[x].posts = d.slot[x].posts
    BY <2>6, <2>9, <2>14
  <2> HIDE DEF slots, front, v
  <2>17. /\ v \in Dir /\ v.num = d.num /\ v.next = d.next /\ v.used = t /\ v.free = d.free
         /\ v.threads = d.threads /\ v.slot = slots /\ v.file = d.file
    BY <1>1, <2>2, <2>8, <2>14 DEF Dir
  <2>18. Listed(v, front, r)
    BY <1>1, <2>11, <2>12, <2>13, <2>15, <2>17 DEF Listed, n, m
  <2> QED BY <2>16, <2>17, <2>18 DEF v, front, less, n, t
<1> QED BY <1>4, <1>5

LEMMA RestrictedFiles ==
  ASSUME NEW file \in Files, NEW t
  PROVE  LET v == Restrict(file, DOMAIN file \ {t}) IN
         /\ v \in Files /\ DOMAIN v = DOMAIN file \ {t}
         /\ \A x \in DOMAIN v : v[x] = file[x]
<1> DEFINE S == DOMAIN file \ {t}
           v == Restrict(file, S)
<1>1. v = [x \in S |-> file[x]]
  BY DEF Restrict
<1>2. S \in SUBSET Slots /\ \A x \in S : file[x] \in File
  BY FilesAre
<1>3. v \in [S -> File]
  BY <1>1, <1>2
<1> HIDE DEF S
<1>4. v \in Files
  BY <1>2, <1>3, AreFiles
<1> QED BY <1>1, <1>4 DEF S

LEMMA RemoveThreadIs ==
  ASSUME NEW d, NEW l, NEW r, Listed(d, l, r), NEW k \in 1 .. d.num
  PROVE  LET v == RemoveThread(d, l[k]) IN
         /\ Listed(v, Less(l, d.num, k), InFront(l[k], r, d.next - d.num))
         /\ v.num = d.num - 1 /\ DOMAIN v.file = DOMAIN d.file \ {l[k]}
         /\ \A x \in DOMAIN v.file : v.file[x] = d.file[x] /\ v.slot[x].posts = d.slot[x].posts
<1> DEFINE n == d.num
           m == d.next - d.num
           t == l[k]
           v == RemoveThread(d, t)
           less == Less(l, n, k)
           front == InFront(t, r, m)
           freed == [d.slot EXCEPT ![t] = [Unused EXCEPT !.free = TRUE, !.next = d.free]]
           slots == Pulled(freed, l, n, k)
           files == Restrict(d.file, DOMAIN d.file \ {t})
<1>1. /\ d \in Dir /\ d.threads = d.num
      /\ List(l, n) /\ Linked(d.slot, l, n) /\ d.used = Item(l, n, 1)
      /\ List(r, m) /\ Freed(d.slot, r, m) /\ d.free = Item(r, m, 1)
      /\ Members(l, n) \cup Members(r, m) = 0 .. d.next - 1
      /\ DOMAIN d.file = Members(l, n)
  BY DEF Listed
<1>2. d.slot \in [Slots -> Cell] /\ n \in Nat /\ l \in [1 .. n -> Slots] /\ m \in Nat /\ k \in 1 .. n
      /\ d.file \in Files /\ d.free \in Link /\ n - 1 \in Nat /\ d.next - (n - 1) = m + 1
      /\ d.next \in 0 .. MaxSlots /\ 1 \in 0 .. n
  BY <1>1, ForumConstants DEF Dir, List
<1>3. /\ List(less, n - 1) /\ Members(less, n - 1) = Members(l, n) \ {t}
      /\ t \in Members(l, n) /\ t \in Slots
  BY <1>1, LessList
<1>4. Members(l, n) \cap Members(r, m) = {} /\ Members(l, n) \in SUBSET Slots /\ Members(r, m) \in SUBSET Slots
      /\ \A i \in 1 .. n : l[i] \in Members(l, n)
  BY <1>1, ListsApart, MembersIn
<1>5. d.slot[t].next = Item(l, n, k + 1) /\ d.slot[t].prev = Item(l, n, k - 1)
  BY <1>1 DEF Linked
<1>6. v = [d EXCEPT !.num = n - 1, !.threads = d.threads - 1, !.free = t,
                    !.used = IF d.slot[t].prev = -1 THEN d.slot[t].next ELSE d.used,
                    !.slot = slots, !.file = files]
  BY <1>5 DEF RemoveThread, Pulled
<1>7. files \in Files /\ DOMAIN files = Members(less, n - 1) /\ \A x \in DOMAIN files : files[x] = d.file[x]
  <2>1. /\ files \in Files /\ DOMAIN files = DOMAIN d.file \ {t}
        /\ \A x \in DOMAIN files : files[x] = d.file[x]
    <3>1. d.file \in Files
      BY <1>2
    <3> HIDE DEF t
    <3> QED BY <3>1, RestrictedFiles
  <2> QED BY <1>1, <1>3, <2>1
<1>8. /\ freed \in [Slots -> Cell] /\ freed[t].free /\ freed[t].next = d.free
      /\ \A x \in Slots : x # t => freed[x] = d.slot[x]
  <2>1. [Unused EXCEPT !.free = TRUE, !.next = d.free] \in Cell
    BY <1>2, SlotsAre DEF Unused, Cell
  <2>2. [Unused EXCEPT !.free = TRUE, !.next = d.free].free /\ [Unused EXCEPT !.free = TRUE, !.next = d.free].next = d.free
    BY DEF Unused
  <2> DEFINE c == [Unused EXCEPT !.free = TRUE, !.next = d.free]
  <2> HIDE DEF c, t
  <2>3. c \in Cell /\ c.free /\ c.next = d.free /\ freed = [d.slot EXCEPT ![t] = c]
    BY <2>1, <2>2 DEF c
  <2> QED BY <1>2, <1>3, <2>3
<1> HIDE DEF freed, files, v, n, m
<1>9. LinkedBut(freed, l, n, k)
  <2>1. ASSUME NEW i \in 1 .. n, i # k PROVE freed[l[i]] = d.slot[l[i]]
    <3>1. l[i] # l[k] /\ l[i] \in Slots
      BY <1>1, <1>2, <2>1 DEF List
    <3> QED BY <1>8, <3>1
  <2> QED BY <1>1, <2>1 DEF Linked, LinkedBut
<1>10. Linked(slots, less, n - 1)
  BY <1>1, <1>2, <1>8, <1>9, PulledLinks
<1>11. slots \in [Slots -> Cell] /\ \A x \in Slots : slots[x].posts = freed[x].posts
  BY <1>1, <1>2, <1>8, PulledKeeps
<1>12. \A x \in Slots : x \notin Members(l, n) \/ x = t => slots[x] = freed[x]
  BY <1>1, <1>2, <1>8, PulledSpares
<1> HIDE DEF slots
<1>13. List(front, m + 1) /\ Members(front, m + 1) = Members(r, m) \cup {t}
  <2>1. t \notin Members(r, m)
    BY <1>3, <1>4
  <2> HIDE DEF t
  <2> QED BY <1>1, <1>3, <2>1, FrontList
<1>14. Freed(slots, front, m + 1)
  <2>1. \A x \in Members(r, m) : slots[x] = d.slot[x]
    BY <1>3, <1>4, <1>8, <1>12
  <2>2. Freed(slots, r, m)
    BY <1>1, <2>1, FreedSame
  <2>3. slots[t].free /\ slots[t].next = Item(r, m, 1)
    BY <1>1, <1>3, <1>8, <1>12
  <2> HIDE DEF t
  <2> QED BY <1>1, <2>2, <2>3, FrontFreed
<1>15. t = Item(front, m + 1, 1)
  <2>1. front[1] = t /\ 1 \in 1 .. m + 1
    BY <1>2 DEF InFront
  <2> QED BY <2>1 DEF Item
<1>16. (IF d.slot[t].prev = -1 THEN d.slot[t].next ELSE d.used) = Item(less, n - 1, 1)
  <2>1. Item(less, n - 1, 1) = IF 1 < k THEN Item(l, n, 1) ELSE Item(l, n, 1 + 1)
    BY <1>1, <1>2, LessItem
  <2>2. CASE k = 1
    <3>1. k - 1 \notin 1 .. n /\ ~(1 < k)
      BY <2>2
    <3> QED BY <1>5, <2>1, <2>2, <3>1 DEF Item
  <2>3. CASE k # 1
    <3>1. k - 1 \in 1 .. n /\ 1 < k
      BY <1>2, <2>3
    <3>2. Item(l, n, k - 1) \in Slots
      BY <1>2, <3>1 DEF Item
    <3> QED BY <1>1, <1>5, <2>1, <3>1, <3>2, SlotsAre
  <2> QED BY <2>2, <2>3
<1> HIDE DEF less, front
<1>17. /\ v \in Dir /\ v.num = n - 1 /\ v.next = d.next /\ v.used = Item(less, n - 1, 1) /\ v.free = t
       /\ v.threads = n - 1 /\ v.slot = slots /\ v.file = files
  <2>1. Item(less, n - 1, 1) \in Link /\ t \in Link /\ d.threads - 1 = n - 1
    BY <1>1, <1>3, ItemIn, SlotsAre DEF n
  <2> HIDE DEF t
  <2> QED BY <1>1, <1>2, <1>6, <1>7, <1>11, <1>16, <2>1 DEF Dir
<1>18. Members(less, n - 1) \cup Members(front, m + 1) = 0 .. d.next - 1
  <2>1. Members(l, n) \cup Members(r, m) = 0 .. d.next - 1
    BY <1>1 DEF n, m
  <2> QED BY <1>3, <1>13, <2>1
<1>19. Listed(v, less, front)
  <2>1. v.next - v.num = m + 1
    BY <1>2, <1>17
  <2> QED BY <1>3, <1>7, <1>10, <1>13, <1>14, <1>15, <1>17, <1>18, <2>1 DEF Listed
<1>20. \A x \in DOMAIN files : slots[x].posts = d.slot[x].posts
  BY <1>3, <1>4, <1>7, <1>8, <1>11
<1>21. DOMAIN files = DOMAIN d.file \ {t}
  BY <1>1, <1>3, <1>7 DEF n
<1> QED BY <1>7, <1>17, <1>19, <1>20, <1>21 DEF v, less, front, n, m

LEMMA EnteredFiles ==
  ASSUME NEW file \in Files, NEW t \in Slots, NEW x \in File
  PROVE  LET v == Entered(file, t, x) IN
         /\ v \in Files /\ DOMAIN v = DOMAIN file \cup {t}
         /\ v[t] = x /\ \A y \in DOMAIN file : y # t => v[y] = file[y]
<1> DEFINE S == DOMAIN file \cup {t}
           v == Entered(file, t, x)
<1>1. v = [y \in S |-> IF y = t THEN x ELSE file[y]]
  BY DEF Entered
<1>2. S \in SUBSET Slots /\ \A y \in DOMAIN file : file[y] \in File
  BY FilesAre
<1>3. v \in [S -> File]
  BY <1>1, <1>2
<1> HIDE DEF v
<1>4. v \in Files
  <2> HIDE DEF S
  <2> QED BY <1>2, <1>3, AreFiles
<1> QED BY <1>1, <1>4 DEF v

\* A slot that is free, or the next one.
LEMMA NewSlotIs ==
  ASSUME NEW d, NEW l, NEW r, Listed(d, l, r), NewSlot(d) \in Slots
  PROVE  LET n == d.num
             m == d.next - d.num
             t == NewSlot(d)
             next == IF d.free # -1 THEN d.next ELSE d.next + 1
             free == IF d.free # -1 THEN d.slot[t].next ELSE -1
         IN /\ t \notin Members(l, n)
            /\ next \in 0 .. MaxSlots
            /\ \E q : /\ List(q, next - (n + 1)) /\ Freed(d.slot, q, next - (n + 1))
                      /\ free = Item(q, next - (n + 1), 1) /\ t \notin Members(q, next - (n + 1))
                      /\ Members(l, n) \cup {t} \cup Members(q, next - (n + 1)) = 0 .. next - 1
<1> DEFINE n == d.num
           m == d.next - d.num
           t == NewSlot(d)
<1>1. /\ d \in Dir /\ List(l, n)
      /\ List(r, m) /\ Freed(d.slot, r, m) /\ d.free = Item(r, m, 1)
      /\ Members(l, n) \cup Members(r, m) = 0 .. d.next - 1
  BY DEF Listed
<1>2. n \in Nat /\ m \in Nat /\ d.next \in 0 .. MaxSlots /\ MaxSlots \in Nat /\ r \in [1 .. m -> Slots]
  BY <1>1, ForumConstants DEF Dir, List
<1>3. Members(l, n) \cap Members(r, m) = {}
  BY ListsApart
<1>4. d.next - (n + 1) = m - 1 /\ (d.next + 1) - (n + 1) = m /\ (d.next + 1) - 1 = d.next
  BY <1>2
<1>5. CASE d.free # -1
  <2> DEFINE q == Less(r, m, 1)
  <2>1. t = d.free
    BY <1>5 DEF NewSlot
  <2> HIDE DEF n, m, t
  <2>2. 1 \in 1 .. m /\ t = r[1]
    BY <1>1, <1>5, <2>1 DEF Item
  <2>3. /\ List(q, m - 1) /\ Members(q, m - 1) = Members(r, m) \ {r[1]}
        /\ r[1] \in Members(r, m)
    BY <1>1, <2>2, LessList
  <2>4. Freed(d.slot, q, m - 1)
    BY <1>1, <2>2, RestFreed
  <2>5. d.slot[t].next = Item(q, m - 1, 1)
    <3>1. d.slot[t].next = Item(r, m, 1 + 1)
      BY <1>1, <2>2 DEF Freed
    <3>2. 1 \in 0 .. m /\ ~(1 < 1)
      BY <1>2, <2>2
    <3>3. Item(q, m - 1, 1) = IF 1 < 1 THEN Item(r, m, 1) ELSE Item(r, m, 1 + 1)
      BY <1>1, <2>2, <3>2, LessItem
    <3> QED BY <3>1, <3>2, <3>3
  <2>6. Members(l, n) \cup {t} \cup Members(q, m - 1) = 0 .. d.next - 1
    BY <1>1, <2>2, <2>3
  <2> HIDE DEF q
  <2>7. t \notin Members(l, n) /\ t \notin Members(q, m - 1)
    BY <1>3, <2>2, <2>3
  <2> QED BY <1>2, <1>4, <1>5, <2>3, <2>4, <2>5, <2>6, <2>7 DEF n, t
<1>6. CASE d.free = -1
  <2>1. t = d.next
    BY <1>6 DEF NewSlot
  <2>2. d.next \in Slots /\ d.next + 1 \in 0 .. MaxSlots
    BY <1>2, <2>1 DEF Slots
  <2> HIDE DEF n, m, t
  <2>3. -1 = Item(r, m, 1)
    BY <1>1, <1>6
  <2>4. Members(l, n) \cup {t} \cup Members(r, m) = 0 .. (d.next + 1) - 1
    BY <1>1, <1>2, <2>1
  <2>5. t \notin Members(l, n) /\ t \notin Members(r, m)
    BY <1>1, <1>2, <2>1
  <2> QED BY <1>1, <1>4, <1>6, <2>2, <2>3, <2>4, <2>5 DEF n, t
<1> QED BY <1>5, <1>6

LEMMA EmptyIs == EmptyThread \in File /\ EmptyThread.num = 0 /\ EmptyThread.posts = 0
<1> DEFINE at == <<>>
<1>1. at \in [{} -> Entry] /\ {} \in SUBSET Nat
  OBVIOUS
<1> HIDE DEF at
<1>2. at \in Writings
  BY <1>1, AreWritings
<1> QED BY <1>2 DEF EmptyThread, File, at

LEMMA AddThreadIs ==
  ASSUME NEW d, NEW l, NEW r, Listed(d, l, r), NewSlot(d) \in Slots
  PROVE  LET v == AddThread(d) t == NewSlot(d) IN
         /\ \E q : Listed(v, InFront(t, l, d.num), q)
         /\ t \notin Members(l, d.num) /\ v.num = d.num + 1
         /\ DOMAIN v.file = DOMAIN d.file \cup {t} /\ v.file[t] = EmptyThread
         /\ \A x \in DOMAIN d.file : v.file[x] = d.file[x] /\ v.slot[x].posts = d.slot[x].posts
<1> DEFINE n == d.num
           t == NewSlot(d)
           next == IF d.free # -1 THEN d.next ELSE d.next + 1
           free == IF d.free # -1 THEN d.slot[t].next ELSE -1
           m == next - (n + 1)
           c == [Unused EXCEPT !.next = d.used]
           entered == [d.slot EXCEPT ![t] = c]
           slots == Prev(entered, d.used, t)
           files == Entered(d.file, t, EmptyThread)
           front == InFront(t, l, n)
           v == AddThread(d)
<1>1. /\ d \in Dir /\ d.threads = d.num /\ t \in Slots
      /\ List(l, n) /\ Linked(d.slot, l, n) /\ d.used = Item(l, n, 1)
      /\ DOMAIN d.file = Members(l, n)
  BY DEF Listed
<1>2. PICK q : /\ t \notin Members(l, n)
               /\ next \in 0 .. MaxSlots
               /\ List(q, m) /\ Freed(d.slot, q, m)
               /\ free = Item(q, m, 1) /\ t \notin Members(q, m)
               /\ Members(l, n) \cup {t} \cup Members(q, m) = 0 .. next - 1
  BY NewSlotIs
<1>3. v = [d EXCEPT !.num = n + 1, !.threads = d.threads + 1, !.used = t, !.free = free,
                    !.next = next, !.slot = slots, !.file = files]
  BY DEF AddThread
<1> HIDE DEF n, t, next, free, m, files, v
<1>4. d.slot \in [Slots -> Cell] /\ n \in Nat /\ d.file \in Files /\ d.used \in Link /\ t \in Link
  BY <1>1, SlotsAre DEF Dir, List
<1>5. c \in Cell /\ c.prev = -1 /\ c.next = d.used /\ ~c.free
  BY <1>4, SlotsAre DEF Unused, Cell
<1> HIDE DEF c
<1>6. entered \in [Slots -> Cell] /\ entered[t] = c /\ \A x \in Slots : x # t => entered[x] = d.slot[x]
  BY <1>1, <1>4, <1>5
<1> HIDE DEF entered
<1>7. Linked(entered, l, n)
  <2>1. \A x \in Members(l, n) : entered[x] = d.slot[x]
    BY <1>1, <1>2, <1>6, MembersIn
  <2> QED BY <1>1, <2>1, LinkedSame
<1>8. Linked(slots, front, n + 1)
  <2>1. entered[t].prev = -1 /\ entered[t].next = Item(l, n, 1) /\ ~entered[t].free
    BY <1>1, <1>5, <1>6
  <2>2. Linked(Prev(entered, Item(l, n, 1), t), InFront(t, l, n), n + 1)
    BY <1>1, <1>2, <1>6, <1>7, <2>1, PushedLinks
  <2> QED BY <1>1, <2>2
<1>9. /\ slots \in [Slots -> Cell]
      /\ \A x \in Slots : slots[x].posts = entered[x].posts /\ (x # d.used => slots[x] = entered[x])
  BY <1>4, <1>6, PrevIs
<1>10. \A x \in Members(l, n) : slots[x].posts = d.slot[x].posts
  <2>1. \A x \in Members(l, n) : x \in Slots /\ x # t
    BY <1>1, <1>2, MembersIn
  <2> QED BY <1>6, <1>9, <2>1
<1> HIDE DEF slots
<1>11. Freed(slots, q, m)
  <2>1. ASSUME NEW x \in Members(q, m) PROVE slots[x] = d.slot[x]
    <3>1. x \in Slots /\ x # t
      BY <1>2, MembersIn
    <3>2. x # d.used
      <4>1. d.slot[x].free
        BY <1>2 DEF Freed, Members
      <4>2. d.used \in Slots => ~d.slot[d.used].free
        BY <1>1, SlotsAre DEF Item, Linked
      <4> QED BY <3>1, <4>1, <4>2
    <3> QED BY <1>6, <1>9, <3>1, <3>2
  <2> QED BY <1>2, <2>1, FreedSame
<1>12. List(front, n + 1) /\ Members(front, n + 1) = Members(l, n) \cup {t}
  BY <1>1, <1>2, FrontList
<1>13. t = Item(front, n + 1, 1)
  <2>1. front[1] = t /\ 1 \in 1 .. n + 1
    BY <1>4 DEF InFront
  <2> QED BY <2>1 DEF Item
<1>14. /\ files \in Files /\ DOMAIN files = DOMAIN d.file \cup {t}
       /\ files[t] = EmptyThread /\ \A y \in DOMAIN d.file : y # t => files[y] = d.file[y]
  BY <1>1, <1>4, EmptyIs, EnteredFiles DEF files
<1> HIDE DEF front
<1>15. /\ v \in Dir /\ v.num = n + 1 /\ v.next = next /\ v.used = t /\ v.free = free
       /\ v.threads = n + 1 /\ v.slot = slots /\ v.file = files
  <2>1. free \in Link
    BY <1>2, ItemIn
  <2>2. n + 1 \in Nat /\ d.threads + 1 = n + 1
    BY <1>1, <1>4 DEF n
  <2> QED BY <1>1, <1>2, <1>3, <1>4, <1>9, <1>14, <2>1, <2>2 DEF Dir
<1>16. Listed(v, front, q)
  <2>1. v.next - v.num = m
    BY <1>15 DEF m
  <2> QED BY <1>1, <1>2, <1>8, <1>11, <1>12, <1>13, <1>14, <1>15, <2>1 DEF Listed
<1> QED BY <1>1, <1>2, <1>10, <1>14, <1>15, <1>16 DEF v, t, n, front

-----------------------------------------------------------------------------
(* What a reader is shown. *)

\* The operations on sequences that Board uses are those on lists.
LEMMA SequencesAre ==
  ASSUME NEW n \in Nat, NEW s, s = [i \in 1 .. n |-> s[i]], NEW x
  PROVE  /\ \A k \in 1 .. n : RemoveAt(s, k) = Less(s, n, k)
         /\ <<x>> \o s = InFront(x, s, n)
         /\ Append(s, x) = [i \in 1 .. n + 1 |-> IF i = n + 1 THEN x ELSE s[i]]
         /\ Len(s) = n /\ DOMAIN s = 1 .. n
<1> DEFINE X == {s[i] : i \in 1 .. n} \cup {x}
<1>0. s \in [1 .. n -> X] /\ x \in X
  OBVIOUS
<1> HIDE DEF X
<1>1. s \in Seq(X) /\ Len(s) = n /\ DOMAIN s = 1 .. n
  BY <1>0
<1>2. ASSUME NEW k \in 1 .. n PROVE RemoveAt(s, k) = Less(s, n, k)
  <2> DEFINE a == SubSeq(s, 1, k - 1)
             b == SubSeq(s, k + 1, n)
             c == a \o b
  <2>1. a \in Seq(X) /\ Len(a) = k - 1 /\ \A i \in 1 .. k - 1 : a[i] = s[i]
    BY <1>0
  <2>2. b \in Seq(X) /\ Len(b) = n - k /\ \A i \in 1 .. n - k : b[i] = s[k + i]
    BY <1>0
  <2> HIDE DEF a, b
  <2>3. /\ c \in Seq(X) /\ Len(c) = Len(a) + Len(b)
        /\ \A i \in 1 .. Len(a) + Len(b) : c[i] = IF i <= Len(a) THEN a[i] ELSE b[i - Len(a)]
    BY <2>1, <2>2, ConcatProperties
  <2>4. RemoveAt(s, k) = c
    BY <1>1 DEF RemoveAt, a, b
  <2> HIDE DEF c
  <2>5. Len(a) + Len(b) = n - 1
    BY <2>1, <2>2
  <2>6. \A i \in 1 .. n - 1 : Less(s, n, k)[i] = IF i < k THEN s[i] ELSE s[i + 1]
    BY <1>0, LessIs
  <2>7. ASSUME NEW i \in 1 .. n - 1 PROVE c[i] = Less(s, n, k)[i]
    <3>1. c[i] = IF i <= k - 1 THEN a[i] ELSE b[i - (k - 1)]
      BY <2>1, <2>3, <2>5
    <3>2. CASE i < k
      <4>1. i <= k - 1 /\ i \in 1 .. k - 1
        BY <3>2
      <4> QED BY <2>1, <2>6, <3>1, <3>2, <4>1
    <3>3. CASE ~(i < k)
      <4>1. ~(i <= k - 1) /\ i - (k - 1) \in 1 .. n - k /\ k + (i - (k - 1)) = i + 1
        BY <3>3
      <4>2. b[i - (k - 1)] = s[i + 1]
        BY <2>2, <4>1
      <4> QED BY <2>6, <3>1, <3>3, <4>1, <4>2
    <3> QED BY <3>2, <3>3
  <2>8. c = [i \in 1 .. n - 1 |-> c[i]]
    BY <2>3, <2>5
  <2>9. Less(s, n, k) = [i \in 1 .. n - 1 |-> Less(s, n, k)[i]]
    BY DEF Less
  <2> QED BY <2>4, <2>7, <2>8, <2>9
<1>3. <<x>> \o s = InFront(x, s, n)
  <2> DEFINE c == <<x>> \o s
  <2>1. <<x>> \in Seq(X) /\ Len(<<x>>) = 1 /\ <<x>>[1] = x
    BY <1>0
  <2>2. /\ c \in Seq(X) /\ Len(c) = Len(<<x>>) + Len(s)
        /\ \A i \in 1 .. Len(<<x>>) + Len(s) : c[i] = IF i <= Len(<<x>>) THEN <<x>>[i] ELSE s[i - Len(<<x>>)]
    BY <1>1, <2>1, ConcatProperties
  <2> HIDE DEF c
  <2>3. ASSUME NEW i \in 1 .. n + 1 PROVE c[i] = IF i = 1 THEN x ELSE s[i - 1]
    <3>1. c[i] = IF i <= 1 THEN <<x>>[i] ELSE s[i - 1]
      BY <1>1, <2>1, <2>2
    <3> QED BY <2>1, <3>1
  <2>4. c = [i \in 1 .. n + 1 |-> c[i]]
    BY <1>1, <2>1, <2>2
  <2> QED BY <2>3, <2>4 DEF InFront, c
<1>4. Append(s, x) = [i \in 1 .. n + 1 |-> IF i = n + 1 THEN x ELSE s[i]]
  <2> DEFINE c == Append(s, x)
  <2>1. /\ c \in Seq(X) /\ Len(c) = n + 1 /\ \A i \in 1 .. n : c[i] = s[i]
        /\ c[n + 1] = x
    BY <1>0, <1>1, AppendProperties
  <2> HIDE DEF c
  <2>2. \A i \in 1 .. n + 1 : c[i] = IF i = n + 1 THEN x ELSE s[i]
    BY <2>1
  <2>3. c = [i \in 1 .. n + 1 |-> c[i]]
    BY <2>1
  <2> QED BY <2>2, <2>3 DEF c
<1> QED BY <1>1, <1>2, <1>3, <1>4

View(d) == LET threads == ListThreads(d)
           IN [k \in DOMAIN threads |-> [id |-> threads[k], posts |-> ListPosts(d.file[threads[k]])]]

\* The threads of the list l as they are shown from the files.
Shown(file, l, n) == [k \in 1 .. n |-> [id |-> l[k], posts |-> ListPosts(file[l[k]])]]

LEMMA ViewIs ==
  ASSUME NEW d, NEW l, NEW r, Listed(d, l, r)
  PROVE  View(d) = Shown(d.file, l, d.num)
<1>1. ListThreads(d) = l
  BY ThreadsAre
<1>2. DOMAIN l = 1 .. d.num
  BY DEF Listed, List
<1> QED BY <1>1, <1>2 DEF View, Shown

LEMMA ShownSame ==
  ASSUME NEW file, NEW other, NEW l, NEW n, \A x \in Members(l, n) : other[x] = file[x]
  PROVE  Shown(other, l, n) = Shown(file, l, n)
BY DEF Shown, Members

LEMMA ShownLess ==
  ASSUME NEW file, NEW l, NEW n, List(l, n), NEW k \in 1 .. n
  PROVE  Shown(file, Less(l, n, k), n - 1) = Less(Shown(file, l, n), n, k)
<1>1. n \in Nat /\ l \in [1 .. n -> Slots]
  BY DEF List
<1>2. \A i \in 1 .. n - 1 : i \in 1 .. n /\ i + 1 \in 1 .. n
  BY <1>1
<1>3. \A i \in 1 .. n - 1 : Less(l, n, k)[i] = IF i < k THEN l[i] ELSE l[i + 1]
  BY <1>1, LessIs
<1> QED BY <1>2, <1>3 DEF Shown, Less

LEMMA ShownFront ==
  ASSUME NEW file, NEW l, NEW n, List(l, n), NEW t
  PROVE  Shown(file, InFront(t, l, n), n + 1)
           = InFront([id |-> t, posts |-> ListPosts(file[t])], Shown(file, l, n), n)
<1>1. n \in Nat
  BY DEF List
<1>2. \A i \in 1 .. n + 1 : i # 1 => i - 1 \in 1 .. n
  BY <1>1
<1> QED BY <1>2 DEF Shown, InFront

-----------------------------------------------------------------------------
(* A directory in order, and the operations that leave it in order.         *)

\* A thread has posts, and the three counts of them agree.
Filed(d, t) == LET file == d.file[t] IN
  /\ \E l, pos : Holds(file, l, pos)
  /\ file.num > 0 /\ file.posts = file.num /\ d.slot[t].posts = file.num

DirSound(d) == (\E l, r : Listed(d, l, r)) /\ \A t \in DOMAIN d.file : Filed(d, t)

LEMMA FiledSame ==
  ASSUME NEW d, NEW t, Filed(d, t), NEW v, v.file[t] = d.file[t], v.slot[t].posts = d.slot[t].posts
  PROVE  Filed(v, t)
BY DEF Filed

\* A thread is in the list when its slot is in use.
LEMMA InUse ==
  ASSUME NEW d, NEW l, NEW r, Listed(d, l, r)
  PROVE  DOMAIN d.file = {t \in Slots : t < d.next /\ ~d.slot[t].free}
<1> DEFINE n == d.num
           m == d.next - d.num
<1>1. /\ List(l, n) /\ Linked(d.slot, l, n) /\ List(r, m) /\ Freed(d.slot, r, m)
      /\ Members(l, n) \cup Members(r, m) = 0 .. d.next - 1
      /\ DOMAIN d.file = Members(l, n) /\ d \in Dir
  BY DEF Listed
<1>2. d.next \in Nat
  BY <1>1, ForumConstants DEF Dir
<1>3. Members(l, n) \in SUBSET Slots
  BY <1>1, MembersIn
<1> HIDE DEF n, m
<1>4. \A x \in Members(l, n) : ~d.slot[x].free /\ x \in 0 .. d.next - 1
  BY <1>1 DEF Linked, Members
<1>5. \A x \in Members(r, m) : d.slot[x].free
  BY <1>1 DEF Freed, Members
<1>6. \A x \in Slots : x < d.next => x \in 0 .. d.next - 1
  BY <1>2, SlotsAre
<1> QED BY <1>1, <1>2, <1>3, <1>4, <1>5, <1>6

LEMMA RemovedIs ==
  ASSUME NEW d, NEW l, NEW r, Listed(d, l, r), NEW k \in 1 .. d.num,
         \A x \in DOMAIN d.file : x # l[k] => Filed(d, x)
  PROVE  LET v == RemoveThread(d, l[k]) IN
         DirSound(v) /\ v.num = d.num - 1 /\ View(v) = Less(View(d), d.num, k)
<1> DEFINE n == d.num
           v == RemoveThread(d, l[k])
           less == Less(l, n, k)
<1>1. /\ Listed(v, less, InFront(l[k], r, d.next - d.num))
      /\ v.num = n - 1 /\ DOMAIN v.file = DOMAIN d.file \ {l[k]}
      /\ \A x \in DOMAIN v.file : v.file[x] = d.file[x] /\ v.slot[x].posts = d.slot[x].posts
  BY RemoveThreadIs
<1>2. List(l, n) /\ DOMAIN v.file = Members(less, n - 1)
  BY <1>1 DEF Listed
<1> HIDE DEF v, less
<1>3. \A x \in DOMAIN v.file : Filed(v, x)
  BY <1>1, FiledSame
<1>4. View(v) = Shown(v.file, less, n - 1) /\ View(d) = Shown(d.file, l, n)
  BY <1>1, ViewIs
<1>5. Shown(v.file, less, n - 1) = Shown(d.file, less, n - 1)
  BY <1>1, <1>2, ShownSame
<1>6. Shown(d.file, less, n - 1) = Less(Shown(d.file, l, n), n, k)
  BY <1>2, ShownLess DEF less
<1> QED BY <1>1, <1>3, <1>4, <1>5, <1>6 DEF DirSound, v, less

\* The thread of a directory in order by its place in the list.
LEMMA PlaceIs ==
  ASSUME NEW d, NEW l, NEW r, Listed(d, l, r), NEW t \in DOMAIN d.file
  PROVE  t \in Slots /\ \E k \in 1 .. d.num : t = l[k]
<1>1. List(l, d.num) /\ DOMAIN d.file = Members(l, d.num)
  BY DEF Listed
<1> QED BY <1>1, MembersIn DEF Members

LEMMA RemoveKeeps ==
  ASSUME NEW d, DirSound(d), NEW t \in Slots, Removable(d, t)
  PROVE  LET v == RemoveThread(d, t) IN
         DirSound(v) /\ v.num = d.num - 1 /\ \E k \in 1 .. d.num : View(v) = Less(View(d), d.num, k)
<1>1. PICK l, r : Listed(d, l, r)
  BY DEF DirSound
<1>2. t \in DOMAIN d.file
  BY <1>1, InUse DEF Removable
<1>3. PICK k \in 1 .. d.num : t = l[k]
  BY <1>1, <1>2, PlaceIs
<1>4. \A x \in DOMAIN d.file : x # l[k] => Filed(d, x)
  BY DEF DirSound
<1> QED BY <1>1, <1>3, <1>4, RemovedIs

\* v is d with another file in the k-th place, and its count of posts with it.
Written(d, v, l, r, k, file) ==
  /\ Listed(v, l, r) /\ v.num = d.num
  /\ DOMAIN v.file = DOMAIN d.file /\ v.file[l[k]] = file
  /\ (\E q, pos : Holds(file, q, pos)) /\ file.num > 0 /\ file.posts = file.num => Filed(v, l[k])
  /\ \A x \in DOMAIN d.file : x # l[k] /\ Filed(d, x) => Filed(v, x)
  /\ View(v) = [View(d) EXCEPT ![k].posts = ListPosts(file)]

LEMMA WrittenKeeps ==
  ASSUME NEW d, NEW l, NEW r, Listed(d, l, r), NEW k \in 1 .. d.num, NEW file \in File
  PROVE  Written(d, WithThread(d, l[k], file), l, r, k, file)
<1> DEFINE n == d.num
           v == WithThread(d, l[k], file)
           s == Shown(d.file, l, n)
<1>1. List(l, n) /\ DOMAIN d.file = Members(l, n) /\ l[k] \in DOMAIN d.file
  <2>1. List(l, n) /\ DOMAIN d.file = Members(l, n)
    BY DEF Listed
  <2> QED BY <2>1, MembersIn
<1>2. /\ Listed(v, l, r) /\ v.num = d.num
      /\ DOMAIN v.file = DOMAIN d.file
      /\ v.file[l[k]] = file /\ v.slot[l[k]].posts = file.posts
      /\ \A x \in DOMAIN d.file : x # l[k] => v.file[x] = d.file[x] /\ v.slot[x].posts = d.slot[x].posts
  BY <1>1, WithThreadIs
<1> HIDE DEF v
<1>3. (\E q, pos : Holds(file, q, pos)) /\ file.num > 0 /\ file.posts = file.num => Filed(v, l[k])
  BY <1>2 DEF Filed
<1>4. \A x \in DOMAIN d.file : x # l[k] /\ Filed(d, x) => Filed(v, x)
  BY <1>2, FiledSame
<1>5. View(v) = Shown(v.file, l, n) /\ View(d) = s
  BY <1>2, ViewIs
<1>6. Shown(v.file, l, n) = [s EXCEPT ![k].posts = ListPosts(file)]
  <2>1. \A i \in 1 .. n : i # k => l[i] # l[k] /\ l[i] \in DOMAIN d.file
    <3>1. \A i \in 1 .. n : l[i] \in Members(l, n)
      BY <1>1, MembersIn
    <3> QED BY <1>1, <3>1 DEF List
  <2>2. \A i \in 1 .. n : i # k => v.file[l[i]] = d.file[l[i]]
    BY <1>2, <2>1
  <2> QED BY <1>2, <2>2 DEF Shown
<1>7. View(v) = [View(d) EXCEPT ![k].posts = ListPosts(file)]
  BY <1>5, <1>6
<1> HIDE DEF n, s
<1>8. Written(d, v, l, r, k, file)
  BY <1>2, <1>3, <1>4, <1>7 DEF Written
<1> QED BY <1>8 DEF v

LEMMA RaisedKeeps ==
  ASSUME NEW d, NEW l, NEW r, Listed(d, l, r), NEW k \in 1 .. d.num, \A t \in DOMAIN d.file : Filed(d, t)
  PROVE  LET v == Raised(d, l[k]) IN
         /\ DirSound(v) /\ v.num = d.num
         /\ View(v) = InFront(View(d)[k], Less(View(d), d.num, k), d.num - 1)
<1> DEFINE n == d.num
           v == Raised(d, l[k])
           less == Less(l, n, k)
           front == InFront(l[k], less, n - 1)
           e == [id |-> l[k], posts |-> ListPosts(d.file[l[k]])]
<1>1. /\ Listed(v, front, r) /\ v.num = d.num /\ v.file = d.file
      /\ \A x \in Slots : v.slot[x].posts = d.slot[x].posts
  BY RaisedIs
<1>2. List(l, n) /\ n \in Nat /\ (n - 1) + 1 = n
  BY DEF Listed, List
<1>3. \A t \in DOMAIN d.file : t \in Slots
  BY PlaceIs
<1> HIDE DEF v, n
<1>4. \A t \in DOMAIN v.file : Filed(v, t)
  BY <1>1, <1>3, FiledSame
<1>5. View(v) = Shown(d.file, front, n) /\ View(d) = Shown(d.file, l, n)
  BY <1>1, ViewIs DEF n
<1>6. List(less, n - 1)
  BY <1>2, LessList DEF n
<1>7. Shown(d.file, less, n - 1) = Less(Shown(d.file, l, n), n, k)
  BY <1>2, ShownLess DEF n
<1> HIDE DEF less
<1>8. Shown(d.file, front, n) = InFront(e, Shown(d.file, less, n - 1), n - 1)
  BY <1>2, <1>6, ShownFront
<1>9. Shown(d.file, l, n)[k] = e
  BY DEF Shown, n
<1> HIDE DEF front, e
<1>10. DirSound(v)
  BY <1>1, <1>4 DEF DirSound
<1> QED BY <1>1, <1>5, <1>7, <1>8, <1>9, <1>10 DEF v, n

LEMMA LessExcept ==
  ASSUME NEW n \in Nat, NEW s, DOMAIN s = 1 .. n, NEW k \in 1 .. n, NEW x
  PROVE  Less([s EXCEPT ![k] = x], n, k) = Less(s, n, k)
<1>1. \A i \in 1 .. n - 1 : i \in 1 .. n /\ i + 1 \in 1 .. n /\ (i < k => i # k) /\ (~(i < k) => i + 1 # k)
  OBVIOUS
<1> QED BY <1>1 DEF Less

\* The view of a directory is a sequence of the threads with their posts.
LEMMA Views ==
  ASSUME NEW d, NEW l, NEW r, Listed(d, l, r)
  PROVE  View(d) = [k \in 1 .. d.num |-> View(d)[k]] /\ d.num \in Nat
<1>1. View(d) = Shown(d.file, l, d.num)
  BY ViewIs
<1>2. d.num \in Nat
  BY DEF Listed, List
<1> QED BY <1>1, <1>2 DEF Shown

LEMMA ViewAt ==
  ASSUME NEW d, NEW l, NEW r, Listed(d, l, r), NEW k \in 1 .. d.num
  PROVE  View(d)[k] = [id |-> l[k], posts |-> ListPosts(d.file[l[k]])]
<1> DEFINE s == Shown(d.file, l, d.num)
<1>1. View(d) = s
  BY ViewIs
<1>2. s[k] = [id |-> l[k], posts |-> ListPosts(d.file[l[k]])]
  BY DEF Shown
<1> QED BY <1>1, <1>2

\* A reply keeps the directory in order and is the abstract reply.
LEMMA ReplyKeeps ==
  ASSUME NEW d, DirSound(d), NEW t \in DOMAIN d.file, NEW p \in Post
  PROVE  LET v == AddPost(d, t, p) IN
         DirSound(v) /\ v.num = d.num /\ Abstract!Replied(View(d), View(v))
<1>1. PICK l, r : Listed(d, l, r)
  BY DEF DirSound
<1>2. PICK k \in 1 .. d.num : t = l[k]
  BY <1>1, PlaceIs
<1> DEFINE n == d.num
           file == d.file[t]
           new == Appended(file, p)
           w == WithThread(d, l[k], new)
           v == Raised(w, l[k])
           s == View(d)
           e == [s[k] EXCEPT !.posts = Append(s[k].posts, p)]
<1>3. Filed(d, t)
  BY DEF DirSound
<1>4. PICK m, pos : Holds(file, m, pos)
  BY <1>3 DEF Filed
<1>5. file.num \in Nat /\ file.posts = file.num /\ m = [i \in 1 .. file.num |-> m[i]]
  BY <1>3, <1>4 DEF Filed, Holds, Placed
<1> DEFINE longer == [i \in 1 .. file.num + 1 |-> IF i = file.num + 1 THEN p ELSE m[i]]
<1>6. (\E q : Holds(new, longer, q)) /\ new.num = file.num + 1 /\ new.posts = file.posts + 1
  BY <1>4, AppendedIs
<1> HIDE DEF new, longer
<1>7. ListPosts(new) = longer /\ new \in File /\ ListPosts(file) = m
  <2>1. PICK q : Holds(new, longer, q)
    BY <1>6
  <2>2. ListPosts(new) = longer
    BY <2>1, PostsAre
  <2>3. new \in File
    BY <2>1 DEF Holds
  <2>4. ListPosts(file) = m
    BY <1>4, PostsAre
  <2> QED BY <2>2, <2>3, <2>4
<1>8. longer = Append(m, p)
  <2>1. Append(m, p) = [i \in 1 .. file.num + 1 |-> IF i = file.num + 1 THEN p ELSE m[i]]
    <3> HIDE DEF file
    <3> QED BY <1>5, SequencesAre
  <2> QED BY <2>1 DEF longer
<1>9. (\E q, a : Holds(new, q, a)) /\ new.num > 0 /\ new.posts = new.num
  BY <1>5, <1>6
<1>10. /\ Listed(w, l, r) /\ w.num = n
       /\ DOMAIN w.file = DOMAIN d.file
       /\ Filed(w, l[k])
       /\ \A x \in DOMAIN d.file : x # l[k] /\ Filed(d, x) => Filed(w, x)
       /\ View(w) = [View(d) EXCEPT ![k].posts = ListPosts(new)]
  <2>1. Written(d, w, l, r, k, new)
    BY <1>1, <1>7, WrittenKeeps
  <2> HIDE DEF w
  <2> QED BY <1>9, <2>1 DEF Written
<1> HIDE DEF w
<1>11. \A x \in DOMAIN w.file : Filed(w, x)
  BY <1>10 DEF DirSound
<1>12. DirSound(v) /\ v.num = n /\ View(v) = InFront(View(w)[k], Less(View(w), n, k), n - 1)
  <2>1. /\ Listed(w, l, r) /\ k \in 1 .. w.num /\ \A x \in DOMAIN w.file : Filed(w, x)
    BY <1>10, <1>11
  <2>2. DirSound(v) /\ v.num = w.num /\ View(v) = InFront(View(w)[k], Less(View(w), w.num, k), w.num - 1)
    BY <2>1, RaisedKeeps
  <2> QED BY <1>10, <2>2
<1>f. s = [i \in 1 .. n |-> s[i]] /\ n \in Nat
  BY <1>1, Views
<1>13. n \in Nat /\ DOMAIN s = 1 .. n
  BY <1>f
<1>e. s[k].posts = m
  <2>1. s[k] = [id |-> l[k], posts |-> ListPosts(d.file[l[k]])]
    BY <1>1, ViewAt
  <2> QED BY <1>2, <1>7, <2>1
<1> HIDE DEF s, n, file, v
<1>14. k \in 1 .. n
  BY DEF n
<1>15. View(w) = [s EXCEPT ![k] = e]
  <2>1. View(w) = [s EXCEPT ![k].posts = Append(s[k].posts, p)]
    <3>1. ListPosts(new) = Append(s[k].posts, p)
      BY <1>7, <1>8, <1>e
    <3> QED BY <1>10, <3>1 DEF s
  <2> QED BY <2>1
<1> HIDE DEF e
<1>16. View(w)[k] = e /\ Less(View(w), n, k) = Less(s, n, k)
  <2>1. [s EXCEPT ![k] = e][k] = e
    BY <1>13, <1>14
  <2>2. Less([s EXCEPT ![k] = e], n, k) = Less(s, n, k)
    BY <1>13, <1>14, LessExcept
  <2> QED BY <1>15, <2>1, <2>2
<1>17. RemoveAt(s, k) = Less(s, n, k)
  BY <1>f, <1>14, SequencesAre
<1>18. <<e>> \o Less(s, n, k) = InFront(e, Less(s, n, k), n - 1)
  <2> DEFINE a == Less(s, n, k)
             b == n - 1
  <2>1. b \in Nat /\ a = [i \in 1 .. b |-> a[i]]
    BY <1>13, <1>14 DEF Less
  <2> HIDE DEF a, b
  <2>2. <<e>> \o a = InFront(e, a, b)
    BY <2>1, SequencesAre
  <2> QED BY <2>2 DEF a, b
<1>19. View(v) = <<e>> \o RemoveAt(s, k)
  BY <1>12, <1>16, <1>17, <1>18
<1>20. Abstract!Replied(s, View(v))
  <2>1. k \in DOMAIN s
    BY <1>13, <1>14
  <2> HIDE DEF e
  <2>2. Abstract!RemoveAt(s, k) = RemoveAt(s, k)
    BY DEF Abstract!RemoveAt, RemoveAt
  <2>3. View(v) = <<[s[k] EXCEPT !.posts = Append(s[k].posts, p)]>> \o Abstract!RemoveAt(s, k)
    BY <1>19, <2>2 DEF e
  <2> QED BY <2>1, <2>3, Zenon DEF Abstract!Replied
<1>21. v = AddPost(d, t, p)
  BY <1>2 DEF AddPost, v, w, new, file
<1> QED BY <1>12, <1>20, <1>21 DEF s, n

LEMMA OpenKeeps ==
  ASSUME NEW d, DirSound(d), NewSlot(d) \in Slots, NEW p \in Post
  PROVE  LET v == AddPost(AddThread(d), NewSlot(d), p) IN
         DirSound(v) /\ v.num = d.num + 1 /\ Abstract!Opened(View(d), View(v))
<1>1. PICK l, r : Listed(d, l, r)
  BY DEF DirSound
<1> DEFINE n == d.num
           t == NewSlot(d)
           a == AddThread(d)
           front == InFront(t, l, n)
           new == Appended(EmptyThread, p)
           w == WithThread(a, t, new)
           v == Raised(w, t)
           s == View(d)
           e == [id |-> t, posts |-> <<p>>]
<1>2. PICK q : /\ Listed(a, front, q)
               /\ t \notin Members(l, n) /\ a.num = n + 1
               /\ DOMAIN a.file = DOMAIN d.file \cup {t} /\ a.file[t] = EmptyThread
               /\ \A x \in DOMAIN d.file : a.file[x] = d.file[x] /\ a.slot[x].posts = d.slot[x].posts
  BY <1>1, AddThreadIs
<1>3. n \in Nat /\ List(l, n) /\ DOMAIN d.file = Members(l, n)
  BY <1>1 DEF Listed, List
<1>4. 1 \in 1 .. n + 1 /\ front[1] = t
  BY <1>3 DEF InFront
<1>5. (\E m, pos : Holds(new, m, pos)) /\ new \in File /\ new.num > 0 /\ new.posts = new.num
      /\ ListPosts(new) = <<p>>
  <2> DEFINE z == [i \in 1 .. 0 |-> 0]
             o == [i \in 0 .. 0 |-> 0]
             one == [i \in 1 .. 0 + 1 |-> IF i = 0 + 1 THEN p ELSE z[i]]
  <2>1. Holds(EmptyThread, z, o)
    <3>1. DOMAIN EmptyThread.at = {}
      BY DEF EmptyThread
    <3>2. Placed(z, o, 0)
      BY DEF Placed
    <3>3. Laid(EmptyThread.at, z, o, 0)
      BY <3>1 DEF Laid
    <3>4. EmptyThread.num = 0 /\ EmptyThread.end = 0 /\ o[0] = 0
      BY DEF EmptyThread
    <3> HIDE DEF z, o
    <3> QED BY <3>2, <3>3, <3>4, EmptyIs DEF Holds
  <2>2. one = <<p>>
    OBVIOUS
  <2> HIDE DEF z, o
  <2>3. (\E b : Holds(new, one, b)) /\ new.num = 0 + 1 /\ new.posts = 0 + 1
    BY <2>1, EmptyIs, AppendedIs
  <2> HIDE DEF new, one
  <2>4. PICK b : Holds(new, one, b)
    BY <2>3
  <2>5. ListPosts(new) = one
    BY <2>4, PostsAre
  <2>6. new \in File
    BY <2>4 DEF Holds
  <2> QED BY <2>2, <2>3, <2>4, <2>5, <2>6
<1> HIDE DEF a, new, front, n
<1>6. /\ Listed(w, front, q) /\ w.num = n + 1
      /\ DOMAIN w.file = DOMAIN a.file /\ w.file[t] = new
      /\ Filed(w, t)
      /\ \A x \in DOMAIN a.file : x # t /\ Filed(a, x) => Filed(w, x)
      /\ View(w) = [View(a) EXCEPT ![1].posts = ListPosts(new)]
  <2>1. Listed(a, front, q) /\ 1 \in 1 .. a.num /\ new \in File
    BY <1>2, <1>4, <1>5
  <2>2. Written(a, WithThread(a, front[1], new), front, q, 1, new)
    BY <2>1, WrittenKeeps
  <2> HIDE DEF w
  <2>3. Written(a, w, front, q, 1, new)
    BY <1>4, <2>2 DEF w
  <2> QED BY <1>2, <1>4, <1>5, <2>3 DEF Written
<1> HIDE DEF w, t
<1>7. \A x \in DOMAIN w.file : Filed(w, x)
  <2>1. \A x \in DOMAIN d.file : Filed(d, x) /\ x # t
    BY <1>2, <1>3 DEF DirSound
  <2>2. \A x \in DOMAIN d.file : Filed(a, x)
    BY <1>2, <2>1, FiledSame
  <2> QED BY <1>2, <1>6, <2>1, <2>2
<1>8. DirSound(v) /\ v.num = n + 1 /\ View(v) = InFront(View(w)[1], Less(View(w), n + 1, 1), n)
  <2>1. Listed(w, front, q) /\ 1 \in 1 .. w.num /\ \A x \in DOMAIN w.file : Filed(w, x)
    BY <1>4, <1>6, <1>7
  <2>2. LET u == Raised(w, front[1]) IN
        /\ DirSound(u) /\ u.num = w.num
        /\ View(u) = InFront(View(w)[1], Less(View(w), w.num, 1), w.num - 1)
    BY <2>1, RaisedKeeps
  <2>3. (n + 1) - 1 = n
    BY <1>3
  <2> QED BY <1>4, <1>6, <2>2, <2>3
<1>9. View(w)[1] = e
  <2>1. Listed(w, front, q) /\ 1 \in 1 .. w.num
    BY <1>4, <1>6
  <2>2. View(w)[1] = [id |-> front[1], posts |-> ListPosts(w.file[front[1]])]
    BY <2>1, ViewAt
  <2> QED BY <1>4, <1>5, <1>6, <2>2
<1>10. s = [i \in 1 .. n |-> s[i]]
  BY <1>1, Views DEF n
<1>11. Less(View(w), n + 1, 1) = s
  <2>1. ASSUME NEW i \in 1 .. n PROVE View(w)[i + 1] = s[i]
    <3>1. i + 1 \in 1 .. n + 1 /\ i + 1 # 1 /\ (i + 1) - 1 = i
      BY <1>3
    <3>2. View(a)[i + 1] = [id |-> front[i + 1], posts |-> ListPosts(a.file[front[i + 1]])]
      BY <1>2, <3>1, ViewAt
    <3>3. front[i + 1] = l[i]
      BY <3>1 DEF front, InFront
    <3>4. l[i] \in DOMAIN d.file
      BY <1>3, MembersIn
    <3>5. a.file[l[i]] = d.file[l[i]]
      BY <1>2, <3>4
    <3>6. s[i] = [id |-> l[i], posts |-> ListPosts(d.file[l[i]])]
      BY <1>1, ViewAt DEF n
    <3>7. View(w)[i + 1] = View(a)[i + 1]
      BY <1>6, <3>1
    <3> QED BY <3>2, <3>3, <3>5, <3>6, <3>7
  <2> HIDE DEF s
  <2>2. (n + 1) - 1 = n /\ \A i \in 1 .. n : ~(i < 1)
    BY <1>3
  <2>3. Less(View(w), n + 1, 1) = [i \in 1 .. n |-> s[i]]
    BY <2>1, <2>2 DEF Less
  <2> QED BY <1>10, <2>3
<1>12. <<e>> \o s = InFront(e, s, n)
  <2> HIDE DEF e, s
  <2> QED BY <1>3, <1>10, SequencesAre
<1>13. View(v) = <<e>> \o s
  BY <1>8, <1>9, <1>11, <1>12
<1>14. Abstract!Opened(s, View(v))
  <2>1. \A k \in DOMAIN s : s[k].id = l[k] /\ k \in 1 .. n
    <3>1. \A k \in 1 .. n : s[k] = [id |-> l[k], posts |-> ListPosts(d.file[l[k]])]
      BY <1>1, ViewAt DEF n
    <3>2. DOMAIN s = 1 .. n
      BY <1>10
    <3> HIDE DEF s
    <3> QED BY <3>1, <3>2
  <2>2. t \notin Abstract!Ids(s)
    <3> HIDE DEF s
    <3> QED BY <1>2, <2>1 DEF Abstract!Ids, Members
  <2>3. t \in Abstract!Thread
    BY DEF Abstract!Thread, Slots, t
  <2> QED BY <1>13, <2>2, <2>3 DEF Abstract!Opened
<1>15. v = AddPost(a, t, p)
  BY <1>2 DEF AddPost, w, new
<1> QED BY <1>8, <1>14, <1>15 DEF v, t, n, a

LEMMA EditKeeps ==
  ASSUME NEW d, DirSound(d), NEW t \in DOMAIN d.file, NEW k \in 0 .. d.file[t].num - 1, NEW p \in Post
  PROVE  LET v == [d EXCEPT !.file[t] = Rewritten(d.file[t], k, p)] IN
         DirSound(v) /\ v.num = d.num /\ Abstract!Edited(View(d), View(v))
<1>1. PICK l, r : Listed(d, l, r)
  BY DEF DirSound
<1>2. PICK h \in 1 .. d.num : t = l[h]
  BY <1>1, PlaceIs
<1> DEFINE n == d.num
           file == d.file[t]
           new == Rewritten(file, k, p)
           v == [d EXCEPT !.file[t] = new]
           w == WithThread(d, l[h], new)
           s == View(d)
<1>3. Filed(d, t)
  BY DEF DirSound
<1>4. PICK m, pos : Holds(file, m, pos)
  BY <1>3 DEF Filed
<1>5. file.num \in Nat /\ file.num > 0 /\ file.posts = file.num /\ d.slot[t].posts = file.num
      /\ m = [i \in 1 .. file.num |-> m[i]]
  BY <1>3, <1>4 DEF Filed, Holds, Placed
<1>6. (\E q : Holds(new, [m EXCEPT ![k + 1] = p], q)) /\ new.num = file.num /\ new.posts = file.posts
  BY <1>4, RewrittenIs
<1> HIDE DEF new
<1>7. ListPosts(new) = [m EXCEPT ![k + 1] = p] /\ new \in File /\ ListPosts(file) = m
  <2>1. PICK q : Holds(new, [m EXCEPT ![k + 1] = p], q)
    BY <1>6
  <2>2. ListPosts(new) = [m EXCEPT ![k + 1] = p]
    BY <2>1, PostsAre
  <2>3. new \in File
    BY <2>1 DEF Holds
  <2>4. ListPosts(file) = m
    BY <1>4, PostsAre
  <2> QED BY <2>2, <2>3, <2>4
<1>8. (\E q, a : Holds(new, q, a)) /\ new.num > 0 /\ new.posts = new.num
  BY <1>5, <1>6
<1>9. /\ Listed(w, l, r) /\ w.num = n
      /\ DOMAIN w.file = DOMAIN d.file
      /\ Filed(w, l[h])
      /\ \A x \in DOMAIN d.file : x # l[h] /\ Filed(d, x) => Filed(w, x)
      /\ View(w) = [View(d) EXCEPT ![h].posts = ListPosts(new)]
  <2>1. Listed(d, l, r) /\ h \in 1 .. d.num /\ new \in File
    BY <1>1, <1>7
  <2>2. Written(d, w, l, r, h, new)
    BY <2>1, WrittenKeeps
  <2> HIDE DEF w
  <2> QED BY <1>8, <2>2 DEF Written
<1>10. v = w
  <2>1. d \in Dir /\ t \in Slots
    BY <1>1, PlaceIs DEF Listed
  <2>2. d.slot[t].posts = new.posts
    BY <1>5, <1>6
  <2>3. [d.slot EXCEPT ![t].posts = new.posts] = d.slot
    BY <2>1, <2>2 DEF Dir, Cell
  <2>4. [d EXCEPT !.slot = d.slot] = d
    BY <2>1 DEF Dir
  <2>5. w = [d EXCEPT !.file[t] = new, !.slot = [d.slot EXCEPT ![t].posts = new.posts]]
    BY <1>2 DEF WithThread
  <2> QED BY <2>1, <2>3, <2>5 DEF Dir
<1> HIDE DEF w, v
<1>11. DirSound(w)
  <2>1. \A x \in DOMAIN w.file : Filed(w, x)
    BY <1>9 DEF DirSound
  <2> QED BY <1>9, <2>1 DEF DirSound
<1>12. n \in Nat /\ s = [i \in 1 .. n |-> s[i]]
  BY <1>1, Views
<1>13. s[h] = [id |-> t, posts |-> m]
  <2>1. s[h] = [id |-> l[h], posts |-> ListPosts(d.file[l[h]])]
    BY <1>1, ViewAt
  <2> QED BY <1>2, <1>7, <2>1
<1>14. h \in DOMAIN s
  BY <1>12
<1> HIDE DEF s, n, file
<1>15. k + 1 \in DOMAIN s[h].posts
  <2>1. k + 1 \in 1 .. file.num /\ DOMAIN m = 1 .. file.num
    BY <1>5 DEF file
  <2> QED BY <1>13, <2>1
<1>16. View(w) = [s EXCEPT ![h].posts[k + 1] = p]
  <2>1. View(w) = [s EXCEPT ![h].posts = [m EXCEPT ![k + 1] = p]]
    BY <1>7, <1>9 DEF s
  <2>2. s[h].posts = m
    BY <1>13
  <2> QED BY <2>1, <2>2
<1>17. Abstract!Edited(s, View(w))
  BY <1>14, <1>15, <1>16 DEF Abstract!Edited
<1> QED BY <1>9, <1>10, <1>11, <1>17 DEF v, s, n, new, file

LEMMA RetractKeeps ==
  ASSUME NEW d, DirSound(d), NEW t \in DOMAIN d.file, NEW k \in 0 .. d.file[t].num - 1
  PROVE  LET w == WithThread(d, t, Cut(d.file[t], k))
             v == RemoveThread(w, t)
         IN /\ d.file[t].num # 1 => DirSound(w) /\ w.num = d.num /\ Abstract!Retracted(View(d), View(w))
            /\ d.file[t].num = 1 => /\ Removable(w, t) /\ DirSound(v) /\ v.num = d.num - 1
                                    /\ Abstract!Retracted(View(d), View(v))
<1>1. PICK l, r : Listed(d, l, r)
  BY DEF DirSound
<1>2. PICK h \in 1 .. d.num : t = l[h]
  BY <1>1, PlaceIs
<1> DEFINE n == d.num
           file == d.file[t]
           new == Cut(file, k)
           w == WithThread(d, l[h], new)
           v == RemoveThread(w, l[h])
           s == View(d)
<1>3. Filed(d, t)
  BY DEF DirSound
<1>4. PICK m, pos : Holds(file, m, pos)
  BY <1>3 DEF Filed
<1>5. file.num \in Nat /\ file.num > 0 /\ file.posts = file.num
  BY <1>3, <1>4 DEF Filed, Holds, Placed
<1>f. m = [i \in 1 .. file.num |-> m[i]]
  BY <1>4 DEF Holds, Placed
<1> DEFINE less == Less(m, file.num, k + 1)
<1>6. (\E q : Holds(new, less, q)) /\ new.num = file.num - 1 /\ new.posts = file.posts - 1
  <2>1. file.posts \in Nat \ {0}
    BY <1>5
  <2> QED BY <1>4, <2>1, CutIs
<1> HIDE DEF new, less
<1>7. ListPosts(new) = less /\ new \in File
  <2>1. PICK q : Holds(new, less, q)
    BY <1>6
  <2>2. ListPosts(new) = less
    BY <2>1, PostsAre
  <2>3. new \in File
    BY <2>1 DEF Holds
  <2> QED BY <2>2, <2>3
<1>8. file.num # 1 => (\E q, a : Holds(new, q, a)) /\ new.num > 0 /\ new.posts = new.num
  BY <1>5, <1>6
<1>9. /\ Listed(w, l, r) /\ w.num = n
      /\ DOMAIN w.file = DOMAIN d.file
      /\ file.num # 1 => Filed(w, l[h])
      /\ \A x \in DOMAIN d.file : x # l[h] /\ Filed(d, x) => Filed(w, x)
      /\ View(w) = [View(d) EXCEPT ![h].posts = ListPosts(new)]
  <2>1. Listed(d, l, r) /\ h \in 1 .. d.num /\ new \in File
    BY <1>1, <1>7
  <2>2. Written(d, w, l, r, h, new)
    BY <2>1, WrittenKeeps
  <2> HIDE DEF w
  <2> QED BY <1>8, <2>2 DEF Written
<1> HIDE DEF w, v
<1>10. \A x \in DOMAIN w.file : x # l[h] => Filed(w, x)
  BY <1>9 DEF DirSound
<1>11. file.num # 1 => DirSound(w)
  BY <1>9, <1>10 DEF DirSound
<1>12. n \in Nat /\ s = [i \in 1 .. n |-> s[i]]
  BY <1>1, Views
<1>13. s[h].posts = m
  <2>1. s[h] = [id |-> l[h], posts |-> ListPosts(d.file[l[h]])]
    BY <1>1, ViewAt
  <2>2. ListPosts(file) = m
    BY <1>4, PostsAre
  <2> QED BY <1>2, <2>1, <2>2
<1>14. h \in DOMAIN s /\ h \in 1 .. n
  BY <1>12
<1>15. k + 1 \in DOMAIN m /\ k + 1 \in 1 .. file.num
  <2>1. k + 1 \in 1 .. file.num
    BY <1>5
  <2>2. DOMAIN m = 1 .. file.num
    BY <1>f
  <2> QED BY <2>1, <2>2
<1>16. View(w) = [s EXCEPT ![h].posts = less]
  BY <1>7, <1>9
<1> HIDE DEF s, n, file
<1>17. RemoveAt(m, k + 1) = less /\ Len(m) = file.num
  BY <1>5, <1>f, <1>15, SequencesAre DEF less
<1>18. \A x, i : Abstract!RemoveAt(x, i) = RemoveAt(x, i)
  BY DEF Abstract!RemoveAt, RemoveAt
<1>19. CASE file.num # 1
  <2>1. View(w) = [s EXCEPT ![h].posts = Abstract!RemoveAt(s[h].posts, k + 1)] /\ Len(s[h].posts) # 1
    BY <1>13, <1>16, <1>17, <1>18, <1>19
  <2>2. k + 1 \in DOMAIN s[h].posts
    BY <1>13, <1>15
  <2>3. Abstract!Retracted(s, View(w))
    BY <1>14, <2>1, <2>2 DEF Abstract!Retracted
  <2> QED BY <1>2, <1>9, <1>11, <1>19, <2>3 DEF w, s, n, new, file
<1>20. CASE file.num = 1
  <2>1. Listed(w, l, r) /\ h \in 1 .. w.num /\ \A x \in DOMAIN w.file : x # l[h] => Filed(w, x)
    BY <1>9, <1>10, <1>14
  <2>2. DirSound(v) /\ v.num = n - 1 /\ View(v) = Less(View(w), n, h)
    <3>1. DirSound(v) /\ v.num = w.num - 1 /\ View(v) = Less(View(w), w.num, h)
      BY <2>1, RemovedIs DEF v
    <3> QED BY <1>9, <3>1
  <2>3. Less(View(w), n, h) = Less(s, n, h)
    <3>1. View(w) = [s EXCEPT ![h] = [s[h] EXCEPT !.posts = less]]
      BY <1>16
    <3> DEFINE e == [s[h] EXCEPT !.posts = less]
    <3>2. DOMAIN s = 1 .. n /\ n \in Nat
      BY <1>12
    <3> HIDE DEF e
    <3>3. Less([s EXCEPT ![h] = e], n, h) = Less(s, n, h)
      BY <1>14, <3>2, LessExcept
    <3> QED BY <3>1, <3>3 DEF e
  <2>4. RemoveAt(s, h) = Less(s, n, h)
    BY <1>12, <1>14, SequencesAre
  <2>5. View(v) = Abstract!RemoveAt(s, h) /\ Len(s[h].posts) = 1
    BY <1>13, <1>17, <1>18, <1>20, <2>2, <2>3, <2>4
  <2>6. k + 1 \in DOMAIN s[h].posts
    BY <1>13, <1>15
  <2>7. Abstract!Retracted(s, View(v))
    BY <1>14, <2>5, <2>6 DEF Abstract!Retracted
  <2>8. Removable(w, t)
    <3>1. t \in DOMAIN w.file
      BY <1>9
    <3> QED BY <1>9, <3>1, InUse DEF Removable
  <2> QED BY <1>2, <1>20, <2>2, <2>7, <2>8 DEF w, v, s, n, new, file
<1> QED BY <1>19, <1>20 DEF file

-----------------------------------------------------------------------------
(* All the directories and the index. *)

Sound(w) ==
  /\ w.index \in Seq(Nat) /\ Len(w.index) <= MaxForums
  /\ DOMAIN w.dir = 0 .. Len(w.index) - 1 /\ w.dir = [f \in DOMAIN w.dir |-> w.dir[f]]
  /\ \A f \in DOMAIN w.dir : DirSound(w.dir[f]) /\ w.index[f + 1] = w.dir[f].num

\* v is w with the directory d for f, and its count in the index.
Replaced(w, f, d) == [dir |-> [w.dir EXCEPT ![f] = d], index |-> [w.index EXCEPT ![f + 1] = d.num]]

LEMMA SoundNum ==
  ASSUME NEW d, DirSound(d)
  PROVE  d.num \in Nat /\ d.threads = d.num
BY DEF DirSound, Listed, List

LEMMA ReplacedKeeps ==
  ASSUME NEW w, Sound(w), NEW f \in DOMAIN w.dir, NEW d, DirSound(d)
  PROVE  /\ Sound(Replaced(w, f, d)) /\ f \in Nat /\ f < Len(w.index)
         /\ DOMAIN Replaced(w, f, d).dir = DOMAIN w.dir
         /\ Replaced(w, f, d).dir[f] = d
         /\ \A g \in DOMAIN w.dir : g # f => Replaced(w, f, d).dir[g] = w.dir[g]
<1> DEFINE v == Replaced(w, f, d)
<1>1. /\ w.index \in Seq(Nat) /\ Len(w.index) <= MaxForums
      /\ DOMAIN w.dir = 0 .. Len(w.index) - 1 /\ w.dir = [g \in DOMAIN w.dir |-> w.dir[g]]
      /\ \A g \in DOMAIN w.dir : DirSound(w.dir[g]) /\ w.index[g + 1] = w.dir[g].num
  BY DEF Sound
<1>2. d.num \in Nat
  BY SoundNum
<1>3. f \in Nat /\ f + 1 \in 1 .. Len(w.index) /\ f < Len(w.index)
  BY <1>1
<1>4. /\ DOMAIN v.dir = DOMAIN w.dir /\ v.dir[f] = d /\ \A g \in DOMAIN w.dir : g # f => v.dir[g] = w.dir[g]
      /\ v.dir = [g \in DOMAIN v.dir |-> v.dir[g]]
  BY <1>1 DEF Replaced
<1>5. /\ v.index \in Seq(Nat) /\ Len(v.index) = Len(w.index) /\ v.index[f + 1] = d.num
      /\ \A i \in 1 .. Len(w.index) : i # f + 1 => v.index[i] = w.index[i]
  BY <1>1, <1>2, <1>3 DEF Replaced
<1> HIDE DEF v
<1>6. ASSUME NEW g \in DOMAIN v.dir PROVE DirSound(v.dir[g]) /\ v.index[g + 1] = v.dir[g].num
  <2>1. CASE g = f
    BY <1>4, <1>5, <2>1
  <2>2. CASE g # f
    <3>1. g \in DOMAIN w.dir /\ g + 1 \in 1 .. Len(w.index) /\ g + 1 # f + 1
      BY <1>1, <1>3, <1>4, <2>2
    <3>2. DirSound(w.dir[g]) /\ w.index[g + 1] = w.dir[g].num
      BY <1>1, <3>1
    <3> QED BY <1>4, <1>5, <2>2, <3>1, <3>2
  <2> QED BY <2>1, <2>2
<1>7. Sound(v)
  BY <1>1, <1>4, <1>5, <1>6 DEF Sound
<1> QED BY <1>3, <1>4, <1>7 DEF v

LEMMA DroppedNone ==
  ASSUME NEW s, DOMAIN s \in SUBSET Int
  PROVE  Abstract!Dropped(s, s)
<1> DEFINE was == [i \in DOMAIN s |-> i]
<1>1. was \in [DOMAIN s -> DOMAIN s] /\ \A i \in DOMAIN s : was[i] = i
  OBVIOUS
<1> HIDE DEF was
<1> QED BY <1>1 DEF Abstract!Dropped

LEMMA DroppedOne ==
  ASSUME NEW n \in Nat, NEW s, DOMAIN s = 1 .. n, NEW k \in 1 .. n
  PROVE  Abstract!Dropped(s, Less(s, n, k))
<1> DEFINE now == Less(s, n, k)
           was == [i \in 1 .. n - 1 |-> IF i < k THEN i ELSE i + 1]
<1>1. DOMAIN now = 1 .. n - 1 /\ \A i \in 1 .. n - 1 : now[i] = s[IF i < k THEN i ELSE i + 1]
  BY DEF Less
<1>2. /\ was \in [1 .. n - 1 -> 1 .. n] /\ \A i \in 1 .. n - 1 : was[i] = IF i < k THEN i ELSE i + 1
      /\ \A i, h \in 1 .. n - 1 : i < h => was[i] < was[h]
  OBVIOUS
<1> HIDE DEF was, now
<1>3. \A i \in 1 .. n - 1 : now[i] = s[was[i]]
  BY <1>1, <1>2
<1> QED BY <1>1, <1>2, <1>3 DEF Abstract!Dropped, now

LEMMA DroppedTwice ==
  ASSUME NEW s, NEW now, NEW then, Abstract!Dropped(s, now), Abstract!Dropped(now, then)
  PROVE  Abstract!Dropped(s, then)
<1>1. PICK a \in [DOMAIN now -> DOMAIN s] :
        /\ \A i, k \in DOMAIN now : i < k => a[i] < a[k]
        /\ \A i \in DOMAIN now : now[i] = s[a[i]]
  BY DEF Abstract!Dropped
<1>2. PICK b \in [DOMAIN then -> DOMAIN now] :
        /\ \A i, k \in DOMAIN then : i < k => b[i] < b[k]
        /\ \A i \in DOMAIN then : then[i] = now[b[i]]
  BY DEF Abstract!Dropped
<1> DEFINE was == [i \in DOMAIN then |-> a[b[i]]]
<1>3. was \in [DOMAIN then -> DOMAIN s] /\ \A i \in DOMAIN then : was[i] = a[b[i]]
  BY <1>1, <1>2
<1> HIDE DEF was
<1>4. \A i, k \in DOMAIN then : i < k => was[i] < was[k]
  BY <1>1, <1>2, <1>3
<1>5. \A i \in DOMAIN then : then[i] = s[was[i]]
  BY <1>1, <1>2, <1>3
<1> QED BY <1>3, <1>4, <1>5 DEF Abstract!Dropped

\* v is w after some threads have gone.
Thinned(w, v) == /\ Sound(v) /\ DOMAIN v.dir = DOMAIN w.dir
                 /\ \A f \in DOMAIN w.dir : Abstract!Dropped(View(w.dir[f]), View(v.dir[f]))

LEMMA ViewIsSequence ==
  ASSUME NEW d, DirSound(d)
  PROVE  DOMAIN View(d) = 1 .. d.num /\ d.num \in Nat
<1>1. PICK l, r : Listed(d, l, r)
  BY DEF DirSound
<1>2. View(d) = [k \in 1 .. d.num |-> View(d)[k]] /\ d.num \in Nat
  BY <1>1, Views
<1> QED BY <1>2

LEMMA ThinnedNone ==
  ASSUME NEW w, Sound(w)
  PROVE  Thinned(w, w)
<1>1. ASSUME NEW f \in DOMAIN w.dir PROVE Abstract!Dropped(View(w.dir[f]), View(w.dir[f]))
  <2>1. DOMAIN View(w.dir[f]) = 1 .. w.dir[f].num /\ w.dir[f].num \in Nat
    BY ViewIsSequence DEF Sound
  <2>2. DOMAIN View(w.dir[f]) \in SUBSET Int
    BY <2>1
  <2> QED BY <2>2, DroppedNone
<1> QED BY <1>1 DEF Thinned

LEMMA ThinnedTwice ==
  ASSUME NEW w, NEW v, NEW u, Thinned(w, v), Thinned(v, u)
  PROVE  Thinned(w, u)
<1>1. ASSUME NEW f \in DOMAIN w.dir PROVE Abstract!Dropped(View(w.dir[f]), View(u.dir[f]))
  <2>1. Abstract!Dropped(View(w.dir[f]), View(v.dir[f])) /\ Abstract!Dropped(View(v.dir[f]), View(u.dir[f]))
    BY DEF Thinned
  <2> QED BY <2>1, DroppedTwice
<1> QED BY <1>1 DEF Thinned

LEMMA WithoutKeeps ==
  ASSUME NEW w, Sound(w), NEW f \in DOMAIN w.dir, NEW t \in Slots
  PROVE  Thinned(w, Without(w, f, t))
<1>1. CASE ~Removable(w.dir[f], t)
  BY <1>1, ThinnedNone DEF Without
<1>2. CASE Removable(w.dir[f], t)
  <2> DEFINE d == w.dir[f]
             u == RemoveThread(d, t)
             v == Replaced(w, f, u)
  <2>1. DirSound(d) /\ w.index[f + 1] = d.num
    BY DEF Sound
  <2>2. DirSound(u) /\ u.num = d.num - 1 /\ \E k \in 1 .. d.num : View(u) = Less(View(d), d.num, k)
    BY <1>2, <2>1, RemoveKeeps
  <2>3. Abstract!Dropped(View(d), View(u))
    <3>1. PICK k \in 1 .. d.num : View(u) = Less(View(d), d.num, k)
      BY <2>2
    <3>2. DOMAIN View(d) = 1 .. d.num /\ d.num \in Nat
      BY <2>1, ViewIsSequence
    <3> QED BY <3>1, <3>2, DroppedOne
  <2> HIDE DEF d, u
  <2>4. /\ Sound(v) /\ f < Len(w.index)
        /\ DOMAIN v.dir = DOMAIN w.dir /\ v.dir[f] = u
        /\ \A g \in DOMAIN w.dir : g # f => v.dir[g] = w.dir[g]
    BY <2>2, ReplacedKeeps
  <2>5. Without(w, f, t) = v
    BY <1>2, <2>1, <2>2, <2>4 DEF Without, Replaced, d, u
  <2> HIDE DEF v
  <2>6. \A g \in DOMAIN w.dir : Abstract!Dropped(View(w.dir[g]), View(w.dir[g]))
    BY ThinnedNone DEF Thinned
  <2>7. \A g \in DOMAIN w.dir : Abstract!Dropped(View(w.dir[g]), View(v.dir[g]))
    BY <2>3, <2>4, <2>6 DEF d
  <2>8. Thinned(w, v)
    BY <2>4, <2>7 DEF Thinned
  <2> QED BY <2>5, <2>8
<1> QED BY <1>1, <1>2

(* The loops of a moderator, as functions of the number of turns.           *)

Sweep(w, f, t, S) == IF <<f, t>> \in S THEN Without(w, f, t) ELSE w
Sweeps(at, n, w, f, threads, N, S) ==
  at = [k \in 0 .. n |-> IF k = 0 THEN w ELSE Sweep(at[k - 1], f, threads[N + 1 - k], S)]
Cleans(at, n, w, S) == at = [k \in 0 .. n |-> IF k = 0 THEN w ELSE Swept(at[k - 1], k - 1, S)]

LEMMA SweepsExist ==
  ASSUME NEW n \in Nat, NEW w, NEW f, NEW threads, NEW N, NEW S
  PROVE  \E at : Sweeps(at, n, w, f, threads, N, S)
<1> DEFINE is(m, at) == at = [k \in 0 .. m |-> IF k = 0 THEN w ELSE Sweep(at[k - 1], f, threads[N + 1 - k], S)]
           C == {m \in 0 .. n : \E at : is(m, at)}
<1>1. 0 \in C
  <2> DEFINE at == [k \in 0 .. 0 |-> w]
  <2>1. is(0, at)
    OBVIOUS
  <2> HIDE DEF at
  <2> QED BY <2>1
<1>2. ASSUME NEW m \in 0 .. n - 1, m \in C PROVE m + 1 \in C
  <2>1. PICK at : is(m, at)
    BY <1>2
  <2> DEFINE g == [k \in 0 .. m + 1 |-> IF k = 0 THEN w ELSE Sweep(at[k - 1], f, threads[N + 1 - k], S)]
  <2>2. \A k \in 1 .. m + 1 : k - 1 \in 0 .. m /\ k - 1 \in 0 .. m + 1 /\ k # 0
    OBVIOUS
  <2>3. \A k \in 0 .. m : g[k] = at[k]
    BY <2>1
  <2>4. is(m + 1, g)
    <3>1. ASSUME NEW k \in 0 .. m + 1, k # 0 PROVE g[k - 1] = at[k - 1]
      <4>1. k \in 1 .. m + 1
        BY <3>1
      <4> QED BY <2>2, <2>3, <4>1
    <3> HIDE DEF g
    <3>2. g = [k \in 0 .. m + 1 |-> IF k = 0 THEN w ELSE Sweep(at[k - 1], f, threads[N + 1 - k], S)]
      BY DEF g
    <3> QED BY <3>1, <3>2
  <2> HIDE DEF g
  <2>5. m + 1 \in 0 .. n
    OBVIOUS
  <2> QED BY <2>4, <2>5
<1> HIDE DEF C
<1>3. n \in C
  BY <1>1, <1>2, CountUp
<1> QED BY <1>3 DEF C, Sweeps

LEMMA CleansExist ==
  ASSUME NEW n \in Nat, NEW w, NEW S
  PROVE  \E at : Cleans(at, n, w, S)
<1> DEFINE is(m, at) == at = [k \in 0 .. m |-> IF k = 0 THEN w ELSE Swept(at[k - 1], k - 1, S)]
           C == {m \in 0 .. n : \E at : is(m, at)}
<1>1. 0 \in C
  <2> DEFINE at == [k \in 0 .. 0 |-> w]
  <2>1. is(0, at)
    OBVIOUS
  <2> HIDE DEF at
  <2> QED BY <2>1
<1>2. ASSUME NEW m \in 0 .. n - 1, m \in C PROVE m + 1 \in C
  <2>1. PICK at : is(m, at)
    BY <1>2
  <2> DEFINE g == [k \in 0 .. m + 1 |-> IF k = 0 THEN w ELSE Swept(at[k - 1], k - 1, S)]
  <2>2. \A k \in 1 .. m + 1 : k - 1 \in 0 .. m /\ k - 1 \in 0 .. m + 1 /\ k # 0
    OBVIOUS
  <2>3. \A k \in 0 .. m : g[k] = at[k]
    BY <2>1
  <2>4. is(m + 1, g)
    <3>1. ASSUME NEW k \in 0 .. m + 1, k # 0 PROVE g[k - 1] = at[k - 1]
      <4>1. k \in 1 .. m + 1
        BY <3>1
      <4> QED BY <2>2, <2>3, <4>1
    <3> HIDE DEF g
    <3>2. g = [k \in 0 .. m + 1 |-> IF k = 0 THEN w ELSE Swept(at[k - 1], k - 1, S)]
      BY DEF g
    <3> QED BY <3>1, <3>2
  <2> HIDE DEF g
  <2>5. m + 1 \in 0 .. n
    OBVIOUS
  <2> QED BY <2>4, <2>5
<1> HIDE DEF C
<1>3. n \in C
  BY <1>1, <1>2, CountUp
<1> QED BY <1>3 DEF C, Cleans

LEMMA SweptKeeps ==
  ASSUME NEW w, Sound(w), NEW f, NEW S
  PROVE  Thinned(w, Swept(w, f, S))
<1>1. CASE f \notin DOMAIN w.dir
  BY <1>1, ThinnedNone DEF Swept
<1>2. CASE f \in DOMAIN w.dir
  <2> DEFINE threads == ListThreads(w.dir[f])
             n == Len(threads)
             at == CHOOSE a : Sweeps(a, n, w, f, threads, n, S)
             C == {k \in 0 .. n : Thinned(w, at[k])}
  <2>1. n \in Nat /\ threads \in [1 .. n -> Slots]
    <3>1. DirSound(w.dir[f])
      BY <1>2 DEF Sound
    <3>2. PICK l, r : Listed(w.dir[f], l, r)
      BY <3>1 DEF DirSound
    <3>3. threads = l /\ w.dir[f].num \in Nat /\ l \in [1 .. w.dir[f].num -> Slots]
      BY <3>2, ThreadsAre DEF Listed, List
    <3>4. Len(l) = w.dir[f].num
      BY <3>3
    <3> QED BY <3>3, <3>4
  <2>2. Swept(w, f, S) = at[n]
    BY <1>2 DEF Swept, Sweeps, Sweep
  <2> HIDE DEF threads, n
  <2>3. Sweeps(at, n, w, f, threads, n, S)
    <3>1. \E a : Sweeps(a, n, w, f, threads, n, S)
      BY <2>1, SweepsExist
    <3> QED BY <3>1
  <2> HIDE DEF at
  <2>4. at[0] = w /\ \A k \in 0 .. n : k # 0 => at[k] = Sweep(at[k - 1], f, threads[n + 1 - k], S)
    BY <2>1, <2>3 DEF Sweeps
  <2>5. 0 \in C
    BY <2>1, <2>4, ThinnedNone
  <2>6. ASSUME NEW k \in 0 .. n - 1, k \in C PROVE k + 1 \in C
    <3>1. k + 1 \in 0 .. n /\ k + 1 # 0 /\ (k + 1) - 1 = k /\ n + 1 - (k + 1) \in 1 .. n
      BY <2>1
    <3> DEFINE t == threads[n + 1 - (k + 1)]
    <3>2. at[k + 1] = Sweep(at[k], f, t, S) /\ t \in Slots
      BY <2>1, <2>4, <3>1
    <3> HIDE DEF t
    <3>3. Thinned(w, at[k])
      BY <2>6
    <3>4. Sound(at[k]) /\ f \in DOMAIN at[k].dir
      BY <1>2, <3>3 DEF Thinned
    <3>5. Thinned(at[k], Without(at[k], f, t))
      BY <3>2, <3>4, WithoutKeeps
    <3>6. Thinned(at[k], at[k])
      BY <3>4, ThinnedNone
    <3>7. Thinned(at[k], at[k + 1])
      BY <3>2, <3>5, <3>6 DEF Sweep
    <3>8. Thinned(w, at[k + 1])
      BY <3>3, <3>7, ThinnedTwice
    <3> QED BY <3>1, <3>8
  <2> HIDE DEF C
  <2>7. n \in C
    <3>1. \A k \in 0 .. n : k \in C
      BY <2>1, <2>5, <2>6, CountUp
    <3> QED BY <2>1, <3>1
  <2> QED BY <2>2, <2>7 DEF C
<1> QED BY <1>1, <1>2

LEMMA CleanedKeeps ==
  ASSUME NEW w, Sound(w), NEW S, Len(index) \in Nat
  PROVE  Thinned(w, Cleaned(w, S))
<1> DEFINE n == Len(index)
           at == CHOOSE a : Cleans(a, n, w, S)
           C == {k \in 0 .. n : Thinned(w, at[k])}
<1>1. Cleaned(w, S) = at[n]
  BY DEF Cleaned, Cleans
<1> HIDE DEF n
<1>2. n \in Nat
  BY DEF n
<1>3. Cleans(at, n, w, S)
  <2>1. \E a : Cleans(a, n, w, S)
    BY <1>2, CleansExist
  <2> QED BY <2>1
<1> HIDE DEF at
<1>4. at[0] = w /\ \A k \in 0 .. n : k # 0 => at[k] = Swept(at[k - 1], k - 1, S)
  BY <1>2, <1>3 DEF Cleans
<1>5. 0 \in C
  BY <1>2, <1>4, ThinnedNone
<1>6. ASSUME NEW k \in 0 .. n - 1, k \in C PROVE k + 1 \in C
  <2>1. k + 1 \in 0 .. n /\ k + 1 # 0 /\ (k + 1) - 1 = k
    BY <1>2
  <2>2. at[k + 1] = Swept(at[k], k, S)
    BY <1>4, <2>1
  <2>3. Thinned(w, at[k])
    BY <1>6
  <2>4. Sound(at[k])
    BY <2>3 DEF Thinned
  <2>5. Thinned(at[k], at[k + 1])
    BY <2>2, <2>4, SweptKeeps
  <2>6. Thinned(w, at[k + 1])
    BY <2>3, <2>5, ThinnedTwice
  <2> QED BY <2>1, <2>6
<1> HIDE DEF C
<1>7. n \in C
  <2>1. \A k \in 0 .. n : k \in C
    BY <1>2, <1>5, <1>6, CountUp
  <2> QED BY <1>2, <2>1
<1> QED BY <1>1, <1>7 DEF C

-----------------------------------------------------------------------------
(* The handlers. *)

\* What is read from all the directories.
Seen(w) == [f \in 0 .. MaxForums - 1 |-> IF f \in DOMAIN w.dir THEN View(w.dir[f]) ELSE <<>>]

BoardStep(b, c) ==
  \/ \E f \in 0 .. MaxForums - 1 :
       (\A g \in (0 .. MaxForums - 1) \ {f} : c[g] = b[g]) /\ Abstract!Changed(b[f], c[f])
  \/ \A f \in 0 .. MaxForums - 1 : Abstract!Dropped(b[f], c[f])

\* v may follow w.
Leads(w, v) == Sound(v) /\ BoardStep(Seen(w), Seen(v))

LEMMA SoundForums ==
  ASSUME NEW w, Sound(w), NEW f \in DOMAIN w.dir
  PROVE  f \in 0 .. MaxForums - 1 /\ DirSound(w.dir[f]) /\ w.index[f + 1] = w.dir[f].num
<1>1. /\ w.index \in Seq(Nat) /\ Len(w.index) <= MaxForums /\ DOMAIN w.dir = 0 .. Len(w.index) - 1
      /\ DirSound(w.dir[f]) /\ w.index[f + 1] = w.dir[f].num
  BY DEF Sound
<1> QED BY <1>1, ForumConstants

LEMMA ReplacedLeads ==
  ASSUME NEW w, Sound(w), NEW f \in DOMAIN w.dir, NEW d, DirSound(d),
         Abstract!Changed(View(w.dir[f]), View(d))
  PROVE  Leads(w, Replaced(w, f, d))
<1> DEFINE v == Replaced(w, f, d)
<1>1. /\ Sound(v) /\ DOMAIN v.dir = DOMAIN w.dir /\ v.dir[f] = d
      /\ \A g \in DOMAIN w.dir : g # f => v.dir[g] = w.dir[g]
  BY ReplacedKeeps
<1>2. f \in 0 .. MaxForums - 1
  BY SoundForums
<1> HIDE DEF v
<1>3. \A g \in (0 .. MaxForums - 1) \ {f} : Seen(v)[g] = Seen(w)[g]
  BY <1>1 DEF Seen
<1>4. Seen(w)[f] = View(w.dir[f]) /\ Seen(v)[f] = View(d)
  BY <1>1, <1>2 DEF Seen
<1>5. BoardStep(Seen(w), Seen(v))
  BY <1>2, <1>3, <1>4 DEF BoardStep
<1> QED BY <1>1, <1>5 DEF Leads, v

LEMMA DroppedAll ==
  ASSUME NEW s, NEW now, DOMAIN now = {}
  PROVE  Abstract!Dropped(s, now)
<1> DEFINE was == [i \in DOMAIN now |-> 0]
<1>1. was \in [DOMAIN now -> DOMAIN s]
  OBVIOUS
<1> HIDE DEF was
<1> QED BY <1>1 DEF Abstract!Dropped

LEMMA ThinnedLeads ==
  ASSUME NEW w, NEW v, Thinned(w, v)
  PROVE  Leads(w, v)
<1>1. Sound(v) /\ DOMAIN v.dir = DOMAIN w.dir
  BY DEF Thinned
<1>2. ASSUME NEW f \in 0 .. MaxForums - 1 PROVE Abstract!Dropped(Seen(w)[f], Seen(v)[f])
  <2>1. CASE f \in DOMAIN w.dir
    <3>1. Abstract!Dropped(View(w.dir[f]), View(v.dir[f]))
      BY <2>1 DEF Thinned
    <3> QED BY <1>1, <2>1, <3>1 DEF Seen
  <2>2. CASE f \notin DOMAIN w.dir
    <3>1. Seen(v)[f] = <<>> /\ DOMAIN <<>> = {}
      BY <1>1, <2>2 DEF Seen
    <3> QED BY <3>1, DroppedAll
  <2> QED BY <2>1, <2>2
<1> QED BY <1>1, <1>2 DEF Leads, BoardStep

\* A forum without threads.
LEMMA NewIs ==
  ASSUME NEW d, d = [NewForum EXCEPT !.file = <<>>]
  PROVE  DirSound(d) /\ d.num = 0 /\ DOMAIN View(d) = {}
<1> DEFINE none == [i \in 1 .. 0 |-> 0]
           slot == [t \in Slots |-> Unused]
           file == <<>>
<1>1. slot \in [Slots -> Cell]
  BY SlotsAre DEF Unused, Cell
<1>2. file \in Files /\ DOMAIN file = {}
  <2>1. file \in [{} -> File] /\ {} \in SUBSET Slots /\ DOMAIN file = {}
    OBVIOUS
  <2> HIDE DEF file
  <2> QED BY <2>1, AreFiles
<1>3. d = [num |-> 0, used |-> -1, free |-> -1, next |-> 0, threads |-> 0, slot |-> slot, file |-> file]
  BY DEF NewForum
<1>4. List(none, 0) /\ Members(none, 0) = {} /\ Item(none, 0, 1) = -1
  BY DEF List, Members, Item
<1>5. Linked(slot, none, 0) /\ Freed(slot, none, 0)
  BY DEF Linked, Freed
<1> HIDE DEF none, slot, file
<1>6. d \in Dir
  <2>1. 0 \in 0 .. MaxSlots /\ 0 \in Nat
    BY ForumConstants
  <2>2. -1 \in Link
    BY SlotsAre
  <2> DEFINE no == -1
  <2> HIDE DEF no
  <2>3. [num |-> 0, used |-> no, free |-> no, next |-> 0, threads |-> 0, slot |-> slot, file |-> file] \in Dir
    BY <1>1, <1>2, <2>1, <2>2 DEF Dir, no
  <2> QED BY <1>3, <2>3 DEF no
<1>7. /\ d.num = 0 /\ d.used = -1 /\ d.free = -1 /\ d.next = 0 /\ d.threads = 0 /\ d.slot = slot /\ d.file = file
      /\ d.next - d.num = 0
  BY <1>3
<1>8. Listed(d, none, none)
  <2>1. Members(none, 0) \cup Members(none, 0) = 0 .. 0 - 1
    BY <1>4
  <2> QED BY <1>2, <1>4, <1>5, <1>6, <1>7, <2>1 DEF Listed
<1>9. DirSound(d)
  BY <1>2, <1>7, <1>8 DEF DirSound
<1>10. DOMAIN View(d) = 1 .. 0
  BY <1>7, <1>9, ViewIsSequence
<1> QED BY <1>7, <1>9, <1>10

LEMMA CreateLeads ==
  ASSUME ~moved, Sound(Now), CreateForum
  PROVE  Leads(Now, Now')
<1> DEFINE f == Len(index)
           d == [NewForum EXCEPT !.file = <<>>]
           w == Now
           v == Now'
<1>1. /\ index \in Seq(Nat) /\ Len(index) <= MaxForums
      /\ DOMAIN dir = 0 .. f - 1 /\ dir = [g \in DOMAIN dir |-> dir[g]]
      /\ \A g \in DOMAIN dir : DirSound(dir[g]) /\ index[g + 1] = dir[g].num
  BY DEF Sound, Now
<1>2. f \in Nat /\ f \notin DOMAIN dir /\ f < MaxForums
  BY <1>1 DEF CreateForum
<1>3. index' = Append(index, 0) /\ dir' = Entered(dir, f, d)
  BY <1>2 DEF CreateForum
<1>4. DirSound(d) /\ d.num = 0 /\ DOMAIN View(d) = {}
  BY NewIs
<1> HIDE DEF d
<1>5. /\ index' \in Seq(Nat) /\ Len(index') = f + 1 /\ index'[f + 1] = 0
      /\ \A i \in 1 .. f : index'[i] = index[i]
  BY <1>1, <1>3, AppendProperties
<1>6. /\ DOMAIN dir' = DOMAIN dir \cup {f} /\ dir'[f] = d /\ \A g \in DOMAIN dir : dir'[g] = dir[g]
      /\ dir' = [g \in DOMAIN dir' |-> dir'[g]]
  BY <1>2, <1>3 DEF Entered
<1>7. Sound(v)
  <2>1. DOMAIN dir' = 0 .. (f + 1) - 1 /\ f + 1 <= MaxForums
    BY <1>1, <1>2, <1>6, ForumConstants
  <2>2. ASSUME NEW g \in DOMAIN dir' PROVE DirSound(dir'[g]) /\ index'[g + 1] = dir'[g].num
    <3>1. CASE g = f
      BY <1>4, <1>5, <1>6, <3>1
    <3>2. CASE g # f
      <4>1. g \in DOMAIN dir /\ g + 1 \in 1 .. f
        BY <1>1, <1>2, <1>6, <3>2
      <4> QED BY <1>1, <1>5, <1>6, <4>1
    <3> QED BY <3>1, <3>2
  <2> QED BY <1>5, <1>6, <2>1, <2>2 DEF Sound, Now
<1>8. ASSUME NEW g \in 0 .. MaxForums - 1 PROVE Abstract!Dropped(Seen(w)[g], Seen(v)[g])
  <2>1. CASE g \in DOMAIN dir
    <3>1. Seen(v)[g] = View(dir[g]) /\ Seen(w)[g] = View(dir[g])
      BY <1>6, <2>1 DEF Seen, Now
    <3>2. DOMAIN View(dir[g]) \in SUBSET Int
      <4>1. DOMAIN View(dir[g]) = 1 .. dir[g].num /\ dir[g].num \in Nat
        BY <1>1, <2>1, ViewIsSequence
      <4> QED BY <4>1
    <3> QED BY <3>1, <3>2, DroppedNone
  <2>2. CASE g \notin DOMAIN dir
    <3>1. Seen(v)[g] = View(d) \/ Seen(v)[g] = <<>>
      BY <1>6, <2>2 DEF Seen, Now
    <3>2. DOMAIN Seen(v)[g] = {}
      BY <1>4, <3>1
    <3> QED BY <3>2, DroppedAll
  <2> QED BY <2>1, <2>2
<1> QED BY <1>7, <1>8 DEF Leads, BoardStep

LEMMA DeleteLeads ==
  ASSUME ~moved, Sound(Now), NEW f \in DOMAIN dir, DeleteForum(f), ~moved'
  PROVE  Leads(Now, Now')
<1> DEFINE n == Len(index)
           less == Less(index, n, n)
           w == Now
           v == Now'
<1>1. /\ index \in Seq(Nat) /\ n <= MaxForums
      /\ DOMAIN dir = 0 .. n - 1 /\ dir = [g \in DOMAIN dir |-> dir[g]]
      /\ \A g \in DOMAIN dir : DirSound(dir[g]) /\ index[g + 1] = dir[g].num
  BY DEF Sound, Now
<1>2. n \in Nat /\ f \in 0 .. n - 1
  BY <1>1
<1>3. f = n - 1
  BY <1>1, <1>2 DEF DeleteForum
<1>4. /\ DOMAIN dir' = DOMAIN dir \ {f} /\ \A g \in DOMAIN dir' : dir'[g] = dir[g]
      /\ dir' = [g \in DOMAIN dir' |-> dir'[g]]
  BY DEF DeleteForum, Restrict
<1>5. index' = less
  <2>1. index = [i \in 1 .. n |-> index[i]] /\ n \in 1 .. n /\ f + 1 = n
    BY <1>1, <1>2, <1>3
  <2>2. RemoveAt(index, n) = less
    <3> HIDE DEF n
    <3> QED BY <1>2, <2>1, SequencesAre DEF n
  <2>3. index' = RemoveAt(index, f + 1)
    BY <1>2, <1>3 DEF DeleteForum
  <2> QED BY <2>1, <2>2, <2>3
<1>6. index' \in Seq(Nat) /\ Len(index') = n - 1 /\ \A i \in 1 .. n - 1 : index'[i] = index[i]
  <2>1. \A i \in 1 .. n - 1 : less[i] = index[i] /\ index[i] \in Nat
    BY <1>1, <1>2 DEF Less
  <2>2. less \in [1 .. n - 1 -> Nat]
    BY <1>1, <1>2, <2>1 DEF Less
  <2> HIDE DEF less
  <2>3. n - 1 \in Nat
    BY <1>2
  <2> QED BY <1>5, <2>1, <2>2, <2>3
<1> HIDE DEF n
<1>7. Sound(v)
  <2>1. DOMAIN dir' = 0 .. (n - 1) - 1 /\ n - 1 <= MaxForums
    BY <1>1, <1>2, <1>3, <1>4, ForumConstants
  <2>2. ASSUME NEW g \in DOMAIN dir' PROVE DirSound(dir'[g]) /\ index'[g + 1] = dir'[g].num
    <3>1. g \in DOMAIN dir /\ g + 1 \in 1 .. n - 1
      BY <1>2, <1>4, <2>1
    <3> QED BY <1>1, <1>4, <1>6, <3>1
  <2> QED BY <1>4, <1>6, <2>1, <2>2 DEF Sound, Now
<1>8. ASSUME NEW g \in 0 .. MaxForums - 1 PROVE Abstract!Dropped(Seen(w)[g], Seen(v)[g])
  <2>1. CASE g \in DOMAIN dir'
    <3>1. Seen(v)[g] = View(dir[g]) /\ Seen(w)[g] = View(dir[g])
      BY <1>4, <2>1 DEF Seen, Now
    <3>2. DOMAIN View(dir[g]) \in SUBSET Int
      <4>1. DOMAIN View(dir[g]) = 1 .. dir[g].num /\ dir[g].num \in Nat
        BY <1>1, <1>4, <2>1, ViewIsSequence
      <4> QED BY <4>1
    <3> QED BY <3>1, <3>2, DroppedNone
  <2>2. CASE g \notin DOMAIN dir'
    <3>1. Seen(v)[g] = <<>> /\ DOMAIN <<>> = {}
      BY <2>2 DEF Seen, Now
    <3> QED BY <3>1, DroppedAll
  <2> QED BY <2>1, <2>2
<1> QED BY <1>7, <1>8 DEF Leads, BoardStep

\* A directory is replaced, and the index is or need not be written.
LEMMA ReplacedNow ==
  ASSUME Sound(Now), NEW f \in DOMAIN dir, NEW d, DirSound(d), Abstract!Changed(View(dir[f]), View(d)),
         dir' = [dir EXCEPT ![f] = d],
         index' = [index EXCEPT ![f + 1] = d.num] \/ (index' = index /\ d.num = dir[f].num)
  PROVE  Leads(Now, Now')
<1> DEFINE w == Now
           v == Replaced(w, f, d)
<1>1. w.dir = dir /\ w.index = index
  BY DEF Now
<1>2. Leads(w, v)
  BY <1>1, ReplacedLeads
<1>3. index' = [index EXCEPT ![f + 1] = d.num]
  <2>1. index[f + 1] = dir[f].num /\ index \in Seq(Nat)
    BY <1>1 DEF Sound
  <2>2. d.num = dir[f].num => [index EXCEPT ![f + 1] = d.num] = index
    BY <2>1
  <2> QED BY <2>2
<1>4. Now' = v
  BY <1>1, <1>3 DEF Now, Replaced
<1> QED BY <1>2, <1>4

LEMMA OpenLeads ==
  ASSUME Sound(Now), NEW f \in DOMAIN dir, OpenThread(f)
  PROVE  Leads(Now, Now')
<1> DEFINE d == dir[f]
           a == AddThread(d)
<1>1. PICK p \in Post :
        /\ NewSlot(d) \in Slots
        /\ dir' = [dir EXCEPT ![f] = AddPost(a, NewSlot(d), p)]
        /\ index' = IF f < Len(index) THEN [index EXCEPT ![f + 1] = a.threads] ELSE index
  BY DEF OpenThread
<1> DEFINE v == AddPost(a, NewSlot(d), p)
<1>2. DirSound(d) /\ f < Len(index)
  <2>1. Now.dir = dir /\ Now.index = index
    BY DEF Now
  <2>2. DOMAIN dir = 0 .. Len(index) - 1 /\ index \in Seq(Nat) /\ DirSound(d)
    BY <2>1 DEF Sound
  <2> QED BY <2>2
<1>3. DirSound(v) /\ v.num = d.num + 1 /\ Abstract!Opened(View(d), View(v))
  BY <1>1, <1>2, OpenKeeps
<1>4. a.threads = d.num + 1
  <2>1. d.threads = d.num
    BY <1>2, SoundNum
  <2>2. d \in Dir
    BY <1>2 DEF DirSound, Listed
  <2> QED BY <2>1, <2>2 DEF AddThread, Dir
<1> HIDE DEF v, a, d
<1>5. Abstract!Changed(View(d), View(v))
  BY <1>3 DEF Abstract!Changed
<1>6. dir' = [dir EXCEPT ![f] = v] /\ index' = [index EXCEPT ![f + 1] = v.num]
  BY <1>1, <1>2, <1>3, <1>4 DEF v
<1> QED BY <1>3, <1>5, <1>6, ReplacedNow DEF d

LEMMA ReplyLeads ==
  ASSUME Sound(Now), NEW f \in DOMAIN dir, NEW t \in DOMAIN dir[f].file, Reply(f, t)
  PROVE  Leads(Now, Now')
<1> DEFINE d == dir[f]
<1>1. PICK p \in Post : dir' = [dir EXCEPT ![f] = AddPost(d, t, p)] /\ index' = index
  BY DEF Reply
<1> DEFINE v == AddPost(d, t, p)
<1>2. DirSound(d)
  BY DEF Sound, Now
<1>3. DirSound(v) /\ v.num = d.num /\ Abstract!Replied(View(d), View(v))
  BY <1>2, ReplyKeeps
<1> HIDE DEF v
<1>4. Abstract!Changed(View(d), View(v))
  BY <1>3 DEF Abstract!Changed
<1>5. dir' = [dir EXCEPT ![f] = v] /\ index' = index /\ v.num = dir[f].num
  BY <1>1, <1>3 DEF v
<1> QED BY <1>3, <1>4, <1>5, ReplacedNow

LEMMA EditLeads ==
  ASSUME Sound(Now), NEW f \in DOMAIN dir, NEW t \in DOMAIN dir[f].file, EditPost(f, t)
  PROVE  Leads(Now, Now')
<1> DEFINE d == dir[f]
<1>1. PICK k \in 0 .. d.file[t].num - 1, p \in Post :
        dir' = [dir EXCEPT ![f].file[t] = Rewritten(dir[f].file[t], k, p)] /\ index' = index
  BY DEF EditPost
<1> DEFINE v == [d EXCEPT !.file[t] = Rewritten(d.file[t], k, p)]
<1>2. DirSound(d)
  BY DEF Sound, Now
<1>3. DirSound(v) /\ v.num = d.num /\ Abstract!Edited(View(d), View(v))
  BY <1>2, EditKeeps
<1>4. dir' = [dir EXCEPT ![f] = v]
  BY <1>1
<1> HIDE DEF v
<1>5. Abstract!Changed(View(d), View(v))
  BY <1>3 DEF Abstract!Changed
<1>6. dir' = [dir EXCEPT ![f] = v] /\ index' = index /\ v.num = dir[f].num
  BY <1>1, <1>3, <1>4
<1> QED BY <1>3, <1>5, <1>6, ReplacedNow

LEMMA BecomeLeads ==
  ASSUME NEW w, Leads(Now, w), Become(w)
  PROVE  Leads(Now, Now')
<1>1. Now'.dir = w.dir /\ Now'.index = w.index
  BY DEF Now, Become
<1> DEFINE v == Now'
<1> HIDE DEF v
<1>2. v.dir = w.dir /\ v.index = w.index
  BY <1>1 DEF v
<1>3. Sound(w) /\ BoardStep(Seen(Now), Seen(w))
  BY DEF Leads
<1>4. Sound(v)
  BY <1>2, <1>3 DEF Sound
<1>5. Seen(v) = Seen(w)
  BY <1>2 DEF Seen
<1>6. Leads(Now, v)
  BY <1>3, <1>4, <1>5 DEF Leads
<1> QED BY <1>6 DEF v

LEMMA RetractLeads ==
  ASSUME Sound(Now), NEW f \in DOMAIN dir, NEW t \in DOMAIN dir[f].file, DeletePost(f, t)
  PROVE  Leads(Now, Now')
<1> DEFINE d == dir[f]
<1>1. PICK k \in 0 .. d.file[t].num - 1 :
        LET w == [Now EXCEPT !.dir[f] = WithThread(d, t, Cut(d.file[t], k))]
        IN Become(IF d.file[t].num = 1 THEN Without(w, f, t) ELSE w)
  BY DEF DeletePost
<1> DEFINE u == WithThread(d, t, Cut(d.file[t], k))
           v == RemoveThread(u, t)
           w == [dir |-> [dir EXCEPT ![f] = u], index |-> index]
<1>2. Become(IF d.file[t].num = 1 THEN Without(w, f, t) ELSE w)
  <2>1. [Now EXCEPT !.dir[f] = u] = w
    BY DEF Now
  <2> HIDE DEF u, w
  <2> QED BY <1>1, <2>1 DEF u
<1>3. DirSound(d) /\ index[f + 1] = d.num /\ f < Len(index) /\ index \in Seq(Nat)
  <2>1. Now.dir = dir /\ Now.index = index
    BY DEF Now
  <2>2. DOMAIN dir = 0 .. Len(index) - 1 /\ index \in Seq(Nat) /\ DirSound(d) /\ index[f + 1] = d.num
    BY <2>1 DEF Sound
  <2> QED BY <2>2
<1>4. /\ d.file[t].num # 1 => DirSound(u) /\ u.num = d.num /\ Abstract!Retracted(View(d), View(u))
      /\ d.file[t].num = 1 => /\ Removable(u, t) /\ DirSound(v) /\ v.num = d.num - 1
                              /\ Abstract!Retracted(View(d), View(v))
  BY <1>3, RetractKeeps
<1> HIDE DEF u, v
<1>5. CASE d.file[t].num # 1
  <2>1. dir' = [dir EXCEPT ![f] = u] /\ index' = index
    BY <1>2, <1>5 DEF Become
  <2>2. Abstract!Changed(View(d), View(u)) /\ DirSound(u) /\ u.num = dir[f].num
    BY <1>4, <1>5 DEF Abstract!Changed
  <2> QED BY <2>1, <2>2, ReplacedNow
<1>6. CASE d.file[t].num = 1
  <2>1. w.dir[f] = u /\ w.index = index
    OBVIOUS
  <2>2. Without(w, f, t) = [dir |-> [w.dir EXCEPT ![f] = v], index |-> [index EXCEPT ![f + 1] = index[f + 1] - 1]]
    <3>1. Removable(w.dir[f], t) /\ f < Len(w.index)
      BY <1>3, <1>4, <1>6, <2>1
    <3> HIDE DEF w
    <3> QED BY <2>1, <3>1 DEF Without, v
  <2>3. [w.dir EXCEPT ![f] = v] = [dir EXCEPT ![f] = v]
    OBVIOUS
  <2>4. Become(Without(w, f, t))
    BY <1>2, <1>6
  <2> HIDE DEF w
  <2>5. dir' = [dir EXCEPT ![f] = v] /\ index' = [index EXCEPT ![f + 1] = v.num]
    <3>1. dir' = Without(w, f, t).dir /\ index' = Without(w, f, t).index
      BY <2>4 DEF Become
    <3>2. v.num = index[f + 1] - 1
      BY <1>3, <1>4, <1>6
    <3>3. Without(w, f, t).dir = [dir EXCEPT ![f] = v]
      BY <2>2, <2>3
    <3>4. Without(w, f, t).index = [index EXCEPT ![f + 1] = index[f + 1] - 1]
      BY <2>2
    <3> QED BY <3>1, <3>2, <3>3, <3>4
  <2>6. Abstract!Changed(View(d), View(v)) /\ DirSound(v)
    BY <1>4, <1>6 DEF Abstract!Changed
  <2> QED BY <2>5, <2>6, ReplacedNow
<1> QED BY <1>5, <1>6

LEMMA RemoveLeads ==
  ASSUME Sound(Now), NEW f \in DOMAIN dir, NEW t \in Slots, DeleteThread(f, t)
  PROVE  Leads(Now, Now')
<1>1. f \in DOMAIN Now.dir
  BY DEF Now
<1>2. Thinned(Now, Without(Now, f, t))
  BY <1>1, WithoutKeeps
<1>3. Leads(Now, Without(Now, f, t)) /\ Become(Without(Now, f, t))
  BY <1>2, ThinnedLeads DEF DeleteThread
<1> QED BY <1>3, BecomeLeads

LEMMA CleanLeads ==
  ASSUME Sound(Now), Clean
  PROVE  Leads(Now, Now')
<1>1. PICK S : Become(Cleaned(Now, S))
  BY DEF Clean
<1>2. Len(index) \in Nat
  BY DEF Sound, Now
<1>3. Thinned(Now, Cleaned(Now, S))
  BY <1>2, CleanedKeeps
<1>4. Leads(Now, Cleaned(Now, S))
  BY <1>3, ThinnedLeads
<1> QED BY <1>1, <1>4, BecomeLeads

-----------------------------------------------------------------------------
(* The invariant. *)

IInv == moved \in BOOLEAN /\ (~moved => Sound(Now))

LEMMA Starts ==
  ASSUME Init
  PROVE  IInv
<1> DEFINE d == [NewForum EXCEPT !.file = <<>>]
<1>1. d = NewForum
  BY DEF NewForum
<1>2. DirSound(d) /\ d.num = 0
  BY NewIs
<1> HIDE DEF d
<1>3. index = [k \in 1 .. MaxForums |-> 0] /\ dir = [f \in 0 .. MaxForums - 1 |-> d] /\ MaxForums \in Nat
  BY <1>1, ForumConstants DEF Init
<1>4. index \in Seq(Nat) /\ Len(index) = MaxForums /\ \A k \in 1 .. MaxForums : index[k] = 0
  BY <1>3
<1>5. DOMAIN dir = 0 .. MaxForums - 1 /\ \A f \in 0 .. MaxForums - 1 : dir[f] = d /\ f + 1 \in 1 .. MaxForums
  BY <1>3
<1>6. dir = [f \in DOMAIN dir |-> dir[f]] /\ Len(index) <= MaxForums
  BY <1>3, <1>4
<1>7. \A f \in DOMAIN dir : DirSound(dir[f]) /\ index[f + 1] = dir[f].num
  BY <1>2, <1>4, <1>5
<1>8. Sound(Now)
  BY <1>4, <1>5, <1>6, <1>7 DEF Sound, Now
<1> QED BY <1>8 DEF IInv, Init

\* Until a forum is deleted that is not the last, a step is one of Board's.
LEMMA Steps ==
  ASSUME IInv, Next, ~moved, ~moved'
  PROVE  Leads(Now, Now')
<1>1. Sound(Now)
  BY DEF IInv
<1>2. CASE CreateForum
  BY <1>1, <1>2, CreateLeads
<1>3. CASE Clean
  BY <1>1, <1>3, CleanLeads
<1>4. ASSUME NEW f \in DOMAIN dir, DeleteForum(f) PROVE Leads(Now, Now')
  BY <1>1, <1>4, DeleteLeads
<1>5. ASSUME NEW f \in DOMAIN dir, OpenThread(f) PROVE Leads(Now, Now')
  BY <1>1, <1>5, OpenLeads
<1>6. ASSUME NEW f \in DOMAIN dir, NEW t \in Slots, DeleteThread(f, t) PROVE Leads(Now, Now')
  BY <1>1, <1>6, RemoveLeads
<1>7. ASSUME NEW f \in DOMAIN dir, NEW t \in DOMAIN dir[f].file, Reply(f, t) PROVE Leads(Now, Now')
  BY <1>1, <1>7, ReplyLeads
<1>8. ASSUME NEW f \in DOMAIN dir, NEW t \in DOMAIN dir[f].file, EditPost(f, t) PROVE Leads(Now, Now')
  BY <1>1, <1>8, EditLeads
<1>9. ASSUME NEW f \in DOMAIN dir, NEW t \in DOMAIN dir[f].file, DeletePost(f, t) PROVE Leads(Now, Now')
  BY <1>1, <1>9, RetractLeads
<1> QED BY <1>2, <1>3, <1>4, <1>5, <1>6, <1>7, <1>8, <1>9 DEF Next

LEMMA MovedStays ==
  ASSUME IInv, [Next]_vars
  PROVE  moved' \in BOOLEAN /\ (moved => moved')
<1>0. moved \in BOOLEAN
  BY DEF IInv
<1>1. ASSUME NEW f \in DOMAIN dir, DeleteForum(f) PROVE moved' \in BOOLEAN /\ (moved => moved')
  <2>1. moved' = (moved \/ f < Len(index) - 1)
    BY <1>1 DEF DeleteForum
  <2> QED BY <1>0, <2>1, Zenon
<1>2. CASE moved' = moved
  BY <1>0, <1>2
<1> QED BY <1>1, <1>2 DEF Next, vars, CreateForum, Clean, OpenThread, Reply, EditPost, DeletePost, DeleteThread, Become

LEMMA Inductive ==
  ASSUME IInv, [Next]_vars
  PROVE  IInv'
<1>1. moved' \in BOOLEAN /\ (moved => moved')
  BY MovedStays
<1>2. ASSUME ~moved' PROVE Sound(Now')
  <2>1. ~moved
    BY <1>1, <1>2
  <2>2. CASE Next
    BY <1>2, <2>1, <2>2, Steps DEF Leads
  <2>3. CASE UNCHANGED vars
    <3>1. Now' = Now
      BY <2>3 DEF Now, vars
    <3> QED BY <2>1, <3>1 DEF IInv
  <2> QED BY <2>2, <2>3
<1>3. Sound(Now)' <=> Sound(Now')
  BY DEF Sound
<1> QED BY <1>1, <1>2, <1>3 DEF IInv

LEMMA Always == Spec => []IInv
<1>1. Init => IInv
  BY Starts
<1>2. IInv /\ [Next]_vars => IInv'
  BY Inductive
<1> QED BY <1>1, <1>2, PTL DEF Spec

-----------------------------------------------------------------------------
(* The properties. *)

\* A directory in order has the types, the links and the slots it should.
LEMMA DirTyped ==
  ASSUME NEW d, DirSound(d)
  PROVE  /\ d.used \in Link /\ d.free \in Link /\ d.next \in 0 .. MaxSlots
         /\ d.slot \in [Slots -> [prev: Link, next: Link, free: BOOLEAN, posts: Nat]]
         /\ DOMAIN d.file = {t \in Slots : t < d.next /\ ~d.slot[t].free}
         /\ \A t \in DOMAIN d.file : d.file[t].num > 0
<1>1. PICK l, r : Listed(d, l, r)
  BY DEF DirSound
<1>2. d \in Dir
  BY <1>1 DEF Listed
<1>3. \A t \in DOMAIN d.file : d.file[t].num > 0
  BY DEF DirSound, Filed
<1>4. DOMAIN d.file = {t \in Slots : t < d.next /\ ~d.slot[t].free}
  BY <1>1, InUse
<1>5. d.used \in Link /\ d.free \in Link /\ d.next \in 0 .. MaxSlots /\ d.slot \in [Slots -> Cell]
  BY <1>2 DEF Dir
<1> QED BY <1>3, <1>4, <1>5 DEF Cell

LEMMA DirLinked ==
  ASSUME NEW d, DirSound(d)
  PROVE  LET threads == ListThreads(d) IN
         /\ \A k \in DOMAIN threads : threads[k] # -1 /\
              d.slot[threads[k]].prev = IF k = 1 THEN -1 ELSE threads[k - 1]
         /\ Nth(d, d.num) = -1
<1>1. PICK l, r : Listed(d, l, r)
  BY DEF DirSound
<1> DEFINE n == d.num
<1>2. n \in Nat /\ l \in [1 .. n -> Slots] /\ Linked(d.slot, l, n)
  BY <1>1 DEF Listed, List
<1>3. ListThreads(d) = l /\ Nth(d, n) = -1
  BY <1>1, ThreadsAre
<1> HIDE DEF n
<1>4. ASSUME NEW k \in 1 .. n
      PROVE  l[k] # -1 /\ d.slot[l[k]].prev = IF k = 1 THEN -1 ELSE l[k - 1]
  <2>1. l[k] \in Slots /\ d.slot[l[k]].prev = Item(l, n, k - 1)
    BY <1>2 DEF Linked
  <2>2. Item(l, n, k - 1) = IF k = 1 THEN -1 ELSE l[k - 1]
    <3>1. k \in Int /\ (k - 1 \in 1 .. n <=> k # 1)
      BY <1>2
    <3> QED BY <3>1 DEF Item
  <2> QED BY <2>1, <2>2, SlotsAre
<1>5. DOMAIN l = 1 .. n
  BY <1>2
<1> QED BY <1>3, <1>4, <1>5 DEF n

LEMMA DirSlots ==
  ASSUME NEW d, DirSound(d)
  PROVE  LET free == {FreeSlot(d, k) : k \in 0 .. d.next - d.num - 1} IN
         /\ ToSet(ListThreads(d)) \cap free = {}
         /\ ToSet(ListThreads(d)) \cup free = 0 .. d.next - 1
         /\ FreeSlot(d, d.next - d.num) = -1
<1>1. PICK l, r : Listed(d, l, r)
  BY DEF DirSound
<1> DEFINE n == d.num
           m == d.next - d.num
<1>2. /\ {FreeSlot(d, k) : k \in 0 .. d.next - d.num - 1} = Members(r, m)
      /\ FreeSlot(d, d.next - d.num) = -1
  BY <1>1, FreeSlotsAre
<1>3. ListThreads(d) = l
  BY <1>1, ThreadsAre
<1>4. ToSet(l) = Members(l, n)
  <2>1. DOMAIN l = 1 .. n
    BY <1>1 DEF Listed, List
  <2> QED BY <2>1 DEF ToSet, Members
<1>5. Members(l, n) \cap Members(r, m) = {}
  BY <1>1, ListsApart
<1>6. Members(l, n) \cup Members(r, m) = 0 .. d.next - 1
  BY <1>1 DEF Listed
<1> HIDE DEF n, m
<1> QED BY <1>2, <1>3, <1>4, <1>5, <1>6

LEMMA DirChained ==
  ASSUME NEW d, DirSound(d), NEW t \in DOMAIN d.file
  PROVE  Offset(d.file[t], d.file[t].num) = d.file[t].end
<1> DEFINE file == d.file[t]
<1>1. PICK l, pos : Holds(file, l, pos)
  BY DEF DirSound, Filed
<1> HIDE DEF file
<1>2. file.num \in 0 .. file.num /\ file.end = pos[file.num]
  <2>1. file.num \in Nat /\ file.end = pos[file.num]
    BY <1>1 DEF Holds, Placed
  <2> QED BY <2>1
<1>3. Offset(file, file.num) = pos[file.num]
  BY <1>1, <1>2, OffsetIs
<1> QED BY <1>2, <1>3 DEF file

LEMMA SoundIsSound ==
  ASSUME moved \in BOOLEAN, Sound(Now)
  PROVE  FilesSound
<1>1. Now.dir = dir /\ Now.index = index
  BY DEF Now
<1>2. \A f \in DOMAIN dir : f \in 0 .. MaxForums - 1 /\ DirSound(dir[f])
  BY <1>1, SoundForums
<1>3. TypeOK
  <2>1. index \in Seq(Nat)
    BY <1>1 DEF Sound
  <2>2. DOMAIN dir \subseteq 0 .. MaxForums - 1
    BY <1>2
  <2> QED BY <1>2, <2>1, <2>2, DirTyped DEF TypeOK
<1>4. LinksMutual
  BY <1>2, DirLinked DEF LinksMutual
<1>5. SlotsExact
  BY <1>2, DirSlots DEF SlotsExact
<1>6. ChainsReachTheEnd
  BY <1>2, DirChained DEF ChainsReachTheEnd
<1> QED BY <1>3, <1>4, <1>5, <1>6 DEF FilesSound

LEMMA SoundCounts ==
  ASSUME Sound(Now)
  PROVE  /\ DOMAIN dir = 0 .. Len(index) - 1
         /\ \A f \in DOMAIN dir : LET d == dir[f] IN
              /\ index[f + 1] = d.num /\ d.threads = d.num
              /\ \A t \in DOMAIN d.file : d.slot[t].posts = d.file[t].num /\ d.file[t].posts = d.file[t].num
<1>1. /\ DOMAIN dir = 0 .. Len(index) - 1
      /\ \A f \in DOMAIN dir : DirSound(dir[f]) /\ index[f + 1] = dir[f].num
  BY DEF Sound, Now
<1>2. ASSUME NEW f \in DOMAIN dir PROVE dir[f].threads = dir[f].num
  BY <1>1, SoundNum
<1>3. ASSUME NEW f \in DOMAIN dir, NEW t \in DOMAIN dir[f].file
      PROVE  dir[f].slot[t].posts = dir[f].file[t].num /\ dir[f].file[t].posts = dir[f].file[t].num
  BY <1>1 DEF DirSound, Filed
<1> QED BY <1>1, <1>2, <1>3

\* However often threads are opened, replied to, edited and removed: the list
\* of threads can be walked both ways and ends where its length says, every
\* slot is in it or free and never both, a thread has a file of posts exactly
\* while its slot is in use, and the offsets in it lead through all posts to
\* the end (dbForumAddThread, dbForumRemoveThread, dbForumAddPost,
\* dbForumRemovePost, dbForumEditPost), as long as only the last forum is
\* deleted.
THEOREM FilesStaySound == Spec => [](InStep => FilesSound)
<1>1. IInv => (InStep => FilesSound)
  BY SoundIsSound DEF IInv, InStep
<1> QED BY <1>1, Always, PTL

\* The three counts of threads and the three counts of posts agree whichever
\* handler wrote last, as long as only the last forum is deleted.
THEOREM CountsStayEqual == Spec => []CountsAgree
<1>1. IInv => CountsAgree
  BY SoundCounts DEF IInv, CountsAgree
<1> QED BY <1>1, Always, PTL

-----------------------------------------------------------------------------
(* The refinement. *)

\* What Forum shows of itself is what Board calls the board.
LEMMA SeenIs == [f \in 0 .. MaxForums - 1 |-> Read(f)] = Seen(Now)
<1>1. \A f \in 0 .. MaxForums - 1 : Read(f) = Seen(Now)[f]
  BY DEF Read, Seen, Now, View
<1> QED BY <1>1 DEF Seen

LEMMA SeenNext == [f \in 0 .. MaxForums - 1 |-> Read(f)]' = Seen(Now')
<1>1. \A f \in 0 .. MaxForums - 1 : Read(f)' = Seen(Now')[f]
  BY DEF Read, Seen, Now, View
<1> QED BY <1>1 DEF Seen

LEMMA SeenFirst ==
  ASSUME Init
  PROVE  Abstract!Init
<1> DEFINE d == NewForum
<1>1. d = [NewForum EXCEPT !.file = <<>>]
  BY DEF NewForum
<1>2. DirSound(d) /\ DOMAIN View(d) = {}
  BY <1>1, NewIs
<1>3. View(d) = <<>>
  <2>1. View(d) = [k \in DOMAIN View(d) |-> View(d)[k]]
    BY DEF View
  <2> QED BY <1>2, <2>1
<1> HIDE DEF d
<1>4. \A f \in 0 .. MaxForums - 1 : f \in DOMAIN Now.dir /\ Now.dir[f] = d
  BY DEF Init, Now, d
<1>5. Seen(Now) = [f \in 0 .. MaxForums - 1 |-> <<>>]
  BY <1>3, <1>4 DEF Seen
<1> QED BY <1>5, SeenIs DEF Abstract!Init, Abstract!Forums

LEMMA SeenStep ==
  ASSUME Leads(Now, Now')
  PROVE  Abstract!Next
<1> DEFINE b == Seen(Now)
           c == Seen(Now')
<1>1. BoardStep(b, c)
  BY DEF Leads
<1>2. [f \in 0 .. MaxForums - 1 |-> Read(f)] = b /\ [f \in 0 .. MaxForums - 1 |-> Read(f)]' = c
  BY SeenIs, SeenNext
<1> HIDE DEF b, c
<1>3. CASE \E f \in 0 .. MaxForums - 1 :
             (\A g \in (0 .. MaxForums - 1) \ {f} : c[g] = b[g]) /\ Abstract!Changed(b[f], c[f])
  BY <1>2, <1>3 DEF Abstract!Next, Abstract!Forums
<1>4. CASE \A f \in 0 .. MaxForums - 1 : Abstract!Dropped(b[f], c[f])
  BY <1>2, <1>4 DEF Abstract!Next, Abstract!Forums
<1> QED BY <1>1, <1>3, <1>4 DEF BoardStep

\* What the pages read from the files is a board: a new thread and a thread
\* replied to come first, edits and removals leave the order of threads and
\* posts alone, and no handler changes a post but the one edited or removed,
\* as long as only the last forum is deleted.
THEOREM ForumImplementsBoard == Spec /\ []InStep => ImplementsBoard
<1>1. Init => Abstract!Init
  BY SeenFirst
<1>2. IInv /\ InStep /\ InStep' /\ [Next]_vars => [Abstract!Next]_([f \in 0 .. MaxForums - 1 |-> Read(f)])
  <2> SUFFICES ASSUME IInv, InStep, InStep', [Next]_vars
               PROVE  [Abstract!Next]_([f \in 0 .. MaxForums - 1 |-> Read(f)])
    OBVIOUS
  <2>1. CASE Next
    <3>1. Leads(Now, Now')
      BY <2>1, Steps DEF InStep
    <3> QED BY <3>1, SeenStep
  <2>2. CASE UNCHANGED vars
    <3>1. Now' = Now
      BY <2>2 DEF Now, vars
    <3>2. Seen(Now') = Seen(Now)
      BY <3>1
    <3> QED BY <3>2, SeenIs, SeenNext
  <2> QED BY <2>1, <2>2
<1> QED BY <1>1, <1>2, Always, PTL DEF Spec, ImplementsBoard, Abstract!Spec

=============================================================================
