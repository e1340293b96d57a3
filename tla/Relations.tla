----------------------------- MODULE Relations -----------------------------
(***************************************************************************)
(* Wars, alliances and non-aggression pacts between empires                *)
(* (cmdExecAddRelation, cmdExecDelRelation, cmdExecFindRelation), and the  *)
(* part of cmdTickGenRanks that ends wars and pacts.                       *)
(*                                                                         *)
(* A relation is two records, one in the file of each empire.  Nothing     *)
(* ties them together but the empire each one names: a cancellation looks  *)
(* its counterpart up in the other file.  A pact is also two copies of a   *)
(* state machine, the napState of each record, driven by two tables.       *)
(* Records are removed by moving the last one of the file into the gap.    *)
(***************************************************************************)
EXTENDS SwapArrays, FiniteSets

CONSTANTS
  N,             \* empires are numbered from 0 to N - 1
  Types,         \* the kinds of relations that are entered into
  Lengths,       \* hours that a pact is offered for; 0 is for ever
  Notice,        \* ticks before a war or an alliance can be cancelled: 26
  Ranked,        \* the empires that the rankings look at: those with players
  EndWars,       \* ticks after which a war ends ("End Wars", 0: never)
  TicksPerHour,  \* 3600 / ticks.speed
  MaxTick,       \* bound on ticks.number
  MaxRels        \* bound on the records in an empire's file

ASSUME RelationsConstants ==
  /\ N \in Nat /\ Types \subseteq {"ally", "nap", "war"} /\ Lengths \subseteq Nat
  /\ Notice \in Nat /\ EndWars \in Nat /\ TicksPerHour \in Nat
  /\ MaxTick \in Nat /\ MaxRels \in Nat /\ Ranked \subseteq 0 .. N - 1

VARIABLES
  now,    \* ticks.number
  rels    \* empire -> its file of records

vars == <<now, rels>>

Empire   == 0 .. N - 1
NapState == 0 .. 9
Relation == [tick: 0 .. MaxTick, type: {"ally", "nap", "war"}, empire: Empire,
             incoming: BOOLEAN, state: NapState, len: Nat]

Made == {3, 4, 7, 8, 9}    \* the states in which a pact holds

Init ==
  /\ now = 0
  /\ rels = [f \in Empire |-> <<>>]

----------------------------------------------------------------------------
(* The files; dbEmpireRelsRemove is SwapRemove.                            *)

\* The first record that passes the test, 0 when there is none.
Find(s, Test(_)) ==
  IF \E i \in DOMAIN s : Test(s[i])
    THEN CHOOSE i \in DOMAIN s : Test(s[i]) /\ \A j \in 1 .. i - 1 : ~Test(s[j])
    ELSE 0

\* findFamNAPRels
PactAt(f, g) == Find(rels[f], LAMBDA r : r.type = "nap" /\ r.empire = g)

\* cmdExecFindRelation with its last argument set: is f already bound to g?
\* A war that g declared does not count, an alliance counts once both sides
\* have offered it, a pact once f has offered it.
Bound(f, g) ==
  LET with == {r \in ToSet(rels[f]) : r.empire = g}
      Has(type, in) == \E r \in with : r.type = type /\ r.incoming = in
  IN  \/ Has("war", FALSE)
      \/ Has("ally", FALSE) /\ Has("ally", TRUE)
      \/ \E r \in with : r.type = "nap" /\ r.state \in Made \cup {1, 5}

----------------------------------------------------------------------------
(* Entering into a relation.                                               *)

\* NAP_FSA_EQUAL_TIMER and NAP_FSA_DIFFERENT_TIMER.  The columns are: I sent
\* a timed offer, an infinite offer, a cancellation; the other one did.
Equal ==
  << <<1,5,0,2,6,0>>, <<1,5,0,3,6,0>>, <<3,5,0,2,7,0>>, <<3,3,4,3,3,4>>,
     <<4,4,4,4,4,4>>, <<1,5,0,2,7,0>>, <<1,7,0,2,6,0>>, <<7,7,8,7,7,9>>,
     <<8,7,8,8,8,0>>, <<9,9,0,9,7,9>> >>
Different == [Equal EXCEPT ![2][4] = 2, ![3][1] = 1]

Timed    == 1
Infinite == 2
Cancel   == 3
Mine(table, state, event) == table[state + 1][event]

\* Mutant of Its: a pact that is made stays as it is on the other side.
ItsUnlessMade(table, state, event) ==
  IF state \in Made THEN state ELSE table[state + 1][event + 3]

Its(table, state, event) == table[state + 1][event + 3]

\* What both files get when f sends a relation to g that is new to them.
Enter(f, g, mine, its) ==
  /\ Len(rels[f]) < MaxRels /\ Len(rels[g]) < MaxRels
  /\ rels' = [rels EXCEPT ![f] = Append(@, mine), ![g] = Append(@, its)]
  /\ UNCHANGED now


Record(type, empire, incoming, state, len) ==
  [tick |-> now, type |-> type, empire |-> empire, incoming |-> incoming,
   state |-> state, len |-> len]


\* cmdExecAddRelation for an alliance: one offer at a time.
OfferAlliance(f, g) ==
  /\ f # g /\ ~Bound(f, g)
  /\ ~\E r \in ToSet(rels[f]) : r.type = "ally" /\ ~r.incoming
  /\ Enter(f, g, Record("ally", g, FALSE, 0, 0), Record("ally", f, TRUE, 0, 0))

\* cmdExecAddRelation for a war.  Whether the sizes of the empires allow it
\* is left open.
DeclareWar(f, g) ==
  /\ f # g /\ ~Bound(f, g)
  /\ Enter(f, g, Record("war", g, FALSE, 0, 0), Record("war", f, TRUE, 0, 0))

\* cmdExecAddRelation for a pact, sent as an offer or as the acceptance of
\* one: iohtmlFunc_ministers calls it infinite when its length is 0.  Neither
\* a war nor an alliance between the two is asked for.
OfferPact(f, g, len) ==
  LET i     == PactAt(f, g)
      j     == PactAt(g, f)
      event == IF len = 0 THEN Infinite ELSE Timed
  IN  /\ f # g
      /\ IF i # 0 /\ j # 0
           THEN LET mine  == rels[f][i]
                    its   == rels[g][j]
                    table == IF len = its.len THEN Equal ELSE Different
                    next  == Mine(table, mine.state, event)
                    reset == len # its.len /\ next \notin Made
                IN  /\ mine.state \notin Made
                    /\ rels' = [rels EXCEPT
                         ![f][i] = [mine EXCEPT !.state = next,
                                                !.len = IF reset THEN len ELSE @],
                         ![g][j] = [its EXCEPT !.state = Its(table, its.state, event),
                                               !.len = IF reset THEN len ELSE @]]
                    /\ UNCHANGED now
           ELSE Enter(f, g, Record("nap", g, FALSE, Mine(Equal, 0, event), len),
                            Record("nap", f, TRUE, Its(Equal, 0, event), len))

----------------------------------------------------------------------------
(* Cancelling a relation.                                                  *)

Over(r, t) == r.tick + r.len * TicksPerHour <= t

\* Mutant of MayEnd: the notice is not waited for.
MayEndEarly(r, t) == ~r.incoming

\* Whether a war or an alliance can be cancelled at tick t by the empire that
\* has r on file: once the notice is over, by the one that offered it.
MayEnd(r, t) == r.tick + Notice <= t /\ ~r.incoming

\* Mutant of Counterpart: a war is found whichever way it was declared.
CounterpartEitherWay(R, f, r) ==
  Find(R[r.empire], LAMBDA o : o.empire = f /\ (r.type # "nap" => o.type = r.type))

\* The number of the record on the other side of f's record r.  The one of a
\* war or an alliance is looked up by its type, the one of a pact is not: it
\* is the first record that names f.  The code goes on with a number and a
\* record that were never set when there is none; Paired says that there is.
Counterpart(R, f, r) ==
  Find(R[r.empire], LAMBDA o : /\ o.empire = f
                               /\ r.type # "nap" => o.type = r.type /\ o.incoming)


\* RemoveRelation
Removed(R, f, i, g, j) ==
  [R EXCEPT ![g] = SwapRemove(@, j), ![f] = SwapRemove(@, i)]

\* Mutant of Ends: a second cancellation ends the pact at once.
EndsAtSecondCancel(r, cut, mine, its, t) == mine = 0 \/ its = 0 \/ ~cut

\* Whether the cancellation of pact r ends it: when the tables say so, or when
\* its timer had been started before and has run out.
Ends(r, cut, mine, its, t) == mine = 0 \/ its = 0 \/ (~cut /\ Over(r, t))

\* cmdExecDelRelation at tick t: the files R after empire f cancels its
\* record number i, R itself when it may not.
Deleted(R, f, i, t) ==
  LET r     == R[f][i]
      g     == r.empire
      j     == Counterpart(R, f, r)
      o     == R[g][j]
      cut   == r.state # 4 /\ o.state # 4
      mine  == IF cut THEN Mine(Equal, r.state, Cancel) ELSE r.state
      its   == IF cut THEN Its(Equal, o.state, Cancel) ELSE o.state
      stamp(x) == IF cut /\ mine = 4 /\ its = 4 THEN [x EXCEPT !.tick = t] ELSE x
  IN  IF i \notin DOMAIN R[f] THEN R
      ELSE IF r.type # "nap"
        THEN IF MayEnd(r, t) THEN Removed(R, f, i, g, j) ELSE R
      ELSE IF Ends(r, cut, mine, its, t) THEN Removed(R, f, i, g, j)
      ELSE [R EXCEPT ![f][i] = stamp([@ EXCEPT !.state = mine]),
                     ![g][j] = stamp([@ EXCEPT !.state = its])]

CancelRelation(f, i) ==
  /\ i \in DOMAIN rels[f]
  /\ rels' = Deleted(rels, f, i, now)
  /\ UNCHANGED now

\* Mutant of Due: only the one tick on which the war is over is looked at.
DueOnTheTick(r, t) == \/ r.type = "war" /\ r.tick + EndWars = t
                      \/ r.type = "nap" /\ r.state = 4 /\ Over(r, t)

\* What the rankings cancel: wars that lasted long enough, pacts whose notice
\* has run out.
Due(r, t) == \/ r.type = "war" /\ r.tick + EndWars <= t
             \/ r.type = "nap" /\ r.state = 4 /\ Over(r, t)

\* The loop of cmdTickGenRanks over the records of one empire: the list it
\* walks is a copy taken before the first cancellation.
Ended(R, f, t) ==
  LET copy == R[f]
      after[i \in 0 .. Len(copy)] ==
        IF i = 0 THEN R
        ELSE IF Due(copy[i], t) THEN Deleted(after[i - 1], f, i, t)
        ELSE after[i - 1]
  IN  after[Len(copy)]

\* The loop of cmdTickGenRanks over the empires.  One that has no players, or
\* that the settings omit, is passed over.
Rankings(R, t) ==
  LET after[k \in 0 .. N] ==
        IF k = 0 THEN R
        ELSE IF k - 1 \in Ranked THEN Ended(after[k - 1], k - 1, t)
        ELSE after[k - 1]
  IN  after[N]

\* cmdTickEnd: every round of the daemon's clock, frozen or not.
TickEnd ==
  /\ now' \in {now, now + 1} /\ now' <= MaxTick
  /\ rels' = IF EndWars = 0 THEN rels ELSE Rankings(rels, now')

Next ==
  \/ \E f, g \in Empire :
       \/ "ally" \in Types /\ OfferAlliance(f, g)
       \/ "war" \in Types /\ DeclareWar(f, g)
       \/ "nap" \in Types /\ \E len \in Lengths : OfferPact(f, g, len)
  \/ \E f \in Empire : \E i \in 1 .. MaxRels : CancelRelation(f, i)
  \/ TickEnd

Spec == Init /\ [][Next]_vars

----------------------------------------------------------------------------
(* Properties.                                                             *)

TypeOK ==
  /\ now \in 0 .. MaxTick
  /\ \A f \in Empire : rels[f] \in Seq(Relation) /\ Len(rels[f]) <= MaxRels

Pacts(f, g) == {r \in ToSet(rels[f]) : r.type = "nap" /\ r.empire = g}

\* Every record has one counterpart in the file of the empire it names, of
\* the same type, entered the other way round at the same time.
Paired ==
  \A f \in Empire : \A i \in DOMAIN rels[f] :
    LET r == rels[f][i]
    IN  Cardinality({j \in DOMAIN rels[r.empire] :
          LET o == rels[r.empire][j]
          IN  /\ o.empire = f /\ o.type = r.type /\ o.incoming = ~r.incoming
              /\ o.tick = r.tick /\ o.len = r.len}) = 1

\* A timed pact, and its notice, hold for both empires or for neither.
TimedPactsMutual ==
  \A f, g \in Empire : \A r \in Pacts(f, g), o \in Pacts(g, f) :
    r.state \in {3, 4} \/ o.state \in {3, 4} => r.state = o.state

\* Whatever is offered, cancelled or runs out, the two records of a pact are
\* each other's counterparts and say the same of its timer.
PactsSound == TypeOK /\ Paired /\ TimedPactsMutual

\* db.h on state 3: a timed pact that is cancelled goes to state 4 and holds
\* until its timer has run out.
TimedPactRunsOut ==
  [][\A f, g \in Empire :
       (\E r \in Pacts(f, g) : r.state = 3 \/ (r.state = 4 /\ ~Over(r, now')))
         => \E r \in Pacts(f, g)' : r.state \in {3, 4}]_vars

\* An empire has offered, or is in, one alliance at most.
OneAlliance ==
  \A f \in Empire :
    Cardinality({i \in DOMAIN rels[f] : rels[f][i].type = "ally" /\ ~rels[f][i].incoming}) <= 1

\* The records of wars and alliances are in pairs, and no empire is in two
\* alliances, also while the rankings cancel wars from a copy of the list.
TiesSound == Paired /\ OneAlliance

\* No war and no alliance ends before its notice, whatever the tick cancels
\* by index from its copy of the list.
NoticeKept ==
  [][\A f \in Empire : \A i \in DOMAIN rels[f] :
       LET r == rels[f][i]
       IN  r.type # "nap" /\ r.tick + Notice > now' => r \in ToSet(rels[f]')]_vars

\* With "End Wars" set, a war that is over may be missed by the copy of the
\* list: it has then moved to the front of its file, so that it is missed less
\* often than the file is long, if the empire that declared it has players.
Overdue(r) == /\ r.type = "war" /\ ~r.incoming
              /\ r.tick + EndWars + MaxRels - 1 <= now
NoEndlessWar ==
  EndWars > 0 /\ EndWars >= Notice =>
    \A f \in Ranked : \A r \in ToSet(rels[f]) : ~Overdue(r)
=============================================================================
