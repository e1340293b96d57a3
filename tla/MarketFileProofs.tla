------------------------- MODULE MarketFileProofs -------------------------
(***************************************************************************)
(* No sequence of additions, removals and quantity changes corrupts the    *)
(* market file, however many levels, players and slots there are.          *)
(*                                                                         *)
(* FileSound looks at neighbouring slots only.  Then the bids of a level   *)
(* and the free list are shown to be sequences that the links spell out    *)
(* (Chain, FreeChain), with totals that are sums over them (Complete), and *)
(* these sequences to be the queues of BidBook.                            *)
(***************************************************************************)
EXTENDS MarketFile, FiniteSetTheorems, SequenceTheorems, WellFoundedInduction, TLAPS

USE MarketFileConstants DEF Slots, Link

LEMMA InitSound == Init => FileSound
BY DEF Init, FileSound, TypeOK, LevelHead, Slot, Vacant, LinksMutual,
       EndsSound, FreeSound, BidsLive, Free

LEMMA AddSound ==
  ASSUME FileSound, NEW l \in Level, NEW u \in User, NEW q \in 1 .. MaxQty,
         MarketAdd(l, u, q)
  PROVE  FileSound'
<1> DEFINE cur  == IF listfree # -1 THEN listfree ELSE num
           tail == head[l].last
<1> USE DEF FileSound
\* The slot that is handed out is not in use, and it is not the level's last.
<1>1. cur \in Slots /\ entry[cur] = NoLevel
  BY DEF MarketAdd, FreeSound, Free, TypeOK
<1>2. /\ tail \in Link
      /\ head[l].first # -1 => tail \in Slots /\ tail # cur
  BY <1>1 DEF EndsSound, TypeOK, LevelHead
\* What the action does to each field.
<1>3. entry' = [entry EXCEPT ![cur] = l]
  BY DEF MarketAdd
<1>4. head' = [head EXCEPT ![l] =
                 [total |-> @.total + q,
                  first |-> IF @.first = -1 THEN cur ELSE @.first,
                  last  |-> cur]]
  BY DEF MarketAdd
<1>5. slot' = [i \in Slots |->
                 IF i = cur
                   THEN [prev |-> tail, next |-> -1, qty |-> q, user |-> u]
                   ELSE IF head[l].first # -1 /\ i = tail
                          THEN [slot[i] EXCEPT !.next = cur]
                          ELSE slot[i]]
  BY DEF MarketAdd
<1>6. /\ listfree # -1 => listfree' = slot[listfree].next /\ num' = num
      /\ listfree = -1 => num' = num + 1 /\ listfree' = listfree
  BY DEF MarketAdd
<1>7. \A i \in Slots : entry'[i] = IF i = cur THEN l ELSE entry[i]
  BY <1>1, <1>3 DEF TypeOK
<1>8. \A m \in Level :
        /\ m # l => head'[m] = head[m]
        /\ m = l => /\ head'[m].first = IF head[l].first = -1 THEN cur
                                                              ELSE head[l].first
                    /\ head'[m].last = cur
  BY <1>4 DEF TypeOK
<1>9. \A i \in Slots :
        /\ i = cur => /\ slot'[i].prev = tail
                      /\ slot'[i].next = -1
                      /\ slot'[i].qty = q
                      /\ slot'[i].user = u
        /\ i # cur => /\ slot'[i].prev = slot[i].prev
                      /\ slot'[i].next = IF head[l].first # -1 /\ i = tail
                                           THEN cur ELSE slot[i].next
                      /\ slot'[i].qty = slot[i].qty
                      /\ slot'[i].user = slot[i].user
  BY <1>5 DEF TypeOK, Slot
<1>10. TypeOK'
  <2>1. num' \in 0 .. MaxBids /\ listfree' \in Link
    BY <1>1, <1>6 DEF TypeOK, Slot
  <2>2. head' \in [Level -> LevelHead]
    BY <1>1, <1>4 DEF TypeOK, LevelHead
  <2>3. slot' \in [Slots -> Slot]
    <3>1. [prev |-> tail, next |-> -1, qty |-> q, user |-> u] \in Slot
      BY <1>2 DEF Slot
    <3>2. \A i \in Slots : [slot[i] EXCEPT !.next = cur] \in Slot
      BY <1>1 DEF TypeOK, Slot
    <3>3. QED
      BY <1>5, <3>1, <3>2 DEF TypeOK
  <2>4. entry' \in [Slots -> Level \cup {NoLevel}]
    BY <1>3 DEF TypeOK
  <2>5. QED
    BY <2>1, <2>2, <2>3, <2>4 DEF TypeOK
<1>11. LinksMutual'
  <2> SUFFICES ASSUME NEW i \in Slots, entry'[i] # NoLevel
               PROVE  LET h == head'[entry'[i]]
                          p == slot'[i].prev
                          n == slot'[i].next
                      IN  /\ IF p = -1 THEN h.first = i
                               ELSE entry'[p] = entry'[i] /\ slot'[p].next = i
                          /\ IF n = -1 THEN h.last = i
                               ELSE entry'[n] = entry'[i] /\ slot'[n].prev = i
    BY DEF LinksMutual
  <2>1. CASE i = cur
    <3>1. /\ entry'[i] = l
          /\ slot'[i].prev = tail /\ slot'[i].next = -1
          /\ head'[l].last = i
      BY <2>1, <1>7, <1>8, <1>9
    <3>2. CASE head[l].first = -1
      BY <3>1, <3>2, <2>1, <1>8 DEF EndsSound
    <3>3. CASE head[l].first # -1
      <4>1. tail # -1 /\ tail \in Slots /\ tail # cur /\ entry[tail] = l
        BY <3>3, <1>2 DEF EndsSound
      <4>2. entry'[tail] = l /\ slot'[tail].next = cur
        BY <4>1, <3>3, <1>7, <1>9
      <4>3. QED
        BY <4>1, <4>2, <3>1, <2>1
    <3>4. QED
      BY <3>2, <3>3
  <2>2. CASE i # cur
    <3> DEFINE p == slot[i].prev
               n == slot[i].next
    <3>1. /\ entry[i] # NoLevel /\ entry[i] \in Level /\ entry'[i] = entry[i]
          /\ p \in Link /\ n \in Link
      BY <2>2, <1>7 DEF TypeOK, Slot
    <3>2. /\ IF p = -1 THEN head[entry[i]].first = i
               ELSE entry[p] = entry[i] /\ slot[p].next = i
          /\ IF n = -1 THEN head[entry[i]].last = i
               ELSE entry[n] = entry[i] /\ slot[n].prev = i
      BY <3>1 DEF LinksMutual
    <3>3. p # cur /\ n # cur
      BY <3>1, <3>2, <1>1
    <3>4. IF p = -1 THEN head'[entry[i]].first = i
            ELSE entry'[p] = entry[i] /\ slot'[p].next = i
      <4>1. CASE p = -1
        BY <4>1, <3>1, <3>2, <1>8
      <4>2. CASE p # -1
        <5>1. p # tail \/ head[l].first = -1
          BY <4>2, <3>1, <3>2 DEF EndsSound
        <5>2. QED
          BY <5>1, <4>2, <3>1, <3>2, <3>3, <1>7, <1>9
      <4>3. QED
        BY <4>1, <4>2
    <3>5. IF slot'[i].next = -1 THEN head'[entry[i]].last = i
            ELSE /\ entry'[slot'[i].next] = entry[i]
                 /\ slot'[slot'[i].next].prev = i
      <4>1. CASE head[l].first # -1 /\ i = tail
        <5>1. entry[i] = l /\ slot'[i].next = cur
          BY <4>1, <2>2, <1>2, <1>9 DEF EndsSound
        <5>2. QED
          BY <5>1, <4>1, <1>1, <1>2, <1>7, <1>9
      <4>2. CASE ~(head[l].first # -1 /\ i = tail)
        <5>1. slot'[i].next = n
          BY <4>2, <2>2, <1>9
        <5>2. CASE n = -1
          <6>1. entry[i] # l
            BY <5>2, <4>2, <3>1, <3>2 DEF EndsSound
          <6>2. QED
            BY <6>1, <5>1, <5>2, <3>1, <3>2, <1>8
        <5>3. CASE n # -1
          BY <5>1, <5>3, <3>1, <3>2, <3>3, <1>7, <1>9
        <5>4. QED
          BY <5>2, <5>3
      <4>3. QED
        BY <4>1, <4>2
    <3>6. QED
      BY <2>2, <3>1, <3>4, <3>5, <1>9
  <2>3. QED
    BY <2>1, <2>2
<1>12. EndsSound'
  <2> SUFFICES ASSUME NEW m \in Level
               PROVE  LET h == head'[m]
                      IN  /\ (h.first = -1) <=> (h.last = -1)
                          /\ h.first # -1 => /\ entry'[h.first] = m
                                             /\ slot'[h.first].prev = -1
                          /\ h.last # -1 => /\ entry'[h.last] = m
                                            /\ slot'[h.last].next = -1
    BY DEF EndsSound
  <2>1. /\ (head[m].first = -1) <=> (head[m].last = -1)
        /\ head[m].first # -1 => /\ head[m].first \in Slots
                                 /\ entry[head[m].first] = m
                                 /\ slot[head[m].first].prev = -1
        /\ head[m].last # -1 => /\ head[m].last \in Slots
                                /\ entry[head[m].last] = m
                                /\ slot[head[m].last].next = -1
    BY DEF EndsSound, TypeOK, LevelHead
  <2>2. CASE m = l
    BY <2>1, <2>2, <1>1, <1>2, <1>7, <1>8, <1>9
  <2>3. CASE m # l
    <3>1. head'[m] = head[m] /\ m # NoLevel
      BY <2>3, <1>8
    <3>2. head[l].first # -1 => entry[tail] = l
      BY DEF EndsSound
    <3>3. QED
      BY <2>1, <2>3, <3>1, <3>2, <1>1, <1>7, <1>9
  <2>4. QED
    BY <2>2, <2>3
<1>13. FreeSound'
  <2>1. \A i \in Slots : entry'[i] # NoLevel => i < num'
    BY <1>1, <1>6, <1>7 DEF TypeOK, FreeSound, Free
  <2>2. \A i \in Slots : i \in Free' <=> i \in Free /\ i # cur
    BY <1>1, <1>6, <1>7 DEF TypeOK, Free
  <2>3. \A i \in Free' : i \in Slots /\ slot'[i].next = slot[i].next
    <3>1. head[l].first # -1 => entry[tail] = l /\ tail \in Slots
      BY <1>2 DEF EndsSound
    <3>2. QED
      BY <3>1, <2>2, <1>9 DEF Free
  <2>4. listfree' # -1 => listfree' \in Free'
    BY <2>2, <1>6 DEF TypeOK, FreeSound, Free
  <2>5. \A i \in Free' : slot'[i].next # -1 => /\ slot'[i].next \in Free'
                                               /\ slot'[i].next # listfree'
    BY <2>2, <2>3, <1>6 DEF TypeOK, FreeSound, Free
  <2>6. \A i, j \in Free' :
          slot'[i].next = slot'[j].next /\ slot'[i].next # -1 => i = j
    BY <2>2, <2>3 DEF FreeSound
  <2>7. QED
    BY <2>1, <2>4, <2>5, <2>6 DEF FreeSound
<1>14. BidsLive'
  BY <1>1, <1>7, <1>9 DEF BidsLive
<1>15. QED
  BY <1>10, <1>11, <1>12, <1>13, <1>14

LEMMA RemoveSound ==
  ASSUME FileSound, NEW l \in Level, NEW cur \in Slots, MarketRemove(l, cur)
  PROVE  FileSound'
<1> DEFINE before == slot[cur].prev
           after  == slot[cur].next
<1> USE DEF FileSound
<1>1. /\ entry[cur] = l /\ l # NoLevel /\ cur < num
      /\ before \in Link /\ after \in Link
  BY DEF MarketRemove, UnlinkedHead, UnlinkedSlots, FreeSound, TypeOK, Slot
\* The neighbours are bids of the same level and point back.
<1>2. /\ before # -1 => entry[before] = l /\ slot[before].next = cur
      /\ after # -1 => entry[after] = l /\ slot[after].prev = cur
      /\ before = -1 => head[l].first = cur
      /\ after = -1 => head[l].last = cur
      /\ before = cur <=> after = cur
  BY <1>1 DEF LinksMutual
\* What the action does to each field.
<1>3. \A i \in Slots : entry'[i] = IF i = cur THEN NoLevel ELSE entry[i]
  BY DEF MarketRemove, UnlinkedHead, UnlinkedSlots, TypeOK
<1>4. \A m \in Level :
        /\ m # l => head'[m] = head[m]
        /\ m = l => /\ head'[m].first = IF head[l].first = cur
                                          THEN after ELSE head[l].first
                    /\ head'[m].last = IF head[l].last = cur
                                         THEN before ELSE head[l].last
  BY DEF MarketRemove, UnlinkedHead, UnlinkedSlots, TypeOK
<1>5. slot' = [i \in Slots |->
                 IF i = cur
                   THEN Vacant(listfree)
                   ELSE [prev |-> IF i = after THEN before ELSE slot[i].prev,
                         next |-> IF i = before THEN after ELSE slot[i].next,
                         qty  |-> slot[i].qty,
                         user |-> slot[i].user]]
  BY DEF MarketRemove, UnlinkedHead, UnlinkedSlots
<1>6. \A i \in Slots :
        /\ i = cur => slot'[i].next = listfree
        /\ i # cur =>
             /\ slot'[i].prev = IF i = after THEN before ELSE slot[i].prev
             /\ slot'[i].next = IF i = before THEN after ELSE slot[i].next
             /\ slot'[i].qty = slot[i].qty
             /\ slot'[i].user = slot[i].user
  BY <1>5 DEF Vacant
<1>7. listfree' = cur /\ num' = num
  BY DEF MarketRemove, UnlinkedHead, UnlinkedSlots
<1>8. TypeOK'
  <2>1. num' \in 0 .. MaxBids /\ listfree' \in Link
    BY <1>7 DEF TypeOK
  <2>2. head' \in [Level -> LevelHead]
    BY <1>1 DEF MarketRemove, UnlinkedHead, UnlinkedSlots, TypeOK, LevelHead, Slot
  <2>3. slot' \in [Slots -> Slot]
    <3>1. Vacant(listfree) \in Slot
      BY DEF TypeOK, Vacant, Slot
    <3>2. \A i \in Slots :
            [prev |-> IF i = after THEN before ELSE slot[i].prev,
             next |-> IF i = before THEN after ELSE slot[i].next,
             qty  |-> slot[i].qty,
             user |-> slot[i].user] \in Slot
      BY <1>1 DEF TypeOK, Slot
    <3>3. QED
      BY <1>5, <3>1, <3>2
  <2>4. entry' \in [Slots -> Level \cup {NoLevel}]
    BY DEF MarketRemove, UnlinkedHead, UnlinkedSlots, TypeOK
  <2>5. QED
    BY <2>1, <2>2, <2>3, <2>4 DEF TypeOK
<1>9. LinksMutual'
  <2> SUFFICES ASSUME NEW i \in Slots, entry'[i] # NoLevel
               PROVE  LET h == head'[entry'[i]]
                          p == slot'[i].prev
                          n == slot'[i].next
                      IN  /\ IF p = -1 THEN h.first = i
                               ELSE entry'[p] = entry'[i] /\ slot'[p].next = i
                          /\ IF n = -1 THEN h.last = i
                               ELSE entry'[n] = entry'[i] /\ slot'[n].prev = i
    BY DEF LinksMutual
  <2> DEFINE p == slot[i].prev
             n == slot[i].next
  <2>1. /\ i # cur /\ entry[i] # NoLevel /\ entry[i] \in Level
        /\ entry'[i] = entry[i] /\ p \in Link /\ n \in Link
    BY <1>3 DEF TypeOK, Slot
  <2>2. /\ IF p = -1 THEN head[entry[i]].first = i
             ELSE entry[p] = entry[i] /\ slot[p].next = i
        /\ IF n = -1 THEN head[entry[i]].last = i
             ELSE entry[n] = entry[i] /\ slot[n].prev = i
    BY <2>1 DEF LinksMutual
  <2>3. IF slot'[i].prev = -1
          THEN head'[entry[i]].first = i
          ELSE /\ entry'[slot'[i].prev] = entry[i]
               /\ slot'[slot'[i].prev].next = i
    <3>1. CASE i = after
      <4>1. slot'[i].prev = before /\ entry[i] = l /\ before # cur
        BY <3>1, <2>1, <1>1, <1>2, <1>6
      <4>2. CASE before = -1
        BY <4>1, <4>2, <3>1, <1>2, <1>4
      <4>3. CASE before # -1
        BY <4>1, <4>3, <3>1, <1>1, <1>2, <1>3, <1>6
      <4>4. QED
        BY <4>2, <4>3
    <3>2. CASE i # after
      <4>1. slot'[i].prev = p /\ p # cur
        BY <3>2, <2>1, <2>2, <1>6
      <4>2. CASE p = -1
        BY <4>1, <4>2, <2>1, <2>2, <1>4
      <4>3. CASE p # -1
        <5>1. p # before
          BY <4>3, <2>1, <2>2, <1>2
        <5>2. QED
          BY <5>1, <4>1, <4>3, <2>1, <2>2, <1>3, <1>6
      <4>4. QED
        BY <4>2, <4>3
    <3>3. QED
      BY <3>1, <3>2
  <2>4. IF slot'[i].next = -1
          THEN head'[entry[i]].last = i
          ELSE /\ entry'[slot'[i].next] = entry[i]
               /\ slot'[slot'[i].next].prev = i
    <3>1. CASE i = before
      <4>1. slot'[i].next = after /\ entry[i] = l /\ after # cur
        BY <3>1, <2>1, <1>1, <1>2, <1>6
      <4>2. CASE after = -1
        BY <4>1, <4>2, <3>1, <1>2, <1>4
      <4>3. CASE after # -1
        BY <4>1, <4>3, <3>1, <1>1, <1>2, <1>3, <1>6
      <4>4. QED
        BY <4>2, <4>3
    <3>2. CASE i # before
      <4>1. slot'[i].next = n /\ n # cur
        BY <3>2, <2>1, <2>2, <1>6
      <4>2. CASE n = -1
        BY <4>1, <4>2, <2>1, <2>2, <1>4
      <4>3. CASE n # -1
        <5>1. n # after
          BY <4>3, <2>1, <2>2, <1>2
        <5>2. QED
          BY <5>1, <4>1, <4>3, <2>1, <2>2, <1>3, <1>6
      <4>4. QED
        BY <4>2, <4>3
    <3>3. QED
      BY <3>1, <3>2
  <2>5. QED
    BY <2>1, <2>3, <2>4
<1>10. EndsSound'
  <2> SUFFICES ASSUME NEW m \in Level
               PROVE  LET h == head'[m]
                      IN  /\ (h.first = -1) <=> (h.last = -1)
                          /\ h.first # -1 => /\ entry'[h.first] = m
                                             /\ slot'[h.first].prev = -1
                          /\ h.last # -1 => /\ entry'[h.last] = m
                                            /\ slot'[h.last].next = -1
    BY DEF EndsSound
  <2>1. /\ (head[m].first = -1) <=> (head[m].last = -1)
        /\ head[m].first # -1 => /\ head[m].first \in Slots
                                 /\ entry[head[m].first] = m
                                 /\ slot[head[m].first].prev = -1
        /\ head[m].last # -1 => /\ head[m].last \in Slots
                                /\ entry[head[m].last] = m
                                /\ slot[head[m].last].next = -1
    BY DEF EndsSound, TypeOK, LevelHead
  <2>2. CASE m # l
    <3>1. head'[m] = head[m] /\ m # NoLevel
      BY <2>2, <1>4
    <3>2. /\ head[m].first # -1 => head[m].first # after /\ head[m].first # cur
          /\ head[m].last # -1 => head[m].last # before /\ head[m].last # cur
      BY <2>1, <2>2, <1>1, <1>2
    <3>3. QED
      BY <3>1, <3>2, <2>1, <1>3, <1>6
  <2>3. CASE m = l
    <3>1. head[l].first = cur <=> before = -1
      BY <2>1, <2>3, <1>2
    <3>2. head[l].last = cur <=> after = -1
      BY <2>1, <2>3, <1>2
    <3>3. /\ head'[m].first # -1 => /\ entry'[head'[m].first] = m
                                    /\ slot'[head'[m].first].prev = -1
      <4>1. CASE before = -1
        BY <4>1, <3>1, <2>3, <1>1, <1>2, <1>3, <1>4, <1>6
      <4>2. CASE before # -1
        BY <4>2, <3>1, <2>1, <2>3, <1>1, <1>2, <1>3, <1>4, <1>6
      <4>3. QED
        BY <4>1, <4>2
    <3>4. /\ head'[m].last # -1 => /\ entry'[head'[m].last] = m
                                   /\ slot'[head'[m].last].next = -1
      <4>1. CASE after = -1
        BY <4>1, <3>2, <2>3, <1>1, <1>2, <1>3, <1>4, <1>6
      <4>2. CASE after # -1
        BY <4>2, <3>2, <2>1, <2>3, <1>1, <1>2, <1>3, <1>4, <1>6
      <4>3. QED
        BY <4>1, <4>2
    <3>5. (head'[m].first = -1) <=> (head'[m].last = -1)
      BY <3>1, <3>2, <2>1, <2>3, <1>1, <1>4
    <3>6. QED
      BY <3>3, <3>4, <3>5
  <2>4. QED
    BY <2>2, <2>3
<1>11. FreeSound'
  <2>1. \A i \in Slots : entry'[i] # NoLevel => i < num'
    BY <1>3, <1>7 DEF FreeSound
  <2>2. \A i \in Slots : i \in Free' <=> i \in Free \/ i = cur
    BY <1>1, <1>3, <1>7 DEF Free
  <2>3. cur \notin Free /\ listfree # cur
    BY <1>1 DEF Free, FreeSound
  <2>4. \A i \in Free : i \in Slots /\ slot'[i].next = slot[i].next
    <3>1. \A i \in Free : i \in Slots /\ i # cur /\ i # before
      BY <1>1, <1>2 DEF Free
    <3>2. QED
      BY <3>1, <1>6
  <2>5. listfree' # -1 => listfree' \in Free'
    BY <2>2, <1>7
  <2>6. slot'[cur].next = listfree
    BY <1>6
  <2>7. \A i \in Free' : slot'[i].next # -1 => /\ slot'[i].next \in Free'
                                               /\ slot'[i].next # listfree'
    <3> SUFFICES ASSUME NEW i \in Slots, i \in Free', slot'[i].next # -1
                 PROVE  slot'[i].next \in Free' /\ slot'[i].next # cur
      BY <1>7 DEF Free
    <3>1. CASE i = cur
      BY <3>1, <2>2, <2>3, <2>6 DEF FreeSound, Free
    <3>2. CASE i # cur
      BY <3>2, <2>2, <2>3, <2>4 DEF FreeSound, Free
    <3>3. QED
      BY <3>1, <3>2
  <2>8. \A i, j \in Free' :
          slot'[i].next = slot'[j].next /\ slot'[i].next # -1 => i = j
    <3>1. \A i \in Free : slot[i].next # listfree \/ listfree = -1
      BY DEF FreeSound
    <3>2. \A i \in Free' : i \in Slots
      BY DEF Free
    <3>3. \A i \in Free' : IF i = cur
                             THEN slot'[i].next = listfree
                             ELSE i \in Free /\ slot'[i].next = slot[i].next
      BY <3>2, <2>2, <2>4, <2>6
    <3>4. QED
      BY <3>1, <3>3 DEF FreeSound
  <2>9. QED
    BY <2>1, <2>5, <2>7, <2>8 DEF FreeSound
<1>12. BidsLive'
  BY <1>3, <1>6 DEF BidsLive
<1>13. QED
  BY <1>8, <1>9, <1>10, <1>11, <1>12

LEMMA SetQuantitySound ==
  ASSUME FileSound, NEW l \in Level, NEW cur \in Slots, NEW loss \in 1 .. MaxQty,
         MarketSetQuantity(l, cur, loss)
  PROVE  FileSound'
<1> USE DEF FileSound
<1>1. entry[cur] = l /\ l # NoLevel /\ slot[cur].qty \in 1 .. MaxQty
  BY DEF MarketSetQuantity, BidsLive
<1>2. \A i \in Slots :
        /\ slot'[i].prev = slot[i].prev
        /\ slot'[i].next = slot[i].next
        /\ slot'[i].user = slot[i].user
        /\ slot'[i].qty = IF i = cur THEN slot[i].qty - loss ELSE slot[i].qty
  BY DEF MarketSetQuantity, TypeOK, Slot
<1>3. \A m \in Level : /\ head'[m].first = head[m].first
                       /\ head'[m].last = head[m].last
  BY DEF MarketSetQuantity, TypeOK, LevelHead
<1>4. entry' = entry /\ num' = num /\ listfree' = listfree
  BY DEF MarketSetQuantity
<1>5. TypeOK'
  <2>1. head' \in [Level -> LevelHead]
    <3>1. head[l] \in LevelHead
      BY DEF TypeOK
    <3>2. [head[l] EXCEPT !.total = head[l].total - loss] \in LevelHead
      BY <3>1 DEF LevelHead
    <3>3. head' = [head EXCEPT ![l] =
                     [head[l] EXCEPT !.total = head[l].total - loss]]
      BY DEF MarketSetQuantity, TypeOK
    <3>4. QED
      BY <3>2, <3>3 DEF TypeOK
  <2>2. slot' \in [Slots -> Slot]
    <3>1. slot[cur] \in Slot
      BY DEF TypeOK
    <3>2. [slot[cur] EXCEPT !.qty = slot[cur].qty - loss] \in Slot
      BY <3>1, <1>1 DEF Slot
    <3>3. slot' = [slot EXCEPT ![cur] =
                     [slot[cur] EXCEPT !.qty = slot[cur].qty - loss]]
      BY DEF MarketSetQuantity, TypeOK
    <3>4. QED
      BY <3>2, <3>3 DEF TypeOK
  <2>3. QED
    BY <2>1, <2>2, <1>4 DEF TypeOK
<1>6. LinksMutual'
  <2>1. \A i \in Slots : slot[i].prev \in Link /\ slot[i].next \in Link
    BY DEF TypeOK, Slot
  <2>2. QED
    BY <2>1, <1>2, <1>3, <1>4 DEF LinksMutual, TypeOK
<1>7. EndsSound'
  <2>1. \A m \in Level : head[m].first \in Link /\ head[m].last \in Link
    BY DEF TypeOK, LevelHead
  <2>2. QED
    BY <2>1, <1>2, <1>3, <1>4 DEF EndsSound
<1>8. FreeSound'
  <2>1. Free' = Free
    BY <1>4 DEF Free
  <2>2. \A i \in Free : slot'[i].next = slot[i].next
    BY <1>2 DEF Free
  <2>3. \A i \in Slots : entry'[i] # NoLevel => i < num'
    BY <1>4 DEF FreeSound
  <2>4. listfree' # -1 => listfree' \in Free'
    BY <2>1, <1>4 DEF FreeSound
  <2>5. \A i \in Free' :
          slot'[i].next # -1 => slot'[i].next \in Free' /\ slot'[i].next # listfree'
    BY <2>1, <2>2, <1>4 DEF FreeSound
  <2>6. \A i, j \in Free' :
          slot'[i].next = slot'[j].next /\ slot'[i].next # -1 => i = j
    BY <2>1, <2>2 DEF FreeSound
  <2>7. QED
    BY <2>3, <2>4, <2>5, <2>6 DEF FreeSound
<1>9. BidsLive'
  <2>1. slot[cur].qty > loss
    BY DEF MarketSetQuantity
  <2>2. slot[cur].qty - loss \in 1 .. MaxQty
    BY <2>1, <1>1
  <2>3. QED
    BY <2>2, <1>2, <1>4 DEF BidsLive
<1>10. QED
  BY <1>5, <1>6, <1>7, <1>8, <1>9

\* No sequence of dbMarketAdd, dbMarketRemove and dbMarketSetQuantity calls
\* leaves the market file with links that disagree, a level whose ends are
\* wrong, a slot that is both free and in use, or a bid without an owner.
THEOREM FileNeverCorrupt == Spec => []FileSound
<1>1. FileSound /\ [Next]_vars => FileSound'
  <2> SUFFICES ASSUME FileSound, [Next]_vars PROVE FileSound'
    OBVIOUS
  <2>1. ASSUME NEW l \in Level, NEW u \in User, NEW q \in 1 .. MaxQty,
               MarketAdd(l, u, q)
        PROVE  FileSound'
    BY <2>1, AddSound
  <2>2. ASSUME NEW l \in Level, NEW cur \in Slots, MarketRemove(l, cur)
        PROVE  FileSound'
    BY <2>2, RemoveSound
  <2>3. ASSUME NEW l \in Level, NEW cur \in Slots, NEW loss \in 1 .. MaxQty,
               MarketSetQuantity(l, cur, loss)
        PROVE  FileSound'
    BY <2>3, SetQuantitySound
  <2>4. CASE UNCHANGED vars
    BY <2>4 DEF vars, FileSound, TypeOK, LinksMutual, EndsSound, FreeSound,
                BidsLive, Free
  <2>5. QED
    BY <2>1, <2>2, <2>3, <2>4 DEF Next
<1>2. QED
  BY InitSound, <1>1, PTL DEF Spec
----------------------------------------------------------------------------
(* The conjuncts of FileSound are local: each relates a slot to the next    *)
(* one, and slots linked in a ring would satisfy them.  A ring cannot arise *)
(* either, because every link leads to a slot of a higher rank: a bid that  *)
(* is added ranks above the last of its level, and a slot that is freed     *)
(* below the head of the free list.  Only the existence of ranks is stated; *)
(* TLC cannot enumerate them.                                               *)

Ascending(rank) ==
  \A i \in Slots :
    i < num /\ slot[i].next # -1 => rank[i] < rank[slot[i].next]

NoRings == \E rank \in [Slots -> Int] : Ascending(rank)

LEMMA AddKeepsRanks ==
  ASSUME FileSound, NoRings,
         NEW l \in Level, NEW u \in User, NEW q \in 1 .. MaxQty,
         MarketAdd(l, u, q)
  PROVE  NoRings'
<1> DEFINE cur  == IF listfree # -1 THEN listfree ELSE num
           tail == head[l].last
<1> USE DEF FileSound
<1>1. cur \in Slots /\ entry[cur] = NoLevel
  BY DEF MarketAdd, FreeSound, Free, TypeOK
<1>2. tail # -1 => tail \in Slots /\ tail # cur /\ tail < num /\ entry[tail] = l
  BY <1>1 DEF EndsSound, FreeSound, TypeOK, LevelHead
<1>3. head[l].first # -1 <=> tail # -1
  BY DEF EndsSound
<1>4. PICK rank \in [Slots -> Int] : Ascending(rank)
  BY DEF NoRings
<1> DEFINE top   == IF tail = -1 THEN 0 ELSE rank[tail] + 1
           rank2 == [rank EXCEPT ![cur] = top]
<1>5. rank2 \in [Slots -> Int]
  <2>1. top \in Int
    BY <1>2 DEF FileSound, TypeOK, LevelHead
  <2>2. QED
    BY <2>1
<1>6. \A i \in Slots : i < num' <=> i < num \/ i = cur
  BY <1>1 DEF MarketAdd, FreeSound, Free, TypeOK
<1>7. /\ slot'[cur].next = -1
      /\ \A i \in Slots : i # cur =>
           slot'[i].next = IF i = tail THEN cur ELSE slot[i].next
  BY <1>1, <1>3 DEF MarketAdd, TypeOK, Slot
<1>8. \A i \in Slots : i < num /\ i # cur => slot[i].next # cur
  <2> SUFFICES ASSUME NEW i \in Slots, i < num, slot[i].next = cur
               PROVE  FALSE
    OBVIOUS
  <2>1. CASE entry[i] # NoLevel
    BY <2>1, <1>1 DEF LinksMutual
  <2>2. CASE entry[i] = NoLevel
    BY <2>2, <1>1 DEF FreeSound, Free
  <2>3. QED
    BY <2>1, <2>2
<1>9. \A i \in Slots : slot[i].next \in Link
  BY DEF TypeOK, Slot
<1>10. ASSUME NEW i \in Slots, i < num', slot'[i].next # -1
       PROVE  rank2[i] < rank2[slot'[i].next]
  <2>1. i # cur /\ i < num
    BY <1>10, <1>6, <1>7
  <2>2. CASE i = tail
    <3>1. slot'[i].next = cur
      BY <2>1, <2>2, <1>7
    <3> QED BY <2>1, <2>2, <3>1, <1>1, <1>2
  <2>3. CASE i # tail
    <3>1. slot'[i].next = slot[i].next /\ slot[i].next # cur /\ slot[i].next \in Slots
      BY <2>1, <2>3, <1>7, <1>8, <1>9, <1>10
    <3>2. rank[i] < rank[slot[i].next]
      BY <3>1, <2>1, <1>4 DEF Ascending
    <3>3. QED
      BY <3>1, <3>2, <2>1
  <2>4. QED
    BY <2>2, <2>3
<1>11. QED
  BY <1>5, <1>10 DEF NoRings, Ascending

LEMMA RemoveKeepsRanks ==
  ASSUME FileSound, NoRings, NEW l \in Level, NEW cur \in Slots,
         MarketRemove(l, cur)
  PROVE  NoRings'
<1> DEFINE before == slot[cur].prev
           after  == slot[cur].next
<1> USE DEF FileSound
<1>1. /\ entry[cur] = l /\ l # NoLevel /\ cur < num
      /\ before \in Link /\ after \in Link
  BY DEF MarketRemove, UnlinkedHead, UnlinkedSlots, FreeSound, TypeOK, Slot
<1>2. /\ before # -1 => /\ before < num
                        /\ entry[before] = l
                        /\ slot[before].next = cur
      /\ before = cur <=> after = cur
  BY <1>1 DEF LinksMutual, FreeSound
<1>3. PICK rank \in [Slots -> Int] : Ascending(rank)
  BY DEF NoRings
<1>4. cur # after
  <2>1. after # -1 => rank[cur] < rank[after] /\ after \in Slots
    BY <1>1, <1>3 DEF Ascending
  <2>2. QED
    BY <2>1
<1> DEFINE low   == IF listfree = -1 THEN 0 ELSE rank[listfree] - 1
           rank2 == [rank EXCEPT ![cur] = low]
<1>5. listfree # -1 => listfree \in Slots /\ listfree # cur
  BY <1>1 DEF FreeSound, Free
<1>6. rank2 \in [Slots -> Int]
  BY <1>5
<1>7. num' = num
  BY DEF MarketRemove, UnlinkedHead, UnlinkedSlots
<1>8. /\ slot'[cur].next = listfree
      /\ \A i \in Slots : i # cur =>
           slot'[i].next = IF i = before THEN after ELSE slot[i].next
  BY DEF MarketRemove, UnlinkedHead, UnlinkedSlots, Vacant
<1>9. \A i \in Slots : slot[i].next \in Link
  BY DEF TypeOK, Slot
<1>10. \A i \in Slots : i < num /\ i # before => slot[i].next # cur
  BY <1>1 DEF LinksMutual, FreeSound, Free
<1>11. ASSUME NEW i \in Slots, i < num', slot'[i].next # -1
       PROVE  rank2[i] < rank2[slot'[i].next]
  <2>1. CASE i = cur
    BY <2>1, <1>5, <1>8, <1>11
  <2>2. CASE i # cur /\ i = before
    <3>1. slot'[i].next = after /\ after \in Slots /\ before \in Slots
      BY <2>2, <1>1, <1>8, <1>11
    <3>2. rank[before] < rank[cur] /\ rank[cur] < rank[after]
      <4>1. before < num /\ slot[before].next = cur
        BY <3>1, <1>2
      <4>2. cur # -1
        OBVIOUS
      <4>3. rank[before] < rank[slot[before].next]
        BY <4>1, <4>2, <3>1, <1>3 DEF Ascending
      <4>4. rank[cur] < rank[after]
        BY <3>1, <1>1, <1>3 DEF Ascending
      <4>5. QED
        BY <4>1, <4>3, <4>4
    <3>3. rank[before] < rank[after]
      BY <3>1, <3>2
    <3>4. QED
      BY <3>1, <3>3, <2>2, <1>4
  <2>3. CASE i # cur /\ i # before
    <3>1. slot'[i].next = slot[i].next /\ slot[i].next # cur /\ slot[i].next \in Slots
      BY <2>3, <1>7, <1>8, <1>9, <1>10, <1>11
    <3>2. rank[i] < rank[slot[i].next]
      BY <3>1, <1>3, <1>7, <1>11 DEF Ascending
    <3>3. QED
      BY <3>1, <3>2, <2>3
  <2>4. QED
    BY <2>1, <2>2, <2>3
<1>12. QED
  BY <1>6, <1>11 DEF NoRings, Ascending

\* Following "next" from a level's first slot, or from the head of the free
\* list, comes to an end whatever calls were made: the loops of
\* dbMarketListNext's callers terminate.
THEOREM WalksEnd == Spec => []NoRings
<1>1. Init => NoRings
  <2>1. [i \in Slots |-> 0] \in [Slots -> Int]
    OBVIOUS
  <2>2. Init => Ascending([i \in Slots |-> 0])
    BY DEF Init, Ascending, Vacant
  <2>3. QED
    BY <2>1, <2>2 DEF NoRings
<1>2. FileSound /\ NoRings /\ [Next]_vars => NoRings'
  <2> SUFFICES ASSUME FileSound, NoRings, [Next]_vars PROVE NoRings'
    OBVIOUS
  <2>1. ASSUME NEW l \in Level, NEW u \in User, NEW q \in 1 .. MaxQty,
               MarketAdd(l, u, q)
        PROVE  NoRings'
    BY <2>1, AddKeepsRanks
  <2>2. ASSUME NEW l \in Level, NEW cur \in Slots, MarketRemove(l, cur)
        PROVE  NoRings'
    BY <2>2, RemoveKeepsRanks
  <2>3. ASSUME NEW l \in Level, NEW cur \in Slots, NEW loss \in 1 .. MaxQty,
               MarketSetQuantity(l, cur, loss)
        PROVE  NoRings'
    <3>1. num' = num /\ \A i \in Slots : slot'[i].next = slot[i].next
      BY <2>3 DEF MarketSetQuantity, FileSound, TypeOK, Slot
    <3>2. PICK rank \in [Slots -> Int] : Ascending(rank)
      BY DEF NoRings
    <3>3. \A i \in Slots :
            i < num' /\ slot'[i].next # -1 => rank[i] < rank[slot'[i].next]
      BY <3>1, <3>2 DEF Ascending
    <3>4. QED
      BY <3>3 DEF NoRings, Ascending
  <2>4. CASE UNCHANGED vars
    BY <2>4 DEF vars, NoRings, Ascending
  <2>5. QED
    BY <2>1, <2>2, <2>3, <2>4 DEF Next
<1>3. QED
  BY FileNeverCorrupt, <1>1, <1>2, PTL DEF Spec

----------------------------------------------------------------------------
(* The lists as sequences.                                                 *)

HIDE MarketFileConstants DEF Slots, Link

(* Any set of numbers that is not empty has a least one: what is true of 0 *)
(* and passed on from each number to the next is true of all up to n.      *)
LEMMA Least ==
  ASSUME NEW T \in SUBSET Nat, T # {}
  PROVE  \E x \in T : \A y \in T : x <= y
<1> DEFINE R == OpToRel(<, Nat)
<1>1. IsWellFoundedOn(R, Nat)
  BY NatLessThanWellFounded
<1>2. \A x, y \in Nat : x < y => <<x, y>> \in R
  BY DEF OpToRel
<1> HIDE DEF R
<1>3. PICK x \in T : \A y \in T : ~ (<<y, x>> \in R)
  BY <1>1, WFMin
<1>4. ASSUME NEW y \in T PROVE x <= y
  <2>1. x \in Nat /\ y \in Nat /\ ~(<<y, x>> \in R)
    BY <1>3
  <2>2. ~(y < x)
    BY <1>2, <2>1
  <2> QED BY <2>1, <2>2
<1> QED BY <1>4

LEMMA CountUp ==
  ASSUME NEW n \in Nat, NEW G, 1 \in G,
         \A k \in 2 .. n : k - 1 \in G => k \in G
  PROVE  1 .. n \subseteq G
<1> DEFINE Bad == {k \in Nat : k \in 1 .. n /\ k \notin G}
<1>1. SUFFICES ASSUME Bad # {} PROVE FALSE
  OBVIOUS
<1>2. PICK k \in Bad : \A j \in Bad : k <= j
  <2>1. Bad \in SUBSET Nat
    OBVIOUS
  <2> HIDE DEF Bad
  <2> QED BY <1>1, <2>1, Least
<1>3. k \in 2 .. n /\ k - 1 \in 1 .. n /\ k - 1 \in Nat /\ ~(k <= k - 1)
  BY <1>2
<1>4. k - 1 \in G
  BY <1>2, <1>3
<1> QED BY <1>2, <1>3, <1>4

\* What a sequence c of slots has to do with the links of the file s that a
\* walk from start follows.
Linked(c, s, start) ==
  /\ c \in Seq(Slots) /\ \A j, k \in 1 .. Len(c) : c[j] = c[k] => j = k
  /\ \A k \in 1 .. Len(c) : s[c[k]].next = IF k = Len(c) THEN -1 ELSE c[k + 1]
  /\ start = IF Len(c) = 0 THEN -1 ELSE c[1]

(* No more slots in a list than there are.                                 *)
LEMMA ChainsFit ==
  ASSUME NEW c \in Seq(Slots), \A j, k \in 1 .. Len(c) : c[j] = c[k] => j = k
  PROVE  Len(c) \in 0 .. MaxBids
<1>1. IsFiniteSet(Slots) /\ Cardinality(Slots) = MaxBids /\ MaxBids \in Nat
  <2>1. MaxBids \in Nat /\ 0 \in Int /\ MaxBids - 1 \in Int
    BY MarketFileConstants
  <2>2. /\ IsFiniteSet(0 .. MaxBids - 1)
        /\ Cardinality(0 .. MaxBids - 1) = IF 0 > MaxBids - 1 THEN 0 ELSE (MaxBids - 1) - 0 + 1
    BY <2>1, FS_Interval
  <2> QED BY <2>1, <2>2 DEF Slots
<1>2. IsFiniteSet(1 .. Len(c)) /\ Cardinality(1 .. Len(c)) = Len(c)
  <2> DEFINE n == Len(c)
  <2>1. 1 \in Int /\ n \in Int /\ n >= 0
    OBVIOUS
  <2> HIDE DEF n
  <2>2. IsFiniteSet(1 .. n) /\ Cardinality(1 .. n) = IF 1 > n THEN 0 ELSE n - 1 + 1
    BY <2>1, FS_Interval
  <2>3. Cardinality(1 .. n) = n
    BY <2>1, <2>2
  <2> QED BY <2>2, <2>3 DEF n
<1>3. c \in Injection(1 .. Len(c), Slots)
  BY DEF Injection, IsInjective
<1>4. Cardinality(1 .. Len(c)) <= Cardinality(Slots)
  BY <1>1, <1>3, FS_Injection
<1> QED BY <1>1, <1>2, <1>4

(* A walk meets the slots of the list in their order.                      *)
LEMMA WalkIs ==
  ASSUME NEW c, NEW s, NEW start, Linked(c, s, start)
  PROVE  Walk(s, start) = c
<1> DEFINE is(f) == f = [k \in 1 .. MaxBids |->
                           IF k = 1 THEN start
                           ELSE IF f[k - 1] = -1 THEN -1 ELSE s[f[k - 1]].next]
           met == [k \in 1 .. MaxBids |-> IF k <= Len(c) THEN c[k] ELSE -1]
           at == CHOOSE f : is(f)
           G == {k \in Nat : k \in 1 .. MaxBids => at[k] = met[k]}
<1>1. /\ c \in Seq(Slots) /\ Len(c) \in 0 .. MaxBids /\ MaxBids \in Nat
      /\ \A k \in 1 .. Len(c) : /\ c[k] \in Slots /\ c[k] # -1
                                /\ s[c[k]].next = IF k = Len(c) THEN -1 ELSE c[k + 1]
      /\ start = IF Len(c) = 0 THEN -1 ELSE c[1]
  BY ChainsFit, MarketFileConstants DEF Linked, Slots
<1>2. \A k \in 2 .. MaxBids : k - 1 \in 1 .. MaxBids
  BY <1>1
<1>3. \A k \in 1 .. MaxBids : /\ k <= Len(c) => met[k] = c[k]
                              /\ ~(k <= Len(c)) => met[k] = -1
  OBVIOUS
<1>4. \A k \in 1 .. MaxBids :
        met[k] = IF k = 1 THEN start ELSE IF met[k - 1] = -1 THEN -1 ELSE s[met[k - 1]].next
  <2> HIDE DEF met
  <2> TAKE k \in 1 .. MaxBids
  <2>1. CASE k = 1
    BY <1>1, <1>3, <2>1
  <2>2. CASE k # 1
    <3>1. k - 1 \in 1 .. MaxBids /\ (k - 1) + 1 = k
      BY <1>1, <2>2
    <3>2. CASE k - 1 <= Len(c)
      <4>1. met[k - 1] = c[k - 1] /\ k - 1 \in 1 .. Len(c)
        BY <1>3, <3>1, <3>2
      <4>2. met[k - 1] # -1 /\ s[met[k - 1]].next = IF k - 1 = Len(c) THEN -1 ELSE c[k]
        BY <1>1, <3>1, <4>1
      <4>3. met[k] = IF k - 1 = Len(c) THEN -1 ELSE c[k]
        BY <1>1, <1>3, <3>1, <3>2
      <4> QED BY <2>2, <4>2, <4>3
    <3>3. CASE ~(k - 1 <= Len(c))
      BY <1>1, <1>3, <2>2, <3>1, <3>3
    <3> QED BY <3>2, <3>3
  <2> QED BY <2>1, <2>2
<1>5. is(met)
  BY <1>4
<1>6. is(at)
  <2> HIDE DEF met
  <2> QED BY <1>5
<1>7. \A k \in 1 .. MaxBids :
        at[k] = IF k = 1 THEN start ELSE IF at[k - 1] = -1 THEN -1 ELSE s[at[k - 1]].next
  <2> HIDE DEF at
  <2> QED BY <1>6
<1> HIDE DEF at, met
<1>8. 1 \in G
  BY <1>4, <1>7
<1>9. ASSUME NEW k \in 2 .. MaxBids, k - 1 \in G PROVE k \in G
  BY <1>2, <1>4, <1>7, <1>9
<1> HIDE DEF G
<1>10. 1 .. MaxBids \subseteq G
  BY <1>1, <1>8, <1>9, CountUp
<1>11. \A k \in 1 .. MaxBids : at[k] = met[k]
  BY <1>10 DEF G
<1>12. {j \in 1 .. MaxBids : at[j] # -1} = 1 .. Len(c)
  BY <1>1, <1>3, <1>11
<1>13. Cardinality(1 .. Len(c)) = Len(c)
  <2>1. 1 \in Int /\ Len(c) \in Int /\ Len(c) >= 0
    BY <1>1
  <2>2. Cardinality(1 .. Len(c)) = IF 1 > Len(c) THEN 0 ELSE Len(c) - 1 + 1
    BY <2>1, FS_Interval
  <2> QED BY <2>1, <2>2
<1>14. Walk(s, start) = [k \in 1 .. Cardinality({j \in 1 .. MaxBids : at[j] # -1}) |-> at[k]]
  BY DEF Walk, at
<1>15. Walk(s, start) = [k \in 1 .. Len(c) |-> at[k]]
  BY <1>12, <1>13, <1>14
<1>16. \A k \in 1 .. Len(c) : at[k] = c[k]
  <2> TAKE k \in 1 .. Len(c)
  <2>1. k \in 1 .. MaxBids /\ k <= Len(c)
    BY <1>1
  <2> QED BY <1>3, <1>11, <2>1
<1> QED BY <1>1, <1>15, <1>16

\* The slots of level l from front to back, and the free ones.
Chain(c, l) ==
  /\ Linked(c, slot, head[l].first)
  /\ \A i \in Slots : entry[i] = l <=> \E k \in 1 .. Len(c) : c[k] = i
  /\ \A k \in 1 .. Len(c) : slot[c[k]].prev = IF k = 1 THEN -1 ELSE c[k - 1]
  /\ head[l].last = IF Len(c) = 0 THEN -1 ELSE c[Len(c)]

FreeChain(f) ==
  /\ Linked(f, slot, listfree)
  /\ \A i \in Slots : i \in Free <=> \E k \in 1 .. Len(f) : f[k] = i

LEMMA FreeLinked ==
  ASSUME NEW f \in Seq(Slots), FreeChain(f)
  PROVE  /\ Len(f) \in Nat /\ \A k \in 1 .. Len(f) : f[k] \in Slots
         /\ \A j, k \in 1 .. Len(f) : f[j] = f[k] => j = k
         /\ \A k \in 1 .. Len(f) : slot[f[k]].next = IF k = Len(f) THEN -1 ELSE f[k + 1]
         /\ listfree = IF Len(f) = 0 THEN -1 ELSE f[1]
         /\ \A i \in Slots : i \in Free <=> \E k \in 1 .. Len(f) : f[k] = i
<1>1. Linked(f, slot, listfree) /\ \A i \in Slots : i \in Free <=> \E k \in 1 .. Len(f) : f[k] = i
  BY DEF FreeChain
<1>2. Len(f) \in Nat /\ \A k \in 1 .. Len(f) : f[k] \in Slots
  OBVIOUS
<1>3. /\ \A j, k \in 1 .. Len(f) : f[j] = f[k] => j = k
      /\ \A k \in 1 .. Len(f) : slot[f[k]].next = IF k = Len(f) THEN -1 ELSE f[k + 1]
      /\ listfree = IF Len(f) = 0 THEN -1 ELSE f[1]
  BY <1>1 DEF Linked
<1> QED BY <1>1, <1>2, <1>3

Chains == /\ \A l \in Level : \E c \in Seq(Slots) : Chain(c, l)
          /\ \E f \in Seq(Slots) : FreeChain(f)

\* The slot that dbMarketAdd hands out.
Handed == IF listfree # -1 THEN listfree ELSE num

\* What an addition does to each field.
Adding(l, u, q) ==
  /\ Handed \in Slots /\ entry[Handed] = NoLevel
  /\ \A i \in Slots : entry'[i] = IF i = Handed THEN l ELSE entry[i]
  /\ \A m \in Level : m # l => head'[m] = head[m]
  /\ head'[l].total = head[l].total + q /\ head'[l].last = Handed
  /\ head'[l].first = IF head[l].first = -1 THEN Handed ELSE head[l].first
  /\ \A i \in Slots :
       /\ i = Handed => slot'[i] = [prev |-> head[l].last, next |-> -1, qty |-> q, user |-> u]
       /\ i # Handed => /\ slot'[i].prev = slot[i].prev /\ slot'[i].qty = slot[i].qty
                        /\ slot'[i].user = slot[i].user
                        /\ slot'[i].next = IF head[l].first # -1 /\ i = head[l].last
                                           THEN Handed ELSE slot[i].next
  /\ listfree # -1 => listfree' = slot[listfree].next /\ num' = num
  /\ listfree = -1 => num' = num + 1 /\ listfree' = -1

LEMMA AddDoes ==
  ASSUME FileSound, NEW l \in Level, NEW u \in User, NEW q \in 1 .. MaxQty, MarketAdd(l, u, q)
  PROVE  Adding(l, u, q)
<1> USE DEF FileSound, Handed
<1>1. Handed \in Slots /\ entry[Handed] = NoLevel
  BY DEF MarketAdd, FreeSound, Free, TypeOK, Link, Slots
<1>2. entry' = [entry EXCEPT ![Handed] = l]
  BY DEF MarketAdd
<1>3. head' = [head EXCEPT ![l] = [total |-> @.total + q,
                                   first |-> IF @.first = -1 THEN Handed ELSE @.first,
                                   last  |-> Handed]]
  BY DEF MarketAdd
<1>4. slot' = [i \in Slots |->
                 IF i = Handed THEN [prev |-> head[l].last, next |-> -1, qty |-> q, user |-> u]
                 ELSE IF head[l].first # -1 /\ i = head[l].last
                        THEN [slot[i] EXCEPT !.next = Handed] ELSE slot[i]]
  BY DEF MarketAdd
<1>5. /\ listfree # -1 => listfree' = slot[listfree].next /\ num' = num
      /\ listfree = -1 => num' = num + 1 /\ listfree' = -1
  BY DEF MarketAdd
<1>6. \A i \in Slots : entry'[i] = IF i = Handed THEN l ELSE entry[i]
  BY <1>1, <1>2 DEF TypeOK
<1>7. /\ \A m \in Level : m # l => head'[m] = head[m]
      /\ head'[l] = [total |-> head[l].total + q,
                     first |-> IF head[l].first = -1 THEN Handed ELSE head[l].first,
                     last  |-> Handed]
  BY <1>3 DEF TypeOK
<1>8. \A i \in Slots : slot[i] \in Slot
  BY DEF TypeOK
<1> HIDE DEF Handed
<1>9. ASSUME NEW i \in Slots, i # Handed
      PROVE  /\ slot'[i].prev = slot[i].prev /\ slot'[i].qty = slot[i].qty
             /\ slot'[i].user = slot[i].user
             /\ slot'[i].next = IF head[l].first # -1 /\ i = head[l].last
                                THEN Handed ELSE slot[i].next
  BY <1>4, <1>8, <1>9 DEF Slot
<1>10. \A i \in Slots : i = Handed => slot'[i] = [prev |-> head[l].last, next |-> -1, qty |-> q, user |-> u]
  BY <1>4
<1> QED BY <1>1, <1>5, <1>6, <1>7, <1>9, <1>10 DEF Adding

(* An addition puts its slot behind the others of its level, leaves the    *)
(* other levels alone, and takes the slot off the free list.               *)
LEMMA AddAppends ==
  ASSUME FileSound, NEW l \in Level, NEW u \in User, NEW q \in 1 .. MaxQty, MarketAdd(l, u, q),
         NEW c \in Seq(Slots), Chain(c, l), NEW x, x = Handed, NEW d, d = Append(c, x)
  PROVE  d \in Seq(Slots) /\ Chain(d, l)'
<1>0. Adding(l, u, q)
  BY AddDoes
<1>1. /\ x \in Slots /\ entry[x] = NoLevel
      /\ \A i \in Slots : entry'[i] = IF i = x THEN l ELSE entry[i]
      /\ head'[l].last = x /\ head'[l].first = IF head[l].first = -1 THEN x ELSE head[l].first
      /\ slot'[x].prev = head[l].last /\ slot'[x].next = -1
      /\ \A i \in Slots : i # x => /\ slot'[i].prev = slot[i].prev
                                   /\ slot'[i].next = IF head[l].first # -1 /\ i = head[l].last
                                                      THEN x ELSE slot[i].next
  BY <1>0 DEF Adding
<1>2. /\ Len(c) \in Nat /\ d \in Seq(Slots) /\ Len(d) = Len(c) + 1
      /\ \A k \in 1 .. Len(c) : d[k] = c[k] /\ c[k] \in Slots
      /\ d[Len(c) + 1] = x
  BY <1>1
<1>3. /\ \A j, k \in 1 .. Len(c) : c[j] = c[k] => j = k
      /\ \A k \in 1 .. Len(c) : slot[c[k]].next = IF k = Len(c) THEN -1 ELSE c[k + 1]
      /\ head[l].first = IF Len(c) = 0 THEN -1 ELSE c[1]
      /\ \A i \in Slots : entry[i] = l <=> \E k \in 1 .. Len(c) : c[k] = i
      /\ \A k \in 1 .. Len(c) : slot[c[k]].prev = IF k = 1 THEN -1 ELSE c[k - 1]
      /\ head[l].last = IF Len(c) = 0 THEN -1 ELSE c[Len(c)]
  BY DEF Chain, Linked
<1>4. \A k \in 1 .. Len(c) : c[k] # x /\ c[k] # -1
  <2>1. \A k \in 1 .. Len(c) : entry[c[k]] = l
    BY <1>2, <1>3
  <2>2. NoLevel # l /\ -1 \notin Slots
    BY MarketFileConstants DEF Slots
  <2> QED BY <1>1, <1>2, <2>1, <2>2
<1>5. \A k \in 1 .. Len(c) + 1 : k \in 1 .. Len(c) \/ k = Len(c) + 1
  BY <1>2
<1>6. \A j, k \in 1 .. Len(d) : d[j] = d[k] => j = k
  BY <1>2, <1>3, <1>4, <1>5
<1>7. ASSUME NEW k \in 1 .. Len(d)
      PROVE  /\ slot'[d[k]].next = IF k = Len(d) THEN -1 ELSE d[k + 1]
             /\ slot'[d[k]].prev = IF k = 1 THEN -1 ELSE d[k - 1]
  <2>1. CASE k = Len(c) + 1
    <3>1. Len(c) = 0 \/ Len(c) \in 1 .. Len(c)
      BY <1>2
    <3> QED BY <1>1, <1>2, <1>3, <2>1, <3>1
  <2>2. CASE k \in 1 .. Len(c)
    <3>1. /\ d[k] = c[k] /\ c[k] # x /\ c[k] \in Slots /\ k # Len(d)
          /\ k # 1 => k - 1 \in 1 .. Len(c)
          /\ k # Len(c) => k + 1 \in 1 .. Len(c)
          /\ head[l].first # -1 /\ Len(c) # 0 /\ Len(c) \in 1 .. Len(c)
      BY <1>2, <1>3, <1>4, <2>2
    <3>2. slot'[d[k]].prev = IF k = 1 THEN -1 ELSE d[k - 1]
      <4>1. slot'[d[k]].prev = slot[c[k]].prev
        BY <1>1, <3>1
      <4>2. k # 1 => d[k - 1] = c[k - 1]
        BY <1>2, <3>1
      <4> QED BY <1>3, <2>2, <4>1, <4>2
    <3>3. c[k] = head[l].last <=> k = Len(c)
      BY <1>3, <2>2, <3>1
    <3>4. slot'[d[k]].next = IF k = Len(c) THEN x ELSE c[k + 1]
      BY <1>1, <1>3, <2>2, <3>1, <3>3
    <3> QED BY <1>2, <3>1, <3>2, <3>4
  <2> QED BY <1>2, <1>5, <2>1, <2>2
<1>8. \A i \in Slots : entry'[i] = l <=> \E k \in 1 .. Len(d) : d[k] = i
  <2> TAKE i \in Slots
  <2>1. CASE i = x
    <3>1. Len(c) + 1 \in 1 .. Len(d)
      BY <1>2
    <3> QED BY <1>1, <1>2, <2>1, <3>1
  <2>2. CASE i # x
    <3>1. (\E k \in 1 .. Len(d) : d[k] = i) <=> \E k \in 1 .. Len(c) : c[k] = i
      BY <1>2, <1>5, <2>2
    <3> QED BY <1>1, <1>3, <2>2, <3>1
  <2> QED BY <2>1, <2>2
<1>9. head'[l].first = IF Len(d) = 0 THEN -1 ELSE d[1]
  <2>1. Len(c) = 0 \/ (1 \in 1 .. Len(c) /\ c[1] # -1)
    BY <1>2, <1>4
  <2> QED BY <1>1, <1>2, <1>3, <2>1
<1>10. head'[l].last = IF Len(d) = 0 THEN -1 ELSE d[Len(d)]
  BY <1>1, <1>2
<1>11. Linked(d, slot', head'[l].first)
  BY <1>2, <1>6, <1>7, <1>9 DEF Linked
<1> QED BY <1>2, <1>7, <1>8, <1>10, <1>11 DEF Chain

(* A chain whose slots and whose level a step leaves alone stays one.      *)
LEMMA ChainKept ==
  ASSUME NEW m \in Level, NEW c \in Seq(Slots), Chain(c, m),
         head'[m].first = head[m].first, head'[m].last = head[m].last,
         \A i \in Slots : entry'[i] = m <=> entry[i] = m,
         \A i \in Slots : entry[i] = m => slot'[i].prev = slot[i].prev /\ slot'[i].next = slot[i].next
  PROVE  Chain(c, m)'
<1>1. \A k \in 1 .. Len(c) : c[k] \in Slots /\ entry[c[k]] = m
  BY DEF Chain
<1>2. Linked(c, slot', head'[m].first)
  BY <1>1 DEF Chain, Linked
<1>3. \A k \in 1 .. Len(c) : slot'[c[k]].prev = IF k = 1 THEN -1 ELSE c[k - 1]
  BY <1>1 DEF Chain
<1> QED BY <1>2, <1>3 DEF Chain

LEMMA AddSpares ==
  ASSUME FileSound, NEW l \in Level, NEW u \in User, NEW q \in 1 .. MaxQty, MarketAdd(l, u, q),
         NEW m \in Level, m # l, NEW c \in Seq(Slots), Chain(c, m)
  PROVE  Chain(c, m)'
<1>0. Adding(l, u, q)
  BY AddDoes
<1>1. \A i \in Slots : entry'[i] = m <=> entry[i] = m
  BY <1>0, MarketFileConstants DEF Adding
<1>2. head'[m] = head[m]
  BY <1>0 DEF Adding
<1>3. ASSUME NEW i \in Slots, entry[i] = m
      PROVE  slot'[i].prev = slot[i].prev /\ slot'[i].next = slot[i].next
  <2>1. i # Handed /\ (head[l].first # -1 => i # head[l].last)
    BY <1>0, <1>3, MarketFileConstants DEF Adding, FileSound, EndsSound
  <2> QED BY <1>0, <1>3, <2>1 DEF Adding
<1> QED BY <1>1, <1>2, <1>3, ChainKept

(* The slot comes off the front of the free list, or the list stays empty. *)
LEMMA AddFrees ==
  ASSUME FileSound, NEW l \in Level, NEW u \in User, NEW q \in 1 .. MaxQty, MarketAdd(l, u, q),
         NEW f \in Seq(Slots), FreeChain(f)
  PROVE  \E g \in Seq(Slots) : FreeChain(g)'
<1>0. Adding(l, u, q)
  BY AddDoes
<1>1. /\ Len(f) \in Nat /\ \A k \in 1 .. Len(f) : f[k] \in Slots
      /\ \A j, k \in 1 .. Len(f) : f[j] = f[k] => j = k
      /\ \A k \in 1 .. Len(f) : slot[f[k]].next = IF k = Len(f) THEN -1 ELSE f[k + 1]
      /\ listfree = IF Len(f) = 0 THEN -1 ELSE f[1]
      /\ \A i \in Slots : i \in Free <=> \E k \in 1 .. Len(f) : f[k] = i
  BY FreeLinked
<1>2. \A i \in Slots : i \in Free <=> i < num /\ entry[i] = NoLevel
  BY DEF Free
<1>3. \A i \in Slots : i \in Free' <=> i < num' /\ entry'[i] = NoLevel
  BY DEF Free
<1>4. l # NoLevel /\ -1 \notin Slots /\ num \in Nat /\ \A i \in Slots : i \in Nat
  BY MarketFileConstants DEF Slots, FileSound, TypeOK
<1>5. CASE Len(f) = 0
  <2>1. listfree = -1 /\ num' = num + 1 /\ listfree' = -1 /\ Handed = num
    BY <1>0, <1>1, <1>5 DEF Adding, Handed
  <2>2. \A i \in Slots : i \notin Free
    BY <1>1, <1>5
  <2>3. \A i \in Slots : i \notin Free'
    BY <1>0, <1>2, <1>3, <1>4, <2>1, <2>2 DEF Adding
  <2>4. FreeChain(f)'
    BY <1>5, <2>1, <2>3 DEF FreeChain, Linked
  <2> QED BY <2>4
<1>6. CASE Len(f) # 0
  <2> DEFINE g == Tail(f)
  <2>1. /\ g \in Seq(Slots) /\ Len(g) = Len(f) - 1
        /\ \A k \in 1 .. Len(g) : g[k] = f[k + 1]
    BY <1>6
  <2> HIDE DEF g
  <2>2. /\ 1 \in 1 .. Len(f) /\ listfree = f[1] /\ f[1] \in Slots /\ f[1] # -1
        /\ Handed = f[1] /\ num' = num /\ listfree' = slot[f[1]].next
    BY <1>0, <1>1, <1>4, <1>6 DEF Adding, Handed
  <2>3. \A k \in 1 .. Len(f) : k = 1 \/ k - 1 \in 1 .. Len(g)
    BY <1>1, <2>1
  <2>4. \A k \in 1 .. Len(g) : k + 1 \in 1 .. Len(f) /\ k + 1 # 1
    BY <1>1, <2>1
  <2>5. \A j, k \in 1 .. Len(g) : g[j] = g[k] => j = k
    <3> SUFFICES ASSUME NEW j \in 1 .. Len(g), NEW k \in 1 .. Len(g), g[j] = g[k] PROVE j = k
      OBVIOUS
    <3>1. j + 1 = k + 1
      BY <1>1, <2>1, <2>4
    <3> QED BY <3>1
  <2>6. ASSUME NEW k \in 1 .. Len(g)
        PROVE  /\ g[k] \in Slots /\ g[k] \in Free /\ g[k] # Handed
               /\ slot[g[k]].next = IF k = Len(g) THEN -1 ELSE g[k + 1]
    <3>1. g[k] = f[k + 1] /\ k + 1 \in 1 .. Len(f) /\ k + 1 # 1
      BY <2>1, <2>4
    <3>2. g[k] \in Slots /\ g[k] \in Free /\ g[k] # Handed
      BY <1>1, <2>2, <3>1
    <3>3. slot[g[k]].next = IF k + 1 = Len(f) THEN -1 ELSE f[(k + 1) + 1]
      BY <1>1, <3>1
    <3>4. k # Len(g) => k + 1 \in 1 .. Len(g)
      BY <2>1
    <3> QED BY <1>1, <2>1, <3>2, <3>3, <3>4
  <2>7. ASSUME NEW k \in 1 .. Len(g)
        PROVE  slot'[g[k]].next = IF k = Len(g) THEN -1 ELSE g[k + 1]
    <3>1. head[l].first # -1 => g[k] # head[l].last
      BY <1>2, <1>4, <2>6 DEF FileSound, EndsSound
    <3> QED BY <1>0, <2>6, <3>1 DEF Adding
  <2>8. listfree' = IF Len(g) = 0 THEN -1 ELSE g[1]
    <3>1. listfree' = IF 1 = Len(f) THEN -1 ELSE f[1 + 1]
      BY <1>1, <2>2
    <3>2. Len(g) # 0 => 1 \in 1 .. Len(g)
      BY <2>1
    <3>3. Len(g) = 0 <=> 1 = Len(f)
      BY <1>1, <2>1
    <3> QED BY <2>1, <3>1, <3>2, <3>3
  <2>9. \A i \in Slots : i \in Free' <=> i \in Free /\ i # Handed
    BY <1>0, <1>2, <1>3, <1>4, <2>2 DEF Adding
  <2>10. \A i \in Slots : i \in Free' <=> \E k \in 1 .. Len(g) : g[k] = i
    <3> TAKE i \in Slots
    <3>1. ASSUME i \in Free, i # Handed PROVE \E k \in 1 .. Len(g) : g[k] = i
      <4>1. PICK k \in 1 .. Len(f) : f[k] = i
        BY <1>1, <3>1
      <4>2. k - 1 \in 1 .. Len(g) /\ (k - 1) + 1 = k
        BY <2>2, <2>3, <3>1, <4>1
      <4> QED BY <2>1, <4>1, <4>2
    <3> QED BY <2>6, <2>9, <3>1
  <2>11. FreeChain(g)'
    BY <2>1, <2>5, <2>7, <2>8, <2>10 DEF FreeChain, Linked
  <2> QED BY <2>1, <2>11
<1> QED BY <1>5, <1>6

\* What a removal does to each field.
Removing(l, x) ==
  /\ x \in Slots /\ entry[x] = l
  /\ \A i \in Slots : entry'[i] = IF i = x THEN NoLevel ELSE entry[i]
  /\ \A m \in Level : m # l => head'[m] = head[m]
  /\ head'[l].total = head[l].total - slot[x].qty
  /\ head'[l].first = IF head[l].first = x THEN slot[x].next ELSE head[l].first
  /\ head'[l].last = IF head[l].last = x THEN slot[x].prev ELSE head[l].last
  /\ slot'[x].next = listfree
  /\ \A i \in Slots : i # x =>
       /\ slot'[i].prev = IF i = slot[x].next THEN slot[x].prev ELSE slot[i].prev
       /\ slot'[i].next = IF i = slot[x].prev THEN slot[x].next ELSE slot[i].next
       /\ slot'[i].qty = slot[i].qty /\ slot'[i].user = slot[i].user
  /\ listfree' = x /\ num' = num

LEMMA RemoveDoes ==
  ASSUME FileSound, NEW l \in Level, NEW x \in Slots, MarketRemove(l, x)
  PROVE  Removing(l, x)
<1>1. /\ entry[x] = l /\ entry' = [entry EXCEPT ![x] = NoLevel]
      /\ head' = UnlinkedHead(l, x) /\ slot' = UnlinkedSlots(x)
      /\ listfree' = x /\ num' = num
  BY DEF MarketRemove
<1>2. \A i \in Slots : entry'[i] = IF i = x THEN NoLevel ELSE entry[i]
  BY <1>1 DEF FileSound, TypeOK
<1>3. /\ \A m \in Level : m # l => head'[m] = head[m]
      /\ head'[l] = [total |-> head[l].total - slot[x].qty,
                     first |-> IF head[l].first = x THEN slot[x].next ELSE head[l].first,
                     last  |-> IF head[l].last = x THEN slot[x].prev ELSE head[l].last]
  BY <1>1 DEF UnlinkedHead, FileSound, TypeOK
<1>4. slot'[x].next = listfree
  BY <1>1 DEF UnlinkedSlots, Vacant
<1>5. ASSUME NEW i \in Slots, i # x
      PROVE  /\ slot'[i].prev = IF i = slot[x].next THEN slot[x].prev ELSE slot[i].prev
             /\ slot'[i].next = IF i = slot[x].prev THEN slot[x].next ELSE slot[i].next
             /\ slot'[i].qty = slot[i].qty /\ slot'[i].user = slot[i].user
  BY <1>1, <1>5 DEF UnlinkedSlots
<1> QED BY <1>1, <1>2, <1>3, <1>4, <1>5 DEF Removing

\* A sequence without its n-th element.
Without(c, n) == [j \in 1 .. Len(c) - 1 |-> IF j < n THEN c[j] ELSE c[j + 1]]

(* A removal closes the gap in the chain of its level.                     *)
LEMMA RemoveCloses ==
  ASSUME FileSound, NEW l \in Level, NEW x \in Slots, MarketRemove(l, x),
         NEW c \in Seq(Slots), Chain(c, l), NEW n \in 1 .. Len(c), c[n] = x,
         NEW d, d = Without(c, n)
  PROVE  d \in Seq(Slots) /\ Chain(d, l)'
<1>0. Removing(l, x)
  BY RemoveDoes
<1>1. /\ entry[x] = l
      /\ \A i \in Slots : entry'[i] = IF i = x THEN NoLevel ELSE entry[i]
      /\ head'[l].first = IF head[l].first = x THEN slot[x].next ELSE head[l].first
      /\ head'[l].last = IF head[l].last = x THEN slot[x].prev ELSE head[l].last
      /\ \A i \in Slots : i # x =>
           /\ slot'[i].prev = IF i = slot[x].next THEN slot[x].prev ELSE slot[i].prev
           /\ slot'[i].next = IF i = slot[x].prev THEN slot[x].next ELSE slot[i].next
  BY <1>0 DEF Removing
<1>2. /\ Len(c) \in Nat /\ \A k \in 1 .. Len(c) : c[k] \in Slots /\ c[k] # -1
      /\ \A j, k \in 1 .. Len(c) : c[j] = c[k] => j = k
      /\ \A k \in 1 .. Len(c) : slot[c[k]].next = IF k = Len(c) THEN -1 ELSE c[k + 1]
      /\ head[l].first = IF Len(c) = 0 THEN -1 ELSE c[1]
      /\ \A i \in Slots : entry[i] = l <=> \E k \in 1 .. Len(c) : c[k] = i
      /\ \A k \in 1 .. Len(c) : slot[c[k]].prev = IF k = 1 THEN -1 ELSE c[k - 1]
      /\ head[l].last = IF Len(c) = 0 THEN -1 ELSE c[Len(c)]
  <2>1. -1 \notin Slots
    BY MarketFileConstants DEF Slots
  <2> QED BY <2>1 DEF Chain, Linked
\* The j-th of the shorter sequence is the g(j)-th of the longer one.
<1> DEFINE g(j) == IF j < n THEN j ELSE j + 1
<1>3. \A j \in 1 .. Len(c) - 1 : g(j) \in 1 .. Len(c) /\ g(j) # n /\ d[j] = c[g(j)]
  BY <1>2 DEF Without
<1>4. d \in Seq(Slots) /\ Len(d) = Len(c) - 1
  <2>1. Len(c) - 1 \in Nat
    BY <1>2
  <2>2. d \in [1 .. Len(c) - 1 -> Slots]
    BY <1>2, <1>3 DEF Without
  <2> QED BY <2>1, <2>2
<1>5. \A j, k \in 1 .. Len(d) : d[j] = d[k] => j = k
  <2> SUFFICES ASSUME NEW j \in 1 .. Len(d), NEW k \in 1 .. Len(d), d[j] = d[k] PROVE j = k
    OBVIOUS
  <2>1. j \in 1 .. Len(c) - 1 /\ k \in 1 .. Len(c) - 1
    BY <1>4
  <2>2. d[j] = c[g(j)] /\ d[k] = c[g(k)] /\ g(j) \in 1 .. Len(c) /\ g(k) \in 1 .. Len(c)
    BY <1>3, <2>1
  <2> HIDE DEF g
  <2>3. \A a, b \in 1 .. Len(c) : c[a] = c[b] => a = b
    BY <1>2
  <2>4. c[g(j)] = c[g(k)]
    BY <2>2
  <2>5. g(j) = g(k)
    BY <2>2, <2>3, <2>4
  <2> QED BY <2>1, <2>5 DEF g
<1>6. slot[x].next = (IF n = Len(c) THEN -1 ELSE c[n + 1]) /\ slot[x].prev = IF n = 1 THEN -1 ELSE c[n - 1]
  BY <1>2
<1>7. ASSUME NEW j \in 1 .. Len(d)
      PROVE  /\ d[j] \in Slots /\ d[j] # x /\ d[j] # -1
             /\ slot'[d[j]].next = IF j = Len(d) THEN -1 ELSE d[j + 1]
             /\ slot'[d[j]].prev = IF j = 1 THEN -1 ELSE d[j - 1]
  <2>1. j \in 1 .. Len(c) - 1 /\ (j # Len(d) => j + 1 \in 1 .. Len(c) - 1) /\ (j # 1 => j - 1 \in 1 .. Len(c) - 1)
    BY <1>2, <1>4
  <2>2. d[j] = c[g(j)] /\ g(j) \in 1 .. Len(c) /\ g(j) # n
    BY <1>3, <2>1
  <2>3. d[j] \in Slots /\ d[j] # x /\ d[j] # -1
    BY <1>2, <2>2
  <2>4. slot[d[j]].next = (IF g(j) = Len(c) THEN -1 ELSE c[g(j) + 1])
        /\ slot[d[j]].prev = IF g(j) = 1 THEN -1 ELSE c[g(j) - 1]
    <3> HIDE DEF g
    <3> QED BY <1>2, <2>2
  <2>5. n # 1 => n - 1 \in 1 .. Len(c)
    BY <1>2
  <2>6. n # Len(c) => n + 1 \in 1 .. Len(c)
    BY <1>2
  <2>7. d[j] = slot[x].prev <=> j = n - 1
    <3>1. CASE n = 1
      BY <1>6, <2>1, <2>3, <3>1
    <3>2. CASE n # 1
      <4>1. d[j] = slot[x].prev <=> g(j) = n - 1
        BY <1>2, <1>6, <2>2, <2>5, <3>2
      <4> QED BY <2>1, <4>1
    <3> QED BY <3>1, <3>2
  <2>8. d[j] = slot[x].next <=> j = n
    <3>1. CASE n = Len(c)
      BY <1>2, <1>6, <2>1, <2>3, <3>1
    <3>2. CASE n # Len(c)
      <4>1. d[j] = slot[x].next <=> g(j) = n + 1
        BY <1>2, <1>6, <2>2, <2>6, <3>2
      <4> QED BY <2>1, <4>1
    <3> QED BY <3>1, <3>2
  <2>9. slot'[d[j]].next = IF j = Len(d) THEN -1 ELSE d[j + 1]
    <3>1. slot'[d[j]].next = IF j = n - 1 THEN slot[x].next ELSE slot[d[j]].next
      BY <1>1, <2>3, <2>7
    <3>2. j # Len(d) => d[j + 1] = c[g(j + 1)]
      BY <1>3, <2>1
    <3>3. CASE j = n - 1
      <4>1. (j = Len(d) <=> n = Len(c)) /\ g(j + 1) = n + 1
        BY <1>2, <1>4, <2>1, <3>3
      <4> QED BY <1>6, <3>1, <3>2, <3>3, <4>1
    <3>4. CASE j # n - 1
      <4>1. (j = Len(d) => g(j) = Len(c)) /\ (j # Len(d) => g(j) # Len(c) /\ g(j + 1) = g(j) + 1)
        BY <1>2, <1>4, <2>1, <3>4
      <4> QED BY <2>4, <3>1, <3>2, <3>4, <4>1
    <3> QED BY <3>3, <3>4
  <2>10. slot'[d[j]].prev = IF j = 1 THEN -1 ELSE d[j - 1]
    <3>1. slot'[d[j]].prev = IF j = n THEN slot[x].prev ELSE slot[d[j]].prev
      BY <1>1, <2>3, <2>8
    <3>2. j # 1 => d[j - 1] = c[g(j - 1)]
      BY <1>3, <2>1
    <3>3. CASE j = n
      <4>1. j # 1 => g(j - 1) = n - 1
        BY <1>2, <2>1, <3>3
      <4> QED BY <1>6, <3>1, <3>2, <3>3, <4>1
    <3>4. CASE j # n
      <4>1. (j = 1 => g(j) = 1) /\ (j # 1 => g(j) # 1 /\ g(j - 1) = g(j) - 1)
        BY <1>2, <2>1, <3>4
      <4> QED BY <2>4, <3>1, <3>2, <3>4, <4>1
    <3> QED BY <3>3, <3>4
  <2> QED BY <2>3, <2>9, <2>10
<1>8. \A i \in Slots : entry'[i] = l <=> \E j \in 1 .. Len(d) : d[j] = i
  <2> TAKE i \in Slots
  <2>1. ASSUME entry'[i] = l PROVE \E j \in 1 .. Len(d) : d[j] = i
    <3>1. i # x /\ entry[i] = l
      BY <1>1, <2>1, MarketFileConstants
    <3>2. PICK k \in 1 .. Len(c) : c[k] = i
      BY <1>2, <3>1
    <3>3. k # n
      BY <3>1, <3>2
    <3> DEFINE j == IF k < n THEN k ELSE k - 1
    <3>4. j \in 1 .. Len(c) - 1 /\ g(j) = k
      BY <1>2, <3>3
    <3> HIDE DEF j
    <3>5. d[j] = i /\ j \in 1 .. Len(d)
      BY <1>3, <1>4, <3>2, <3>4
    <3> QED BY <3>5
  <2>2. ASSUME NEW j \in 1 .. Len(d), d[j] = i PROVE entry'[i] = l
    <3>1. j \in 1 .. Len(c) - 1
      BY <1>4
    <3>2. g(j) \in 1 .. Len(c) /\ c[g(j)] = i
      BY <1>3, <2>2, <3>1
    <3>3. entry[i] = l /\ i # x
      BY <1>2, <1>7, <2>2, <3>2
    <3> QED BY <1>1, <3>3
  <2> QED BY <2>1, <2>2
<1>9. head'[l].first = IF Len(d) = 0 THEN -1 ELSE d[1]
  <2>1. 1 \in 1 .. Len(c) /\ (Len(d) = 0 <=> Len(c) = 1) /\ head[l].first = c[1]
    BY <1>2, <1>4
  <2>2. head[l].first = x <=> n = 1
    BY <1>2, <2>1
  <2>3. Len(d) # 0 => d[1] = c[g(1)]
    BY <1>2, <1>3, <1>4
  <2>4. CASE n = 1
    BY <1>1, <1>6, <2>1, <2>2, <2>3, <2>4
  <2>5. CASE n # 1
    BY <1>1, <2>1, <2>2, <2>3, <2>5
  <2> QED BY <2>4, <2>5
<1>10. head'[l].last = IF Len(d) = 0 THEN -1 ELSE d[Len(d)]
  <2>1. Len(c) \in 1 .. Len(c) /\ (Len(d) = 0 <=> Len(c) = 1) /\ head[l].last = c[Len(c)]
    BY <1>2, <1>4
  <2>2. head[l].last = x <=> n = Len(c)
    BY <1>2, <2>1
  <2>3. Len(d) # 0 => d[Len(d)] = c[g(Len(d))]
    <3>1. Len(d) # 0 => Len(d) \in 1 .. Len(c) - 1
      BY <1>2, <1>4
    <3> QED BY <1>3, <3>1
  <2>4. CASE n = Len(c)
    <3>1. Len(d) # 0 => g(Len(d)) = n - 1
      BY <1>2, <1>4, <2>4
    <3> QED BY <1>1, <1>6, <2>1, <2>2, <2>3, <2>4, <3>1
  <2>5. CASE n # Len(c)
    <3>1. Len(d) # 0 /\ g(Len(d)) = Len(c)
      BY <1>2, <1>4, <2>5
    <3> QED BY <1>1, <2>1, <2>2, <2>3, <2>5, <3>1
  <2> QED BY <2>4, <2>5
<1> HIDE DEF g
<1>11. Linked(d, slot', head'[l].first)
  BY <1>4, <1>5, <1>7, <1>9 DEF Linked
<1> QED BY <1>4, <1>7, <1>8, <1>10, <1>11 DEF Chain

LEMMA RemoveSpares ==
  ASSUME FileSound, NEW l \in Level, NEW x \in Slots, MarketRemove(l, x),
         NEW m \in Level, m # l, NEW c \in Seq(Slots), Chain(c, m)
  PROVE  Chain(c, m)'
<1>0. Removing(l, x)
  BY RemoveDoes
<1>1. \A i \in Slots : entry'[i] = m <=> entry[i] = m
  BY <1>0, MarketFileConstants DEF Removing
<1>2. head'[m] = head[m]
  BY <1>0 DEF Removing
<1>3. ASSUME NEW i \in Slots, entry[i] = m
      PROVE  slot'[i].prev = slot[i].prev /\ slot'[i].next = slot[i].next
  <2>1. i # x /\ i # -1
    BY <1>0, <1>3, MarketFileConstants DEF Removing, Slots
  <2>2. i # slot[x].next /\ i # slot[x].prev
    <3>1. /\ slot[x].prev # -1 => entry[slot[x].prev] = l
          /\ slot[x].next # -1 => entry[slot[x].next] = l
      BY <1>0, MarketFileConstants DEF Removing, FileSound, LinksMutual
    <3> QED BY <1>3, <2>1, <3>1
  <2> QED BY <1>0, <2>1, <2>2 DEF Removing
<1> QED BY <1>1, <1>2, <1>3, ChainKept

(* The slot goes in front of the free list.                                *)
LEMMA RemoveFrees ==
  ASSUME FileSound, NEW l \in Level, NEW x \in Slots, MarketRemove(l, x),
         NEW f \in Seq(Slots), FreeChain(f)
  PROVE  \E g \in Seq(Slots) : FreeChain(g)'
<1>0. Removing(l, x)
  BY RemoveDoes
<1>1. /\ Len(f) \in Nat /\ \A k \in 1 .. Len(f) : f[k] \in Slots
      /\ \A j, k \in 1 .. Len(f) : f[j] = f[k] => j = k
      /\ \A k \in 1 .. Len(f) : slot[f[k]].next = IF k = Len(f) THEN -1 ELSE f[k + 1]
      /\ listfree = IF Len(f) = 0 THEN -1 ELSE f[1]
      /\ \A i \in Slots : i \in Free <=> \E k \in 1 .. Len(f) : f[k] = i
  BY FreeLinked
<1>2. \A i \in Slots : i \in Free <=> i < num /\ entry[i] = NoLevel
  BY DEF Free
<1>3. \A i \in Slots : i \in Free' <=> i < num' /\ entry'[i] = NoLevel
  BY DEF Free
<1>4. l # NoLevel /\ -1 \notin Slots
  BY MarketFileConstants DEF Slots
<1> DEFINE g == <<x>> \o f
<1>5. /\ g \in Seq(Slots) /\ Len(g) = Len(f) + 1 /\ g[1] = x
      /\ \A k \in 1 .. Len(f) : g[k + 1] = f[k]
  OBVIOUS
<1> HIDE DEF g
<1>6. \A k \in 1 .. Len(g) : k = 1 \/ (k - 1 \in 1 .. Len(f) /\ (k - 1) + 1 = k)
  BY <1>1, <1>5
<1>7. x \notin Free
  BY <1>0, <1>2, <1>4 DEF Removing
<1>8. \A k \in 1 .. Len(g) : k # 1 => g[k] = f[k - 1] /\ g[k] \in Free /\ g[k] \in Slots /\ g[k] # x
  <2> SUFFICES ASSUME NEW k \in 1 .. Len(g), k # 1
               PROVE  g[k] = f[k - 1] /\ g[k] \in Free /\ g[k] \in Slots /\ g[k] # x
    OBVIOUS
  <2>1. k - 1 \in 1 .. Len(f) /\ (k - 1) + 1 = k
    BY <1>6
  <2>2. g[k] = f[k - 1] /\ f[k - 1] \in Slots
    BY <1>1, <1>5, <2>1
  <2> QED BY <1>1, <1>7, <2>1, <2>2
<1>9. \A j, k \in 1 .. Len(g) : g[j] = g[k] => j = k
  <2> SUFFICES ASSUME NEW j \in 1 .. Len(g), NEW k \in 1 .. Len(g), g[j] = g[k] PROVE j = k
    OBVIOUS
  <2>1. CASE j = 1 \/ k = 1
    BY <1>5, <1>8, <2>1
  <2>2. CASE j # 1 /\ k # 1
    <3>1. j - 1 = k - 1
      BY <1>1, <1>6, <1>8, <2>2
    <3> QED BY <3>1
  <2> QED BY <2>1, <2>2
<1>10. ASSUME NEW k \in 1 .. Len(g)
       PROVE  slot'[g[k]].next = IF k = Len(g) THEN -1 ELSE g[k + 1]
  <2>1. CASE k = 1
    <3>1. slot'[g[k]].next = listfree
      BY <1>0, <1>5, <2>1 DEF Removing
    <3>2. Len(f) # 0 => g[1 + 1] = f[1]
      BY <1>1, <1>5
    <3> QED BY <1>1, <1>5, <2>1, <3>1, <3>2
  <2>2. CASE k # 1
    <3> DEFINE i == g[k]
    <3>1. /\ i = f[k - 1] /\ i \in Free /\ i \in Slots /\ i # x /\ k - 1 \in 1 .. Len(f) /\ (k - 1) + 1 = k
      BY <1>6, <1>8, <2>2
    <3>2. slot[i].next = IF k - 1 = Len(f) THEN -1 ELSE f[k]
      BY <1>1, <3>1
    <3>3. k # Len(g) => g[k + 1] = f[k] /\ k - 1 # Len(f)
      BY <1>1, <1>5, <3>1
    <3>4. i # slot[x].prev
      <4>1. slot[x].prev # -1 => entry[slot[x].prev] = l
        BY <1>0, <1>4 DEF Removing, FileSound, LinksMutual
      <4> QED BY <1>2, <1>4, <3>1, <4>1
    <3>5. slot'[i].next = slot[i].next
      BY <1>0, <3>1, <3>4 DEF Removing
    <3> QED BY <1>1, <1>5, <3>2, <3>3, <3>5
  <2> QED BY <2>1, <2>2
<1>11. listfree' = IF Len(g) = 0 THEN -1 ELSE g[1]
  BY <1>0, <1>1, <1>5 DEF Removing
<1>12. \A i \in Slots : i \in Free' <=> i \in Free \/ i = x
  BY <1>0, <1>2, <1>3, <1>4 DEF Removing, FileSound, FreeSound
<1>13. \A i \in Slots : i \in Free' <=> \E k \in 1 .. Len(g) : g[k] = i
  <2> TAKE i \in Slots
  <2>1. ASSUME i \in Free PROVE \E k \in 1 .. Len(g) : g[k] = i
    <3>1. PICK k \in 1 .. Len(f) : f[k] = i
      BY <1>1, <2>1
    <3>2. k + 1 \in 1 .. Len(g)
      BY <1>1, <1>5
    <3> QED BY <1>5, <3>1, <3>2
  <2>2. ASSUME i = x PROVE \E k \in 1 .. Len(g) : g[k] = i
    <3>1. 1 \in 1 .. Len(g)
      BY <1>1, <1>5
    <3> QED BY <1>5, <2>2, <3>1
  <2>3. ASSUME NEW k \in 1 .. Len(g), g[k] = i PROVE i \in Free \/ i = x
    BY <1>5, <1>8, <2>3
  <2> QED BY <1>12, <2>1, <2>2, <2>3
<1>14. Linked(g, slot', listfree')
  BY <1>5, <1>9, <1>10, <1>11 DEF Linked
<1>15. FreeChain(g)'
  BY <1>13, <1>14 DEF FreeChain
<1> QED BY <1>5, <1>15

(* A change of a quantity leaves every list as it is.                      *)
LEMMA SetQuantityDoes ==
  ASSUME FileSound, NEW l \in Level, NEW x \in Slots, NEW loss \in 1 .. MaxQty,
         MarketSetQuantity(l, x, loss)
  PROVE  /\ entry[x] = l /\ slot[x].qty > loss
         /\ entry' = entry /\ num' = num /\ listfree' = listfree
         /\ head'[l].total = head[l].total - loss
         /\ \A m \in Level : /\ m # l => head'[m] = head[m]
                             /\ head'[m].first = head[m].first /\ head'[m].last = head[m].last
         /\ \A i \in Slots : /\ slot'[i].prev = slot[i].prev /\ slot'[i].next = slot[i].next
                             /\ slot'[i].user = slot[i].user
                             /\ slot'[i].qty = IF i = x THEN slot[i].qty - loss ELSE slot[i].qty
<1>1. /\ entry[x] = l /\ slot[x].qty > loss
      /\ entry' = entry /\ num' = num /\ listfree' = listfree
      /\ head' = [head EXCEPT ![l].total = @ - loss]
      /\ slot' = [slot EXCEPT ![x].qty = @ - loss]
  BY DEF MarketSetQuantity
<1>2. /\ head \in [Level -> LevelHead] /\ slot \in [Slots -> Slot]
  BY DEF FileSound, TypeOK
<1>3. /\ head'[l].total = head[l].total - loss
      /\ \A m \in Level : /\ m # l => head'[m] = head[m]
                          /\ head'[m].first = head[m].first /\ head'[m].last = head[m].last
  BY <1>1, <1>2 DEF LevelHead
<1>4. \A i \in Slots : /\ slot'[i].prev = slot[i].prev /\ slot'[i].next = slot[i].next
                       /\ slot'[i].user = slot[i].user
                       /\ slot'[i].qty = IF i = x THEN slot[i].qty - loss ELSE slot[i].qty
  BY <1>1, <1>2 DEF Slot
<1> QED BY <1>1, <1>3, <1>4

LEMMA SetQuantityKeeps ==
  ASSUME FileSound, NEW l \in Level, NEW x \in Slots, NEW loss \in 1 .. MaxQty,
         MarketSetQuantity(l, x, loss), NEW c \in Seq(Slots)
  PROVE  /\ \A m \in Level : Chain(c, m) => Chain(c, m)'
         /\ FreeChain(c) => FreeChain(c)'
<1>1. /\ entry' = entry /\ num' = num /\ listfree' = listfree
      /\ \A m \in Level : head'[m].first = head[m].first /\ head'[m].last = head[m].last
      /\ \A i \in Slots : slot'[i].prev = slot[i].prev /\ slot'[i].next = slot[i].next
  BY SetQuantityDoes
<1>2. ASSUME NEW m \in Level, Chain(c, m) PROVE Chain(c, m)'
  BY <1>1, <1>2, ChainKept
<1>3. ASSUME FreeChain(c) PROVE FreeChain(c)'
  <2>1. \A k \in 1 .. Len(c) : c[k] \in Slots
    OBVIOUS
  <2>2. Linked(c, slot', listfree')
    BY <1>1, <1>3, <2>1 DEF FreeChain, Linked
  <2>3. Free' = Free
    BY <1>1 DEF Free
  <2> QED BY <1>3, <2>2, <2>3 DEF FreeChain
<1> QED BY <1>2, <1>3

----------------------------------------------------------------------------
(* Sums over slots.                                                        *)

(* A fold over the subsets of a finite set, one element after another.     *)
Foldable(S, V, base, c, st) ==
  /\ IsFiniteSet(S) /\ base \in V
  /\ \A s \in SUBSET S : s # {} => c[s] \in s
  /\ \A x \in S, v \in V : st[<<x, v>>] \in V

IsFold(f, S, base, c, st) ==
  \A s \in SUBSET S : f[s] = IF s = {} THEN base ELSE st[<<c[s], f[s \ {c[s]}]>>]

LEMMA FoldExists ==
  ASSUME NEW S, NEW V, NEW base, NEW c, NEW st, Foldable(S, V, base, c, st)
  PROVE  \E f \in [SUBSET S -> V] : IsFold(f, S, base, c, st)
<1> DEFINE Upto(n) == {s \in SUBSET S : Cardinality(s) <= n}
           Good(n) == \E f \in [SUBSET S -> V] :
                        \A s \in Upto(n) : f[s] = IF s = {} THEN base ELSE st[<<c[s], f[s \ {c[s]}]>>]
           Bad == {n \in Nat : ~Good(n)}
<1>1. \A s \in SUBSET S : IsFiniteSet(s) /\ Cardinality(s) \in Nat /\ Cardinality(s) <= Cardinality(S)
  BY FS_Subset, FS_CardinalityType DEF Foldable
<1>2. \A s \in SUBSET S : s # {} => /\ s \ {c[s]} \in SUBSET S
                                    /\ Cardinality(s \ {c[s]}) = Cardinality(s) - 1
  BY <1>1, FS_RemoveElement DEF Foldable
<1>3. ASSUME NEW n \in Nat, \A m \in Nat : m < n => Good(m) PROVE Good(n)
  <2>1. CASE n = 0
    <3>1. \A s \in Upto(0) : s = {}
      BY <1>1, FS_EmptySet
    <3>2. [s \in SUBSET S |-> base] \in [SUBSET S -> V]
      BY DEF Foldable
    <3> QED BY <2>1, <3>1, <3>2
  <2>2. CASE n # 0
    <3>1. n - 1 \in Nat /\ n - 1 < n
      BY <2>2
    <3>2. PICK g \in [SUBSET S -> V] :
            \A s \in Upto(n - 1) : g[s] = IF s = {} THEN base ELSE st[<<c[s], g[s \ {c[s]}]>>]
      BY <1>3, <3>1
    <3> DEFINE f == [s \in SUBSET S |-> IF s = {} THEN base ELSE st[<<c[s], g[s \ {c[s]}]>>]]
    <3>3. f \in [SUBSET S -> V]
      <4>1. \A s \in SUBSET S : s # {} => c[s] \in S /\ g[s \ {c[s]}] \in V
        BY <1>2 DEF Foldable
      <4> QED BY <4>1 DEF Foldable
    <3>4. \A s \in Upto(n - 1) : f[s] = g[s]
      BY <3>2
    <3>5. \A s \in Upto(n) : s # {} => s \ {c[s]} \in Upto(n - 1)
      BY <1>1, <1>2, <3>1
    <3>6. \A s \in Upto(n) : f[s] = IF s = {} THEN base ELSE st[<<c[s], f[s \ {c[s]}]>>]
      <4> TAKE s \in Upto(n)
      <4>1. CASE s = {}
        BY <4>1
      <4>2. CASE s # {}
        BY <3>4, <3>5, <4>2
      <4> QED BY <4>1, <4>2
    <3> HIDE DEF f, Upto
    <3> QED BY <3>3, <3>6
  <2> QED BY <2>1, <2>2
<1>4. Bad = {}
  <2> HIDE DEF Good
  <2> SUFFICES ASSUME Bad # {} PROVE FALSE
    OBVIOUS
  <2>1. PICK n \in Bad : \A m \in Bad : n <= m
    <3>1. Bad \in SUBSET Nat
      OBVIOUS
    <3> HIDE DEF Bad
    <3> QED BY <3>1, Least
  <2>2. \A m \in Nat : m < n => Good(m)
    BY <2>1
  <2> QED BY <1>3, <2>1, <2>2
<1>5. Cardinality(S) \in Nat /\ Upto(Cardinality(S)) = SUBSET S
  BY <1>1 DEF Foldable
<1> HIDE DEF Upto
<1>6. Good(Cardinality(S))
  BY <1>4, <1>5
<1> QED BY <1>5, <1>6 DEF IsFold

(* What holds of the empty set, and of a set once it holds without one of  *)
(* its elements, holds of every subset.                                    *)
Grows(S, G) == \A s \in SUBSET S : (\A x \in s : s \ {x} \in G) => s \in G

LEMMA SetInduction ==
  ASSUME NEW S, IsFiniteSet(S), NEW G, Grows(S, G)
  PROVE  SUBSET S \subseteq G
<1> DEFINE Bad == {n \in Nat : \E s \in SUBSET S : s \notin G /\ Cardinality(s) = n}
<1>1. \A s \in SUBSET S : IsFiniteSet(s) /\ Cardinality(s) \in Nat
  BY FS_Subset, FS_CardinalityType
<1>2. SUFFICES ASSUME Bad # {} PROVE FALSE
  BY <1>1
<1>3. PICK n \in Bad : \A m \in Bad : n <= m
  <2>1. Bad \in SUBSET Nat
    OBVIOUS
  <2> HIDE DEF Bad
  <2> QED BY <1>2, <2>1, Least
<1>4. PICK s \in SUBSET S : s \notin G /\ Cardinality(s) = n
  OBVIOUS
<1>5. PICK x \in s : s \ {x} \notin G
  BY <1>4 DEF Grows
<1>6. s \ {x} \in SUBSET S /\ Cardinality(s \ {x}) = n - 1
  BY <1>1, <1>4, FS_RemoveElement
<1>7. n - 1 \in Bad
  BY <1>1, <1>5, <1>6
<1> QED BY <1>3, <1>7

(* The sums that MapThenSumSet computes, one element after another.        *)
Chosen(s) == CHOOSE x \in s : TRUE
Weighed(Q, S) == IsFiniteSet(S) /\ \A i \in S : Q[i].qty \in Nat
Sums(f, Q, S) == \A s \in SUBSET S :
                   f[s] = IF s = {} THEN 0 ELSE Q[Chosen(s)].qty + f[s \ {Chosen(s)}]

LEMMA SumsExist ==
  ASSUME NEW Q, NEW S, Weighed(Q, S)
  PROVE  \E f \in [SUBSET S -> Nat] : Sums(f, Q, S)
<1> DEFINE c == [s \in SUBSET S |-> Chosen(s)]
           st == [z \in S \X Nat |-> Q[z[1]].qty + z[2]]
<1>1. \A s \in SUBSET S : c[s] = Chosen(s) /\ (s # {} => c[s] \in s)
  BY DEF Chosen
<1>2. \A x \in S, v \in Nat : st[<<x, v>>] = Q[x].qty + v /\ st[<<x, v>>] \in Nat
  BY DEF Weighed
<1>3. Foldable(S, Nat, 0, c, st)
  BY <1>1, <1>2 DEF Foldable, Weighed
<1> HIDE DEF c, st
<1>4. PICK f \in [SUBSET S -> Nat] : IsFold(f, S, 0, c, st)
  BY <1>3, FoldExists
<1>5. Sums(f, Q, S)
  <2> SUFFICES ASSUME NEW s \in SUBSET S
               PROVE  f[s] = IF s = {} THEN 0 ELSE Q[Chosen(s)].qty + f[s \ {Chosen(s)}]
    BY DEF Sums
  <2>1. CASE s = {}
    BY <1>4, <2>1 DEF IsFold
  <2>2. CASE s # {}
    <3>1. Chosen(s) \in S /\ f[s \ {Chosen(s)}] \in Nat
      BY <1>1, <2>2
    <3>2. f[s] = st[<<Chosen(s), f[s \ {Chosen(s)}]>>]
      BY <1>1, <1>4, <2>2 DEF IsFold
    <3> QED BY <1>2, <2>2, <3>1, <3>2
  <2> QED BY <2>1, <2>2
<1> QED BY <1>5

LEMMA SumsSame ==
  ASSUME NEW Q, NEW S, Weighed(Q, S), NEW T \in SUBSET S,
         NEW f, Sums(f, Q, S), NEW g, Sums(g, Q, T)
  PROVE  g[T] = f[T]
<1> DEFINE G == {s \in SUBSET T : g[s] = f[s]}
<1>1. ASSUME NEW s \in SUBSET T, \A x \in s : s \ {x} \in G PROVE s \in G
  <2>1. g[s] = f[s]
    <3>1. CASE s = {}
      BY <3>1 DEF Sums
    <3>2. CASE s # {}
      <4>1. Chosen(s) \in s
        BY <3>2 DEF Chosen
      <4> QED BY <1>1, <3>2, <4>1 DEF Sums
    <3> QED BY <3>1, <3>2
  <2> QED BY <2>1
<1> HIDE DEF G
<1>2. Grows(T, G)
  BY <1>1 DEF Grows
<1>3. IsFiniteSet(T)
  BY FS_Subset DEF Weighed
<1>4. SUBSET T \subseteq G
  BY <1>2, <1>3, SetInduction
<1> QED BY <1>4 DEF G

LEMMA QtyFold ==
  ASSUME NEW Q, NEW S, Weighed(Q, S)
  PROVE  /\ Qty(Q, {}) = 0
         /\ \A s \in SUBSET S : Qty(Q, s) \in Nat
         /\ \A s \in SUBSET S : s # {} => /\ Chosen(s) \in s
                                          /\ Qty(Q, s) = Q[Chosen(s)].qty + Qty(Q, s \ {Chosen(s)})
<1>1. PICK f \in [SUBSET S -> Nat] : Sums(f, Q, S)
  BY SumsExist
<1>2. ASSUME NEW T \in SUBSET S PROVE Qty(Q, T) = f[T]
  <2> DEFINE is(g) == g = [s \in SUBSET T |->
                             IF s = {} THEN 0
                             ELSE Q[CHOOSE x \in s : TRUE].qty + g[s \ {CHOOSE x \in s : TRUE}]]
             it == CHOOSE g : is(g)
             g0 == [s \in SUBSET T |-> f[s]]
  <2>1. \A s \in SUBSET T : g0[s] = f[s] /\ g0[s \ {CHOOSE x \in s : TRUE}] = f[s \ {CHOOSE x \in s : TRUE}]
    OBVIOUS
  <2>2. is(g0)
    BY <1>1, <2>1 DEF Sums, Chosen
  <2>3. is(it)
    BY <2>2
  <2>4. Qty(Q, T) = it[T]
    BY DEF Qty, MapThenSumSet, MapThenFoldSet
  <2> HIDE DEF it
  <2>5. Sums(it, Q, T)
    BY <2>3 DEF Sums, Chosen
  <2> QED BY <1>1, <2>4, <2>5, SumsSame
<1>3. \A s \in SUBSET S : s # {} => Chosen(s) \in s
  BY DEF Chosen
<1> QED BY <1>1, <1>2, <1>3 DEF Sums

LEMMA QtyAdds ==
  ASSUME NEW Q, NEW S, Weighed(Q, S), NEW x \in S
  PROVE  /\ Qty(Q, S) = Q[x].qty + Qty(Q, S \ {x}) /\ Qty(Q, S \ {x}) \in Nat
         /\ Qty(Q, S) \in Nat /\ Q[x].qty \in Nat
<1> DEFINE G == {s \in SUBSET S : \A y \in s : Qty(Q, s) = Q[y].qty + Qty(Q, s \ {y})}
<1>1. ASSUME NEW s \in SUBSET S, \A y \in s : s \ {y} \in G PROVE s \in G
  <2> SUFFICES ASSUME NEW y \in s PROVE Qty(Q, s) = Q[y].qty + Qty(Q, s \ {y})
    OBVIOUS
  <2> DEFINE z == Chosen(s)
  <2>1. z \in s /\ Qty(Q, s) = Q[z].qty + Qty(Q, s \ {z})
    BY QtyFold
  <2>2. Q[z].qty \in Nat /\ Q[y].qty \in Nat
    BY <2>1 DEF Weighed
  <2> HIDE DEF z
  <2>3. CASE y = z
    BY <2>1, <2>3
  <2>4. CASE y # z
    <3>1. (s \ {z}) \ {y} = (s \ {y}) \ {z} /\ (s \ {z}) \ {y} \in SUBSET S
      OBVIOUS
    <3>2. Qty(Q, s \ {z}) = Q[y].qty + Qty(Q, (s \ {z}) \ {y})
      BY <1>1, <2>1, <2>4
    <3>3. Qty(Q, s \ {y}) = Q[z].qty + Qty(Q, (s \ {y}) \ {z})
      BY <1>1, <2>1, <2>4
    <3>4. Qty(Q, (s \ {z}) \ {y}) \in Nat
      BY <3>1, QtyFold
    <3>5. Qty(Q, (s \ {z}) \ {y}) = Qty(Q, (s \ {y}) \ {z})
      BY <3>1
    <3> QED BY <2>1, <2>2, <3>2, <3>3, <3>4, <3>5
  <2> QED BY <2>3, <2>4
<1> HIDE DEF G
<1>2. Grows(S, G)
  BY <1>1 DEF Grows
<1>3. SUBSET S \subseteq G
  BY <1>2, SetInduction DEF Weighed
<1>4. S \in G
  BY <1>3
<1>5. Qty(Q, S) \in Nat /\ Qty(Q, S \ {x}) \in Nat
  BY QtyFold
<1> QED BY <1>4, <1>5 DEF G, Weighed

(* A sum over slots that hold the same.                                    *)
LEMMA QtySame ==
  ASSUME NEW Q, NEW R, NEW S, Weighed(Q, S), \A i \in S : R[i].qty = Q[i].qty
  PROVE  Qty(R, S) = Qty(Q, S)
<1> DEFINE G == {s \in SUBSET S : Qty(R, s) = Qty(Q, s)}
<1>0. Weighed(R, S)
  BY DEF Weighed
<1>1. ASSUME NEW s \in SUBSET S, \A y \in s : s \ {y} \in G PROVE s \in G
  <2>1. CASE s = {}
    <3>1. Qty(R, s) = 0 /\ Qty(Q, s) = 0
      BY <1>0, <2>1, QtyFold
    <3> QED BY <3>1
  <2>2. CASE s # {}
    <3>1. PICK x \in s : TRUE
      BY <2>2
    <3>2. Weighed(Q, s) /\ Weighed(R, s)
      BY <1>0, FS_Subset DEF Weighed
    <3>3. Qty(Q, s) = Q[x].qty + Qty(Q, s \ {x})
      BY <3>2, QtyAdds
    <3>4. Qty(R, s) = R[x].qty + Qty(R, s \ {x})
      BY <3>2, QtyAdds
    <3> QED BY <1>1, <3>3, <3>4
  <2> QED BY <2>1, <2>2
<1> HIDE DEF G
<1>2. Grows(S, G)
  BY <1>1 DEF Grows
<1>3. SUBSET S \subseteq G
  BY <1>2, SetInduction DEF Weighed
<1> QED BY <1>3 DEF G

\* What a level's header says.
TotalRight(l) == head[l].total = Qty(slot, Listed(l))

LEMMA ListedWeighs ==
  ASSUME FileSound, NEW l \in Level
  PROVE  Weighed(slot, Listed(l))
<1>1. IsFiniteSet(Slots)
  BY FS_Interval, MarketFileConstants DEF Slots
<1>2. IsFiniteSet(Listed(l))
  BY <1>1, FS_Subset DEF Listed
<1>3. \A i \in Listed(l) : slot[i].qty \in Nat
  BY MarketFileConstants DEF FileSound, BidsLive, Listed
<1> QED BY <1>2, <1>3 DEF Weighed

(* Whoever keeps a level's slots and their quantities keeps its sum.       *)
LEMMA SumKept ==
  ASSUME FileSound, NEW m \in Level, TotalRight(m),
         head'[m].total = head[m].total,
         \A i \in Slots : entry'[i] = m <=> entry[i] = m,
         \A i \in Slots : entry[i] = m => slot'[i].qty = slot[i].qty
  PROVE  TotalRight(m)'
<1>1. Listed(m)' = Listed(m)
  BY DEF Listed
<1>2. \A i \in Listed(m) : slot'[i].qty = slot[i].qty
  BY DEF Listed
<1>3. Qty(slot', Listed(m)) = Qty(slot, Listed(m))
  BY <1>2, ListedWeighs, QtySame
<1> QED BY <1>1, <1>3 DEF TotalRight

LEMMA AddCounts ==
  ASSUME FileSound, NEW l \in Level, NEW u \in User, NEW q \in 1 .. MaxQty, MarketAdd(l, u, q),
         TotalsAgree
  PROVE  TotalsAgree'
<1>0. Adding(l, u, q)
  BY AddDoes
<1>1. ASSUME NEW m \in Level, m # l PROVE TotalRight(m)'
  <2>1. TotalRight(m)
    BY DEF TotalsAgree, TotalRight
  <2>2. head'[m].total = head[m].total /\ \A i \in Slots : entry'[i] = m <=> entry[i] = m
    BY <1>0, <1>1, MarketFileConstants DEF Adding
  <2>3. \A i \in Slots : entry[i] = m => slot'[i].qty = slot[i].qty
    BY <1>0, <1>1, MarketFileConstants DEF Adding
  <2> QED BY <2>1, <2>2, <2>3, SumKept
<1>2. TotalRight(l)'
  <2> DEFINE x == Handed
             old == Listed(l)
             new == old \cup {x}
  <2>1. x \in Slots /\ x \notin old /\ slot'[x].qty = q /\ head'[l].total = head[l].total + q
    BY <1>0, MarketFileConstants DEF Adding, Listed
  <2>2. \A i \in old : slot'[i].qty = slot[i].qty
    BY <1>0, <2>1 DEF Adding, Listed
  <2>3. Listed(l)' = new
    BY <1>0 DEF Adding, Listed
  <2>4. Weighed(slot, old)
    BY ListedWeighs
  <2>5. Weighed(slot', new)
    <3>1. IsFiniteSet(new)
      BY <2>4, FS_AddElement DEF Weighed
    <3> QED BY <2>1, <2>2, <2>4, <3>1, MarketFileConstants DEF Weighed
  <2>6. new \ {x} = old /\ x \in new
    BY <2>1
  <2>7. head[l].total = Qty(slot, old)
    BY DEF TotalsAgree
  <2> HIDE DEF x, old, new
  <2>8. Qty(slot', new) = slot'[x].qty + Qty(slot', old)
    BY <2>5, <2>6, QtyAdds
  <2>9. Qty(slot', old) = Qty(slot, old)
    BY <2>2, <2>4, QtySame
  <2>10. Qty(slot, old) \in Nat
    BY <2>4, QtyFold
  <2>11. head'[l].total = Qty(slot', new)
    BY <2>1, <2>7, <2>8, <2>9, <2>10
  <2> QED BY <2>3, <2>11 DEF TotalRight
<1> QED BY <1>1, <1>2 DEF TotalsAgree, TotalRight

LEMMA RemoveCounts ==
  ASSUME FileSound, NEW l \in Level, NEW x \in Slots, MarketRemove(l, x), TotalsAgree
  PROVE  TotalsAgree'
<1>0. Removing(l, x)
  BY RemoveDoes
<1>1. ASSUME NEW m \in Level, m # l PROVE TotalRight(m)'
  <2>1. TotalRight(m)
    BY DEF TotalsAgree, TotalRight
  <2>2. head'[m].total = head[m].total /\ \A i \in Slots : entry'[i] = m <=> entry[i] = m
    BY <1>0, <1>1, MarketFileConstants DEF Removing
  <2>3. \A i \in Slots : entry[i] = m => slot'[i].qty = slot[i].qty
    BY <1>0, <1>1 DEF Removing
  <2> QED BY <2>1, <2>2, <2>3, SumKept
<1>2. TotalRight(l)'
  <2> DEFINE old == Listed(l)
             new == old \ {x}
  <2>1. x \in old /\ head'[l].total = head[l].total - slot[x].qty
    BY <1>0 DEF Removing, Listed
  <2>2. \A i \in new : slot'[i].qty = slot[i].qty
    BY <1>0 DEF Removing, Listed
  <2>3. Listed(l)' = new
    BY <1>0, MarketFileConstants DEF Removing, Listed
  <2>4. Weighed(slot, old)
    BY ListedWeighs
  <2>5. Weighed(slot, new)
    BY <2>4, FS_Subset DEF Weighed
  <2>6. head[l].total = Qty(slot, old)
    BY DEF TotalsAgree
  <2>7. Qty(slot, old) = slot[x].qty + Qty(slot, new) /\ slot[x].qty \in Nat /\ Qty(slot, new) \in Nat
    <3> HIDE DEF old
    <3> QED BY <2>1, <2>4, QtyAdds
  <2> HIDE DEF old, new
  <2>8. Qty(slot', new) = Qty(slot, new)
    BY <2>2, <2>5, QtySame
  <2>9. head'[l].total = Qty(slot', new)
    BY <2>1, <2>6, <2>7, <2>8
  <2> QED BY <2>3, <2>9 DEF TotalRight
<1> QED BY <1>1, <1>2 DEF TotalsAgree, TotalRight

LEMMA SetQuantityCounts ==
  ASSUME FileSound, NEW l \in Level, NEW x \in Slots, NEW loss \in 1 .. MaxQty,
         MarketSetQuantity(l, x, loss), TotalsAgree
  PROVE  TotalsAgree'
<1>0. /\ entry[x] = l /\ slot[x].qty > loss /\ entry' = entry
      /\ head'[l].total = head[l].total - loss
      /\ \A m \in Level : m # l => head'[m] = head[m]
      /\ \A i \in Slots : slot'[i].qty = IF i = x THEN slot[i].qty - loss ELSE slot[i].qty
  BY SetQuantityDoes
<1>1. ASSUME NEW m \in Level, m # l PROVE TotalRight(m)'
  <2>1. TotalRight(m)
    BY DEF TotalsAgree, TotalRight
  <2>2. head'[m].total = head[m].total /\ \A i \in Slots : entry'[i] = m <=> entry[i] = m
    BY <1>0, <1>1
  <2>3. \A i \in Slots : entry[i] = m => slot'[i].qty = slot[i].qty
    BY <1>0, <1>1
  <2> QED BY <2>1, <2>2, <2>3, SumKept
<1>2. TotalRight(l)'
  <2> DEFINE all == Listed(l)
             rest == all \ {x}
  <2>1. x \in all
    BY <1>0 DEF Listed
  <2>2. \A i \in rest : slot'[i].qty = slot[i].qty
    BY <1>0 DEF Listed
  <2>3. Listed(l)' = all
    BY <1>0 DEF Listed
  <2>4. Weighed(slot, all) /\ slot[x].qty \in Nat /\ loss \in Nat /\ slot'[x].qty = slot[x].qty - loss
    BY <1>0, <2>1, ListedWeighs DEF Weighed
  <2>5. Weighed(slot, rest)
    BY <2>4, FS_Subset DEF Weighed
  <2>6. Weighed(slot', all)
    BY <1>0, <2>2, <2>4 DEF Weighed
  <2>7. head[l].total = Qty(slot, all)
    BY DEF TotalsAgree
  <2> HIDE DEF all
  <2>8. Qty(slot, all) = slot[x].qty + Qty(slot, rest) /\ Qty(slot, rest) \in Nat
    BY <2>1, <2>4, QtyAdds
  <2>9. Qty(slot', all) = slot'[x].qty + Qty(slot', rest)
    BY <2>1, <2>6, QtyAdds
  <2> HIDE DEF rest
  <2>10. Qty(slot', rest) = Qty(slot, rest)
    BY <2>2, <2>5, QtySame
  <2>11. head'[l].total = Qty(slot', all)
    BY <1>0, <2>4, <2>7, <2>8, <2>9, <2>10
  <2> QED BY <2>3, <2>11 DEF TotalRight
<1> QED BY <1>1, <1>2 DEF TotalsAgree, TotalRight

----------------------------------------------------------------------------
(* The file is complete.                                                   *)

Complete == FileSound /\ Chains /\ TotalsAgree

LEMMA InitComplete == Init => Complete
<1> SUFFICES ASSUME Init PROVE Complete
  OBVIOUS
<1>1. FileSound
  BY InitSound
<1>2. /\ num = 0 /\ listfree = -1 /\ \A i \in Slots : entry[i] = NoLevel
      /\ \A l \in Level : head[l].first = -1 /\ head[l].last = -1 /\ head[l].total = 0
  BY DEF Init
<1>3. <<>> \in Seq(Slots) /\ Len(<<>>) = 0
  OBVIOUS
<1>4. ASSUME NEW l \in Level PROVE Chain(<<>>, l)
  BY <1>2, <1>3, MarketFileConstants DEF Chain, Linked
<1>5. FreeChain(<<>>)
  <2>1. \A i \in Slots : i \notin Free
    BY <1>2, MarketFileConstants DEF Free, Slots
  <2> QED BY <1>2, <1>3, <2>1 DEF FreeChain, Linked
<1>6. Chains
  BY <1>3, <1>4, <1>5 DEF Chains
<1>7. TotalsAgree
  <2> SUFFICES ASSUME NEW l \in Level PROVE head[l].total = Qty(slot, Listed(l))
    BY DEF TotalsAgree
  <2>1. Listed(l) = {}
    BY <1>2, MarketFileConstants DEF Listed
  <2>2. Qty(slot, {}) = 0
    BY <1>1, <2>1, ListedWeighs, QtyFold
  <2> QED BY <1>2, <2>1, <2>2
<1> QED BY <1>1, <1>6, <1>7 DEF Complete

LEMMA StepCompletes == Complete /\ [Next]_vars => Complete'
<1> SUFFICES ASSUME Complete, [Next]_vars PROVE Complete'
  OBVIOUS
<1>0. /\ FileSound /\ TotalsAgree
      /\ \A l \in Level : \E c \in Seq(Slots) : Chain(c, l)
  BY DEF Complete, Chains
<1>f. PICK f \in Seq(Slots) : FreeChain(f)
  BY DEF Complete, Chains
<1>1. ASSUME NEW l \in Level, NEW u \in User, NEW q \in 1 .. MaxQty, MarketAdd(l, u, q)
      PROVE  Complete'
  <2>1. FileSound' /\ TotalsAgree'
    BY <1>0, <1>1, AddSound, AddCounts
  <2>2. ASSUME NEW m \in Level PROVE \E c \in Seq(Slots) : Chain(c, m)'
    <3>1. PICK c \in Seq(Slots) : Chain(c, m)
      BY <1>0
    <3>2. CASE m = l
      <4>1. PICK x : x = Handed
        OBVIOUS
      <4>2. PICK d : d = Append(c, x)
        OBVIOUS
      <4>3. d \in Seq(Slots) /\ Chain(d, l)'
        BY <1>0, <1>1, <3>1, <3>2, <4>1, <4>2, AddAppends
      <4> QED BY <3>2, <4>3
    <3>3. CASE m # l
      BY <1>0, <1>1, <3>1, <3>3, AddSpares
    <3> QED BY <3>2, <3>3
  <2>3. \E g \in Seq(Slots) : FreeChain(g)'
    BY <1>0, <1>1, <1>f, AddFrees
  <2> QED BY <2>1, <2>2, <2>3 DEF Complete, Chains
<1>2. ASSUME NEW l \in Level, NEW x \in Slots, MarketRemove(l, x)
      PROVE  Complete'
  <2>1. FileSound' /\ TotalsAgree'
    BY <1>0, <1>2, RemoveSound, RemoveCounts
  <2>2. ASSUME NEW m \in Level PROVE \E c \in Seq(Slots) : Chain(c, m)'
    <3>1. PICK c \in Seq(Slots) : Chain(c, m)
      BY <1>0
    <3>2. CASE m = l
      <4>1. PICK n \in 1 .. Len(c) : c[n] = x
        <5>1. entry[x] = l
          BY <1>0, <1>2, RemoveDoes DEF Removing
        <5> QED BY <3>1, <3>2, <5>1 DEF Chain
      <4>2. PICK d : d = Without(c, n)
        OBVIOUS
      <4>3. d \in Seq(Slots) /\ Chain(d, l)'
        BY <1>0, <1>2, <3>1, <3>2, <4>1, <4>2, RemoveCloses
      <4> QED BY <3>2, <4>3
    <3>3. CASE m # l
      BY <1>0, <1>2, <3>1, <3>3, RemoveSpares
    <3> QED BY <3>2, <3>3
  <2>3. \E g \in Seq(Slots) : FreeChain(g)'
    BY <1>0, <1>2, <1>f, RemoveFrees
  <2> QED BY <2>1, <2>2, <2>3 DEF Complete, Chains
<1>3. ASSUME NEW l \in Level, NEW x \in Slots, NEW loss \in 1 .. MaxQty,
             MarketSetQuantity(l, x, loss)
      PROVE  Complete'
  <2>1. FileSound' /\ TotalsAgree'
    BY <1>0, <1>3, SetQuantitySound, SetQuantityCounts
  <2>2. \A m \in Level : \E c \in Seq(Slots) : Chain(c, m)'
    BY <1>0, <1>3, SetQuantityKeeps
  <2>3. FreeChain(f)'
    BY <1>0, <1>3, <1>f, SetQuantityKeeps
  <2> QED BY <1>f, <2>1, <2>2, <2>3 DEF Complete, Chains
<1>4. CASE UNCHANGED vars
  BY <1>4 DEF vars, Complete, FileSound, TypeOK, LinksMutual, EndsSound, FreeSound, BidsLive, Free,
              Chains, Chain, FreeChain, TotalsAgree, Listed
<1> QED BY <1>1, <1>2, <1>3, <1>4 DEF Next

LEMMA AlwaysComplete == Spec => []Complete
BY InitComplete, StepCompletes, PTL DEF Spec

LEMMA CompletesFile == Complete => FileComplete
<1> SUFFICES ASSUME Complete PROVE FileComplete
  OBVIOUS
<1>1. ASSUME NEW c \in Seq(Slots), NEW start, Linked(c, slot, start)
      PROVE  Walk(slot, start) = c /\ IsInjective(c) /\ ToSet(c) = {c[k] : k \in 1 .. Len(c)}
  <2>1. DOMAIN c = 1 .. Len(c)
    OBVIOUS
  <2> QED BY <1>1, <2>1, WalkIs DEF Linked, IsInjective, ToSet
<1>2. ListsComplete
  <2> SUFFICES ASSUME NEW l \in Level
               PROVE  LET ids == Walk(slot, head[l].first)
                      IN  /\ ToSet(ids) = Listed(l)
                          /\ IsInjective(ids)
                          /\ \A k \in DOMAIN ids : slot[ids[k]].prev = IF k = 1 THEN -1 ELSE ids[k - 1]
                          /\ head[l].last = IF ids = <<>> THEN -1 ELSE Last(ids)
    BY DEF ListsComplete
  <2>1. PICK c \in Seq(Slots) : Chain(c, l)
    BY DEF Complete, Chains
  <2>2. /\ Walk(slot, head[l].first) = c /\ IsInjective(c)
        /\ ToSet(c) = {c[k] : k \in 1 .. Len(c)}
    BY <1>1, <2>1 DEF Chain
  <2>3. ToSet(c) = Listed(l)
    BY <2>1, <2>2 DEF Chain, Listed
  <2>4. \A k \in DOMAIN c : slot[c[k]].prev = IF k = 1 THEN -1 ELSE c[k - 1]
    BY <2>1 DEF Chain
  <2>5. head[l].last = IF c = <<>> THEN -1 ELSE Last(c)
    BY <2>1 DEF Chain, Last
  <2> QED BY <2>2, <2>3, <2>4, <2>5
<1>3. FreeListExact
  <2>1. PICK f \in Seq(Slots) : FreeChain(f)
    BY DEF Complete, Chains
  <2>2. /\ Walk(slot, listfree) = f /\ IsInjective(f)
        /\ ToSet(f) = {f[k] : k \in 1 .. Len(f)}
    BY <1>1, <2>1 DEF FreeChain
  <2>3. ToSet(f) = Free
    BY <2>1, <2>2 DEF FreeChain, Free
  <2> QED BY <2>2, <2>3 DEF FreeListExact
<1> QED BY <1>2, <1>3 DEF Complete, FileComplete

(* However bids come and go, the totals in the header are the sums of the  *)
(* bids, a walk over a level meets each of its bids once, and a walk over  *)
(* the free list each slot that is free: nothing is counted wrong, left    *)
(* out or leaked by db.c's dbMarketAdd, dbMarketRemove, dbMarketSetQuantity.*)
THEOREM FilesComplete == Spec => []FileComplete
BY AlwaysComplete, CompletesFile, PTL

----------------------------------------------------------------------------
(* The file implements the queues of BidBook.                              *)

\* The queue of the slots c of a file s.
Bids(c, s) == [k \in 1 .. Len(c) |-> [id |-> c[k], user |-> s[c[k]].user, qty |-> s[c[k]].qty]]

LEMMA QueueIs ==
  ASSUME NEW l \in Level, NEW c \in Seq(Slots), Chain(c, l)
  PROVE  Queue(l) = Bids(c, slot)
<1>1. Walk(slot, head[l].first) = c
  BY WalkIs DEF Chain
<1>2. DOMAIN c = 1 .. Len(c)
  OBVIOUS
<1> QED BY <1>1, <1>2 DEF Queue, Bids

LEMMA QueueNext ==
  ASSUME NEW l \in Level, NEW c \in Seq(Slots), Chain(c, l)'
  PROVE  Queue(l)' = Bids(c, slot')
<1>1. Walk(slot', head'[l].first) = c
  BY WalkIs DEF Chain
<1>2. DOMAIN c = 1 .. Len(c)
  OBVIOUS
<1> QED BY <1>1, <1>2 DEF Queue, Bids

LEMMA QueueKept ==
  ASSUME NEW m \in Level, NEW c \in Seq(Slots), Chain(c, m), Chain(c, m)',
         \A i \in Slots : entry[i] = m => slot'[i].user = slot[i].user /\ slot'[i].qty = slot[i].qty
  PROVE  Queue(m)' = Queue(m)
<1>1. \A k \in 1 .. Len(c) : c[k] \in Slots /\ entry[c[k]] = m
  BY DEF Chain
<1>2. Bids(c, slot') = Bids(c, slot)
  BY <1>1 DEF Bids
<1> QED BY <1>2, QueueIs, QueueNext

\* What the abstract queues are here.
Queues == [l \in Level |-> Queue(l)]

LEMMA PlaceStep ==
  ASSUME Complete, NEW l \in Level, NEW u \in User, NEW q \in 1 .. MaxQty, MarketAdd(l, u, q)
  PROVE  Book!Place(l, u, q)
<1>0. FileSound /\ \A m \in Level : \E c \in Seq(Slots) : Chain(c, m)
  BY DEF Complete, Chains
<1>1. Adding(l, u, q)
  BY <1>0, AddDoes
<1>2. PICK x : x = Handed
  OBVIOUS
<1>3. PICK c \in Seq(Slots) : Chain(c, l)
  BY <1>0
<1>4. PICK d : d = Append(c, x)
  OBVIOUS
<1>5. d \in Seq(Slots) /\ Chain(d, l)'
  BY <1>0, <1>2, <1>3, <1>4, AddAppends
<1>6. x \in Slots /\ entry[x] = NoLevel /\ slot'[x].user = u /\ slot'[x].qty = q
  BY <1>1, <1>2 DEF Adding
<1>7. \A k \in 1 .. Len(c) : /\ c[k] \in Slots /\ entry[c[k]] = l
                             /\ slot'[c[k]].user = slot[c[k]].user /\ slot'[c[k]].qty = slot[c[k]].qty
  <2>1. \A k \in 1 .. Len(c) : c[k] \in Slots /\ entry[c[k]] = l
    BY <1>3 DEF Chain
  <2> QED BY <1>1, <1>2, <1>6, <2>1, MarketFileConstants DEF Adding
<1>8. Queue(l)' = Append(Queue(l), [id |-> x, user |-> u, qty |-> q])
  <2> DEFINE b == [id |-> x, user |-> u, qty |-> q]
  <2>1. Queue(l) = Bids(c, slot) /\ Queue(l)' = Bids(d, slot')
    BY <1>3, <1>5, QueueIs, QueueNext
  <2>2. /\ Len(c) \in Nat /\ Len(d) = Len(c) + 1 /\ d[Len(c) + 1] = x
        /\ \A k \in 1 .. Len(c) : d[k] = c[k]
    BY <1>4, <1>6
  <2>3. /\ DOMAIN Bids(d, slot') = 1 .. Len(c) + 1
        /\ Bids(d, slot')[Len(c) + 1] = b
        /\ \A k \in 1 .. Len(c) : Bids(d, slot')[k] = Bids(c, slot)[k]
    BY <1>6, <1>7, <2>2 DEF Bids
  <2>4. Bids(d, slot') = [k \in 1 .. Len(c) + 1 |-> IF k = Len(c) + 1 THEN b ELSE Bids(c, slot)[k]]
    <3>1. Bids(d, slot') = [k \in 1 .. Len(c) + 1 |-> Bids(d, slot')[k]]
      BY <2>2 DEF Bids
    <3>2. \A k \in 1 .. Len(c) + 1 : k = Len(c) + 1 \/ k \in 1 .. Len(c)
      BY <2>2
    <3> QED BY <2>2, <2>3, <3>1, <3>2
  <2> HIDE DEF b
  <2>5. Append(Bids(c, slot), b) = [k \in 1 .. Len(c) + 1 |-> IF k = Len(c) + 1 THEN b ELSE Bids(c, slot)[k]]
    <3> DEFINE s == Bids(c, slot)
               T == {s[k] : k \in 1 .. Len(c)} \cup {b}
    <3>1. s = [k \in 1 .. Len(c) |-> s[k]] /\ \A k \in 1 .. Len(c) : s[k] \in T
      BY <2>2 DEF Bids
    <3>2. b \in T
      OBVIOUS
    <3> HIDE DEF s, T
    <3>3. s \in Seq(T) /\ Len(s) = Len(c)
      BY <2>2, <3>1
    <3>4. /\ Append(s, b) \in Seq(T) /\ Len(Append(s, b)) = Len(c) + 1
          /\ Append(s, b)[Len(c) + 1] = b
          /\ \A k \in 1 .. Len(c) : Append(s, b)[k] = s[k]
      BY <2>2, <3>2, <3>3
    <3>5. Append(s, b) = [k \in 1 .. Len(c) + 1 |-> Append(s, b)[k]]
      BY <3>4, LenProperties
    <3>6. \A k \in 1 .. Len(c) + 1 : k = Len(c) + 1 \/ k \in 1 .. Len(c)
      BY <2>2
    <3>7. \A k \in 1 .. Len(c) + 1 : Append(s, b)[k] = IF k = Len(c) + 1 THEN b ELSE s[k]
      BY <2>2, <3>4, <3>6
    <3>8. Append(s, b) = [k \in 1 .. Len(c) + 1 |-> IF k = Len(c) + 1 THEN b ELSE s[k]]
      BY <3>5, <3>7
    <3> QED BY <3>8 DEF s
  <2> QED BY <2>1, <2>4, <2>5 DEF b
<1>9. ASSUME NEW m \in Level, m # l PROVE Queue(m)' = Queue(m)
  <2>1. PICK e \in Seq(Slots) : Chain(e, m)
    BY <1>0
  <2>2. Chain(e, m)'
    BY <1>0, <1>9, <2>1, AddSpares
  <2>3. \A i \in Slots : entry[i] = m => slot'[i].user = slot[i].user /\ slot'[i].qty = slot[i].qty
    BY <1>1, MarketFileConstants DEF Adding
  <2> QED BY <2>1, <2>2, <2>3, QueueKept
<1>10. ASSUME NEW m \in Level PROVE \A k \in DOMAIN Queue(m) : Queue(m)[k].id # x
  <2>1. PICK e \in Seq(Slots) : Chain(e, m)
    BY <1>0
  <2>2. Queue(m) = Bids(e, slot)
    BY <2>1, QueueIs
  <2>3. \A k \in 1 .. Len(e) : entry[e[k]] = m
    BY <2>1 DEF Chain
  <2>4. \A k \in 1 .. Len(e) : e[k] # x
    BY <1>6, <2>3, MarketFileConstants
  <2> QED BY <2>2, <2>4 DEF Bids
<1>11. x \in Book!BidIds \ Book!UsedIds
  <2>1. x \in Book!BidIds
    BY <1>6 DEF Book!BidIds, Slots
  <2> QED BY <1>10, <2>1 DEF Book!UsedIds, Book!IdsAt
<1>12. Queues' = [Queues EXCEPT ![l] = Append(@, [id |-> x, user |-> u, qty |-> q])]
  BY <1>8, <1>9 DEF Queues
<1> QED BY <1>11, <1>12 DEF Book!Place, Queues

LEMMA WithdrawStep ==
  ASSUME Complete, NEW l \in Level, NEW x \in Slots, MarketRemove(l, x)
  PROVE  Book!Withdraw(l, x)
<1>0. FileSound /\ \A m \in Level : \E c \in Seq(Slots) : Chain(c, m)
  BY DEF Complete, Chains
<1>1. Removing(l, x)
  BY <1>0, RemoveDoes
<1>2. PICK c \in Seq(Slots) : Chain(c, l)
  BY <1>0
<1>3. PICK n \in 1 .. Len(c) : c[n] = x
  BY <1>1, <1>2 DEF Removing, Chain
<1>4. PICK d : d = Without(c, n)
  OBVIOUS
<1>5. d \in Seq(Slots) /\ Chain(d, l)'
  BY <1>0, <1>2, <1>3, <1>4, RemoveCloses
<1>6. Queue(l) = Bids(c, slot) /\ Queue(l)' = Bids(d, slot')
  BY <1>2, <1>5, QueueIs, QueueNext
<1> DEFINE s == Bids(c, slot)
           T == {s[k] : k \in 1 .. Len(c)}
           before == SubSeq(s, 1, n - 1)
           behind == SubSeq(s, n + 1, Len(s))
<1>7. /\ Len(c) \in Nat /\ n \in 1 .. Len(c)
      /\ \A j, k \in 1 .. Len(c) : c[j] = c[k] => j = k
  BY <1>2 DEF Chain, Linked
<1>8. s = [k \in 1 .. Len(c) |-> s[k]] /\ \A k \in 1 .. Len(c) : s[k] \in T
  BY <1>7 DEF Bids
<1>9. \A k \in 1 .. Len(c) : k # n =>
        [id |-> c[k], user |-> slot'[c[k]].user, qty |-> slot'[c[k]].qty] = s[k]
  <2> SUFFICES ASSUME NEW k \in 1 .. Len(c), k # n
               PROVE  slot'[c[k]].user = slot[c[k]].user /\ slot'[c[k]].qty = slot[c[k]].qty
    BY DEF Bids
  <2>1. c[k] \in Slots /\ c[k] # x
    BY <1>3, <1>7
  <2> QED BY <1>1, <2>1 DEF Removing
<1>10. DOMAIN s = 1 .. Len(c) /\ s[n].id = x
  BY <1>3, <1>7 DEF Bids
<1> HIDE DEF s, T
<1>11. s \in Seq(T) /\ Len(s) = Len(c)
  BY <1>7, <1>8
<1>12. /\ before \in Seq(T) /\ Len(before) = n - 1 /\ \A k \in 1 .. n - 1 : before[k] = s[k]
  BY <1>7, <1>11
<1>13. /\ behind \in Seq(T) /\ Len(behind) = Len(c) - n
       /\ \A k \in 1 .. Len(c) - n : behind[k] = s[n + k]
  BY <1>7, <1>11
<1> HIDE DEF before, behind
<1>14. /\ before \o behind \in Seq(T) /\ Len(before \o behind) = Len(c) - 1
       /\ \A k \in 1 .. n - 1 : (before \o behind)[k] = s[k]
       /\ \A k \in n .. Len(c) - 1 : (before \o behind)[k] = s[k + 1]
  <2>1. /\ before \o behind \in Seq(T) /\ Len(before \o behind) = (n - 1) + (Len(c) - n)
        /\ \A k \in 1 .. Len(c) - 1 : (before \o behind)[k] = IF k <= n - 1 THEN before[k] ELSE behind[k - (n - 1)]
    <3>1. /\ before \o behind \in Seq(T) /\ Len(before \o behind) = Len(before) + Len(behind)
          /\ \A k \in 1 .. Len(before) + Len(behind) :
               (before \o behind)[k] = IF k <= Len(before) THEN before[k] ELSE behind[k - Len(before)]
      BY <1>12, <1>13, ConcatProperties
    <3>2. (n - 1) + (Len(c) - n) = Len(c) - 1
      BY <1>7
    <3> QED BY <1>12, <1>13, <3>1, <3>2
  <2>2. ASSUME NEW k \in n .. Len(c) - 1 PROVE (before \o behind)[k] = s[k + 1]
    <3>1. k - (n - 1) \in 1 .. Len(c) - n /\ n + (k - (n - 1)) = k + 1 /\ k \in 1 .. Len(c) - 1 /\ ~(k <= n - 1)
      BY <1>7
    <3> QED BY <1>13, <2>1, <3>1
  <2>3. ASSUME NEW k \in 1 .. n - 1 PROVE (before \o behind)[k] = s[k]
    <3>1. k \in 1 .. Len(c) - 1 /\ k <= n - 1
      BY <1>7
    <3> QED BY <1>12, <2>1, <3>1
  <2> QED BY <1>7, <2>1, <2>2, <2>3
<1>15. before \o behind = [k \in 1 .. Len(c) - 1 |-> (before \o behind)[k]]
  BY <1>14, LenProperties
<1>16. Bids(d, slot') = [k \in 1 .. Len(c) - 1 |-> IF k < n THEN s[k] ELSE s[k + 1]]
  <2>1. Len(d) = Len(c) - 1 /\ \A k \in 1 .. Len(c) - 1 : d[k] = IF k < n THEN c[k] ELSE c[k + 1]
    BY <1>4, <1>5, <1>7 DEF Without
  <2>2. ASSUME NEW k \in 1 .. Len(c) - 1
        PROVE  [id |-> d[k], user |-> slot'[d[k]].user, qty |-> slot'[d[k]].qty] = IF k < n THEN s[k] ELSE s[k + 1]
    <3>1. k \in 1 .. Len(c) /\ k + 1 \in 1 .. Len(c)
      BY <1>7
    <3>2. CASE k < n
      BY <1>7, <1>9, <2>1, <3>1, <3>2
    <3>3. CASE ~(k < n)
      BY <1>7, <1>9, <2>1, <3>1, <3>3
    <3> QED BY <3>2, <3>3
  <2> QED BY <2>1, <2>2 DEF Bids
<1>17. \A k \in 1 .. Len(c) - 1 : (before \o behind)[k] = IF k < n THEN s[k] ELSE s[k + 1]
  BY <1>7, <1>14
<1>18. Queue(l)' = before \o behind
  BY <1>6, <1>15, <1>16, <1>17
<1>19. before \o behind = Book!RemoveAt(Queue(l), n)
  BY <1>6 DEF Book!RemoveAt, before, behind, s
<1>20. ASSUME NEW m \in Level, m # l PROVE Queue(m)' = Queue(m)
  <2>1. PICK e \in Seq(Slots) : Chain(e, m)
    BY <1>0
  <2>2. Chain(e, m)'
    BY <1>0, <1>20, <2>1, RemoveSpares
  <2>3. \A i \in Slots : entry[i] = m => slot'[i].user = slot[i].user /\ slot'[i].qty = slot[i].qty
    BY <1>1, <1>20 DEF Removing
  <2> QED BY <2>1, <2>2, <2>3, QueueKept
<1>21. Queues' = [Queues EXCEPT ![l] = Book!RemoveAt(Queue(l), n)]
  BY <1>18, <1>19, <1>20 DEF Queues
<1>22. n \in DOMAIN Queues[l] /\ Queues[l][n].id = x /\ Queues[l] = Queue(l)
  BY <1>6, <1>7, <1>10 DEF Queues, s
<1> QED BY <1>21, <1>22 DEF Book!Withdraw, Queues

LEMMA ShrinkStep ==
  ASSUME Complete, NEW l \in Level, NEW x \in Slots, NEW loss \in 1 .. MaxQty,
         MarketSetQuantity(l, x, loss)
  PROVE  Book!Shrink(l, x, loss)
<1>0. FileSound /\ \A m \in Level : \E c \in Seq(Slots) : Chain(c, m)
  BY DEF Complete, Chains
<1>1. /\ entry[x] = l /\ slot[x].qty > loss
      /\ \A i \in Slots : /\ slot'[i].user = slot[i].user
                          /\ slot'[i].qty = IF i = x THEN slot[i].qty - loss ELSE slot[i].qty
  BY <1>0, SetQuantityDoes
<1>2. PICK c \in Seq(Slots) : Chain(c, l)
  BY <1>0
<1>3. PICK n \in 1 .. Len(c) : c[n] = x
  BY <1>1, <1>2 DEF Chain
<1>4. Chain(c, l)'
  BY <1>0, <1>2, SetQuantityKeeps
<1>5. Queue(l) = Bids(c, slot) /\ Queue(l)' = Bids(c, slot')
  BY <1>2, <1>4, QueueIs, QueueNext
<1>6. /\ \A j, k \in 1 .. Len(c) : c[j] = c[k] => j = k
      /\ \A k \in 1 .. Len(c) : c[k] \in Slots
  BY <1>2 DEF Chain, Linked
<1>7. Bids(c, slot') = [Bids(c, slot) EXCEPT ![n].qty = @ - loss]
  <2>1. \A k \in 1 .. Len(c) : k # n => slot'[c[k]].qty = slot[c[k]].qty /\ slot'[c[k]].user = slot[c[k]].user
    BY <1>1, <1>3, <1>6
  <2>2. slot'[c[n]].qty = slot[c[n]].qty - loss /\ slot'[c[n]].user = slot[c[n]].user
    BY <1>1, <1>3
  <2> QED BY <2>1, <2>2 DEF Bids
<1>8. ASSUME NEW m \in Level, m # l PROVE Queue(m)' = Queue(m)
  <2>1. PICK e \in Seq(Slots) : Chain(e, m)
    BY <1>0
  <2>2. Chain(e, m)'
    BY <1>0, <2>1, SetQuantityKeeps
  <2>3. \A i \in Slots : entry[i] = m => slot'[i].user = slot[i].user /\ slot'[i].qty = slot[i].qty
    BY <1>1, <1>8
  <2> QED BY <2>1, <2>2, <2>3, QueueKept
<1>9. Queues' = [Queues EXCEPT ![l] = [Queue(l) EXCEPT ![n].qty = @ - loss]]
  BY <1>5, <1>7, <1>8 DEF Queues
<1>10. /\ n \in DOMAIN Queues[l] /\ Queues[l][n].id = x /\ Queues[l][n].qty > loss
       /\ Queues[l] = Queue(l)
  BY <1>1, <1>3, <1>5 DEF Queues, Bids
<1> QED BY <1>9, <1>10 DEF Book!Shrink, Queues

LEMMA InitBook == Init => Book!Init
<1> SUFFICES ASSUME Init PROVE Book!Init
  OBVIOUS
<1>1. ASSUME NEW l \in Level PROVE Queue(l) = <<>>
  <2>1. head[l].first = -1
    BY DEF Init
  <2>2. <<>> \in Seq(Slots) /\ Linked(<<>>, slot, head[l].first)
    BY <2>1 DEF Linked
  <2>3. Walk(slot, head[l].first) = <<>>
    BY <2>2, WalkIs
  <2> QED BY <2>3 DEF Queue
<1> QED BY <1>1 DEF Book!Init

LEMMA StepBook == Complete /\ [Next]_vars => [Book!Next]_Queues
<1> SUFFICES ASSUME Complete, [Next]_vars PROVE [Book!Next]_Queues
  OBVIOUS
<1>1. Slots = Book!BidIds
  BY DEF Slots, Book!BidIds
<1>2. ASSUME NEW l \in Level, NEW u \in User, NEW q \in 1 .. MaxQty, MarketAdd(l, u, q)
      PROVE  Book!Next
  BY <1>2, PlaceStep DEF Book!Next
<1>3. ASSUME NEW l \in Level, NEW x \in Slots, MarketRemove(l, x)
      PROVE  Book!Next
  BY <1>1, <1>3, WithdrawStep DEF Book!Next
<1>4. ASSUME NEW l \in Level, NEW x \in Slots, NEW loss \in 1 .. MaxQty,
             MarketSetQuantity(l, x, loss)
      PROVE  Book!Next
  BY <1>1, <1>4, ShrinkStep DEF Book!Next
<1>5. ASSUME UNCHANGED vars PROVE Queues' = Queues
  BY <1>5 DEF vars, Queues, Queue, Walk
<1> QED BY <1>2, <1>3, <1>4, <1>5 DEF Next

(* The linked lists that db.c threads through the market file are the      *)
(* queues that the rest of the game trades on: a bid is placed at the back *)
(* of its level under an id nobody has, and taking one out, or part of     *)
(* one, leaves the order of the others alone.                              *)
THEOREM FileImplementsBook == Spec => ImplementsBidBook
<1>1. Init => Book!Init
  BY InitBook
<1>2. Complete /\ [Next]_vars => [Book!Next]_Queues
  BY StepBook
<1>3. Queues = [l \in Level |-> Queue(l)]
  BY DEF Queues
<1> QED BY <1>1, <1>2, <1>3, AlwaysComplete, PTL DEF Spec, ImplementsBidBook, Book!Spec, Queues
=============================================================================
