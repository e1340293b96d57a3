---------------------------- MODULE MarketFile ----------------------------
(***************************************************************************)
(* The market file of db.c and the bid lists that point into it.           *)
(*                                                                         *)
(* "<base>/market" holds a header (how many slots exist, and the first     *)
(* free one), for every level the total quantity and the ends of a doubly  *)
(* linked list, and an array of slots.  A slot that is removed is pushed   *)
(* on a free list threaded through the slots' next fields, and a later     *)
(* insertion pops it, so ids are reused.  Nothing in the file says which   *)
(* level a slot belongs to: a caller names the level and the slot, and     *)
(* both come from the bid list of the player ("users/user%d/market"),      *)
(* which is where variable "entry" comes from.                             *)
(***************************************************************************)
EXTENDS Integers, Sequences, FiniteSets, FiniteSetsExt, SequencesExt

CONSTANTS
  Level,     \* one list per resource, action and price
  User,      \* owners of bids
  MaxQty,    \* bound on the quantity of one bid
  MaxBids,   \* bound on the slots the file may grow to
  NoLevel,   \* "no player's list names this slot"
  Nobody     \* the owner written into a free slot (-1 in the code)

ASSUME MarketFileConstants ==
  /\ MaxQty \in Nat
  /\ MaxBids \in Nat
  /\ NoLevel \notin Level
  /\ Nobody \notin User

VARIABLES
  num,       \* slots the file has grown to
  listfree,  \* first free slot, -1 when there is none
  head,      \* level -> total quantity, first and last slot
  slot,      \* slot -> prev, next, qty, user
  entry      \* slot -> the level its owner's bid list records for it

vars == <<num, listfree, head, slot, entry>>

Slots   == 0 .. MaxBids - 1
Link    == Slots \cup {-1}
LevelHead == [total: Int, first: Link, last: Link]
Slot    == [prev: Link, next: Link, qty: Int, user: User \cup {Nobody}]

\* What a slot is overwritten with when it is freed.
Vacant(next) == [prev |-> -1, next |-> next, qty |-> -1, user |-> Nobody]

\* dbInit writes an empty file where there is none, and a player's list starts empty.
Init ==
  /\ num = 0
  /\ listfree = -1
  /\ head = [l \in Level |-> [total |-> 0, first |-> -1, last |-> -1]]
  /\ slot = [i \in Slots |-> Vacant(-1)]
  /\ entry = [i \in Slots |-> NoLevel]

\* Mutant of MarketAdd: the slot goes in front of the level's first one.
MarketAddInFront(l, u, q) ==
  LET cur == IF listfree # -1 THEN listfree ELSE num
      top == head[l].first
  IN  /\ cur \in Slots
      /\ IF listfree # -1
           THEN listfree' = slot[listfree].next /\ UNCHANGED num
           ELSE num' = num + 1 /\ UNCHANGED listfree
      /\ head' = [head EXCEPT ![l] = [total |-> @.total + q, first |-> cur,
                                      last |-> IF top = -1 THEN cur ELSE @.last]]
      /\ slot' = [i \in Slots |->
                    IF i = cur THEN [prev |-> -1, next |-> top, qty |-> q, user |-> u]
                    ELSE IF i = top THEN [slot[i] EXCEPT !.prev = cur] ELSE slot[i]]
      /\ entry' = [entry EXCEPT ![cur] = l]

\* dbMarketAdd followed by dbUserMarketAdd: pop a free slot or grow the file,
\* link the slot behind the last one of the level, add to the level's total.
\* The guard on num is the bound MaxBids, not a condition of the code.
MarketAdd(l, u, q) ==
  LET cur  == IF listfree # -1 THEN listfree ELSE num
      tail == head[l].last
      new  == [prev |-> tail, next |-> -1, qty |-> q, user |-> u]
  IN  /\ cur \in Slots
      /\ IF listfree # -1
           THEN listfree' = slot[listfree].next /\ UNCHANGED num
           ELSE num' = num + 1 /\ UNCHANGED listfree
      /\ head' = [head EXCEPT ![l] =
                    [total |-> @.total + q,
                     first |-> IF @.first = -1 THEN cur ELSE @.first,
                     last  |-> cur]]
      /\ slot' = [i \in Slots |->
                    IF i = cur THEN new
                    ELSE IF head[l].first # -1 /\ i = tail
                           THEN [slot[i] EXCEPT !.next = cur]
                           ELSE slot[i]]
      /\ entry' = [entry EXCEPT ![cur] = l]

\* Mutant of UnlinkedHead: the level's last slot is not moved.
HeadKeepingTheEnd(l, cur) ==
  [head EXCEPT ![l].total = @ - slot[cur].qty,
               ![l].first = IF @ = cur THEN slot[cur].next ELSE @]

\* The levels once slot cur is out of the list of level l: the ends move when
\* they point at it.
UnlinkedHead(l, cur) ==
  [head EXCEPT ![l] = [total |-> @.total - slot[cur].qty,
                       first |-> IF @.first = cur THEN slot[cur].next ELSE @.first,
                       last  |-> IF @.last = cur THEN slot[cur].prev ELSE @.last]]


\* The slots once cur is out of its list and in front of the free list.
UnlinkedSlots(cur) ==
  LET old == slot[cur]
      Unlink(i) ==
        [prev |-> IF i = old.next THEN old.prev ELSE slot[i].prev,
         next |-> IF i = old.prev THEN old.next ELSE slot[i].next,
         qty  |-> slot[i].qty,
         user |-> slot[i].user]
  IN  [i \in Slots |-> IF i = cur THEN Vacant(listfree) ELSE Unlink(i)]

\* Mutant of MarketRemove: the slot does not become the first free one.
RemoveLeaking(l, cur) ==
  /\ entry[cur] = l
  /\ head' = UnlinkedHead(l, cur)
  /\ slot' = UnlinkedSlots(cur)
  /\ entry' = [entry EXCEPT ![cur] = NoLevel]
  /\ UNCHANGED <<num, listfree>>

\* dbMarketRemove together with dbUserMarketRemove, as every caller pairs
\* them: unlink the slot and push it on the free list.
MarketRemove(l, cur) ==
  /\ entry[cur] = l
  /\ head' = UnlinkedHead(l, cur)
  /\ slot' = UnlinkedSlots(cur)
  /\ listfree' = cur
  /\ entry' = [entry EXCEPT ![cur] = NoLevel]
  /\ UNCHANGED num


\* dbMarketSetQuantity together with dbUserMarketQuantity: the callers pass
\* what the bid keeps and what it loses, and both parts are positive.
MarketSetQuantity(l, cur, loss) ==
  /\ entry[cur] = l
  /\ slot[cur].qty > loss
  /\ head' = [head EXCEPT ![l].total = @ - loss]
  /\ slot' = [slot EXCEPT ![cur].qty = @ - loss]
  /\ UNCHANGED <<num, listfree, entry>>

Next ==
  \E l \in Level :
    \/ \E u \in User, q \in 1 .. MaxQty : MarketAdd(l, u, q)
    \/ \E cur \in Slots : MarketRemove(l, cur)
    \/ \E cur \in Slots, loss \in 1 .. MaxQty : MarketSetQuantity(l, cur, loss)

Spec == Init /\ [][Next]_vars

----------------------------------------------------------------------------
(* Reading the file.                                                       *)

\* dbMarketListStart and dbMarketListNext: the slots met in the file s from
\* "start" on, following "next" for at most as many steps as there are slots.
Walk(s, start) ==
  LET at[k \in 1 .. MaxBids] ==
        IF k = 1 THEN start
        ELSE LET cur == at[k - 1] IN IF cur = -1 THEN -1 ELSE s[cur].next
  IN  [k \in 1 .. Cardinality({j \in 1 .. MaxBids : at[j] # -1}) |-> at[k]]

Listed(l) == {i \in Slots : entry[i] = l}
Free      == {i \in Slots : i < num /\ entry[i] = NoLevel}

\* The queue a level stands for, read front to back.
Queue(l) ==
  LET ids == Walk(slot, head[l].first)
  IN  [k \in DOMAIN ids |->
         [id |-> ids[k], user |-> slot[ids[k]].user, qty |-> slot[ids[k]].qty]]

----------------------------------------------------------------------------
(* Properties.                                                             *)

TypeOK ==
  /\ num \in 0 .. MaxBids
  /\ listfree \in Link
  /\ head \in [Level -> LevelHead]
  /\ slot \in [Slots -> Slot]
  /\ entry \in [Slots -> Level \cup {NoLevel}]

\* What the slots S of the file s hold together.
Qty(s, S) == MapThenSumSet(LAMBDA i : s[i].qty, S)

\* The total written in a level's header, which the market page shows without
\* walking the list, is the sum of the quantities of the bids of that level
\* (dbMarketAdd, dbMarketRemove and dbMarketSetQuantity each keep it up).
TotalsAgree ==
  \A l \in Level :
    head[l].total = Qty(slot, Listed(l))

\* Read forwards from its first slot or backwards from its last, a level's
\* list holds each bid its owners' lists name at that level, once.
ListsComplete ==
  \A l \in Level :
    LET ids == Walk(slot, head[l].first)
    IN  /\ ToSet(ids) = Listed(l)
        /\ IsInjective(ids)
        /\ \A k \in DOMAIN ids :
             slot[ids[k]].prev = IF k = 1 THEN -1 ELSE ids[k - 1]
        /\ head[l].last = IF ids = <<>> THEN -1 ELSE Last(ids)

\* The free list holds every slot that was removed and not used again, once:
\* no slot leaks and dbMarketAdd never hands out one that is still in use.
FreeListExact ==
  LET ids == Walk(slot, listfree) IN ToSet(ids) = Free /\ IsInjective(ids)

\* The file is complete: nothing is counted wrong, left out or leaked.
FileComplete == TotalsAgree /\ ListsComplete /\ FreeListExact

\* The links of every bid agree with its neighbours' and with the ends of its
\* level: what dbMarketRemove relies on when it unlinks a slot knowing only
\* the slot and the level its owner's list names.
LinksMutual ==
  \A i \in Slots : entry[i] # NoLevel =>
    LET h == head[entry[i]]
        p == slot[i].prev
        n == slot[i].next
    IN  /\ IF p = -1 THEN h.first = i
                     ELSE entry[p] = entry[i] /\ slot[p].next = i
        /\ IF n = -1 THEN h.last = i
                     ELSE entry[n] = entry[i] /\ slot[n].prev = i

\* The first and the last slot of a level are bids of that level with nothing
\* before and nothing behind them, and both are there or neither is.
EndsSound ==
  \A l \in Level :
    LET h == head[l]
    IN  /\ (h.first = -1) <=> (h.last = -1)
        /\ h.first # -1 => entry[h.first] = l /\ slot[h.first].prev = -1
        /\ h.last # -1 => entry[h.last] = l /\ slot[h.last].next = -1

\* The free list never runs into a bid and never runs into itself: its first
\* slot follows none, and no slot follows two.
FreeSound ==
  /\ \A i \in Slots : entry[i] # NoLevel => i < num
  /\ listfree # -1 => listfree \in Free
  /\ \A i \in Free :
       slot[i].next # -1 => slot[i].next \in Free /\ slot[i].next # listfree
  /\ \A i, j \in Free :
       slot[i].next = slot[j].next /\ slot[i].next # -1 => i = j

\* Every bid has something left of it and an owner.
BidsLive ==
  \A i \in Slots : entry[i] # NoLevel =>
    slot[i].qty \in 1 .. MaxQty /\ slot[i].user \in User

\* The inductive invariant: no operation can corrupt the file.
FileSound == TypeOK /\ LinksMutual /\ EndsSound /\ FreeSound /\ BidsLive

\* The file implements the queues of BidBook: additions go to the back, a
\* removal anywhere leaves the order of the others alone.
Book == INSTANCE BidBook WITH book <- [l \in Level |-> Queue(l)]
ImplementsBidBook == Book!Spec
=============================================================================
