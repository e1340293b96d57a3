------------------------------ MODULE BidBook ------------------------------
(***************************************************************************)
(* What the market's storage promises to the rest of the game: at every    *)
(* level (an action, a resource and a price) a queue of bids in the order  *)
(* in which they were placed, each known by an id that no other bid in the *)
(* market has.  MarketFile.tla, the linked lists that db.c keeps in one    *)
(* file, is shown to implement this; Market.tla trades on top of it.       *)
(***************************************************************************)
EXTENDS Naturals, Sequences, SequencesExt

CONSTANTS
  Level,     \* one queue per action, resource and price
  User,      \* the players who place bids
  MaxQty,    \* bound on the quantity of a bid
  MaxBids    \* bound on the number of bids in the market

VARIABLE book   \* [Level -> sequence of bids, oldest first]

BidIds == 0 .. MaxBids - 1
Bid    == [id: BidIds, user: User, qty: 1 .. MaxQty]

IdsAt(l) == {book[l][k].id : k \in DOMAIN book[l]}
UsedIds  == UNION {IdsAt(l) : l \in Level}

Init == book = [l \in Level |-> <<>>]

\* A new bid goes to the back of its level under an id nobody uses.
Place(l, u, q) ==
  \E id \in BidIds \ UsedIds :
    book' = [book EXCEPT ![l] = Append(@, [id |-> id, user |-> u, qty |-> q])]

\* A bid leaves its level; the others keep their order.
Withdraw(l, id) ==
  LET queue == book[l]
  IN  \E k \in DOMAIN queue :
        /\ queue[k].id = id
        /\ book' = [book EXCEPT ![l] = RemoveAt(queue, k)]

\* A bid loses part of its quantity and keeps its place.
Shrink(l, id, loss) ==
  LET queue == book[l]
  IN  \E k \in DOMAIN queue :
        /\ queue[k].id = id /\ queue[k].qty > loss
        /\ book' = [book EXCEPT ![l] = [queue EXCEPT ![k].qty = @ - loss]]

Next ==
  \E l \in Level :
    \/ \E u \in User, q \in 1 .. MaxQty : Place(l, u, q)
    \/ \E id \in BidIds :
         \/ Withdraw(l, id)
         \/ \E loss \in 1 .. MaxQty : Shrink(l, id, loss)

Spec == Init /\ [][Next]_book
=============================================================================
