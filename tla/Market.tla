------------------------------ MODULE Market ------------------------------
(***************************************************************************)
(* Trading on the market: cmdExecAddBid and cmdExecRemoveBid, and all that *)
(* takes quantity out of a bid or a player out of the market behind their  *)
(* back (the decay of every tick, operations and spells of other players,  *)
(* a moderator, the deactivation of an account).                           *)
(*                                                                         *)
(* The market is kept twice, in the market file (variable "market") and in *)
(* the file of each owner (variable "list"), and what a bid buys with is   *)
(* taken out of the owner's resources when it is placed.  A bid's place in *)
(* the queue of its level is written here as the number of bids ahead of   *)
(* it; MarketFile.tla has the linked lists that keep that order.           *)
(*                                                                         *)
(* The daemon serves requests one at a time.  Placing a bid is a loop that *)
(* works on a copy of the owner's resources, read before the loop and      *)
(* written back behind it, so it is taken apart here into the steps Place, *)
(* Fill and Rest of a "request", and nothing else happens meanwhile.       *)
(***************************************************************************)
EXTENDS Integers, FiniteSets, FiniteSetsExt

CONSTANTS
  User,        \* players
  Resource,    \* what is traded
  Crystal,     \* the resource whose bids decay (CMD_RESSOURCE_CRYSTAL)
  Ectrolium,   \* the resource that a spell destroys (CMD_RESSOURCE_ECTROLIUM)
  Energy,      \* what it is paid with (CMD_RESSOURCE_ENERGY)
  MaxPrice,    \* DB_MARKET_RANGE - 1
  MaxWorth,    \* what the quantity of a bid is worth at most: 2000000000
  Start,       \* the resources of a new account: cmdUserMainDefault
  BuyDecay,    \* loss of a buying bid per tick, per mille: CMD_ENERGY_DECAY
  SellDecay,   \* loss of a crystal bid per tick, per mille: CMD_CRYSTAL_DECAY
  Percent,     \* shares that an operation or a spell may take
  MaxQty,      \* bound on the quantity of a bid
  MaxBids,     \* bound on the number of bids
  MaxTotal,    \* bound on all that the players own of a good
  NoRequest    \* the daemon is not inside cmdExecAddBid

Good  == Resource \cup {Energy}
Purse == [Good -> Nat]

ASSUME MarketConstants ==
  /\ Crystal \in Resource /\ Ectrolium \in Resource /\ Energy \notin Resource
  /\ MaxPrice \in Nat /\ MaxWorth \in Nat /\ MaxQty \in Nat /\ MaxBids \in Nat
  /\ Start \in Purse
  /\ BuyDecay \in 0 .. 1000 /\ SellDecay \in 0 .. 1000
  /\ Percent \subseteq 0 .. 100
  /\ MaxTotal \in Purse

VARIABLES
  market,     \* the bids in the market file
  list,       \* player -> the entries of the player's own bid list
  wallet,     \* player -> resources in the player's main file
  member,     \* players in an empire
  status,     \* ticks.status: time is running
  request     \* what cmdExecAddBid is at, or NoRequest

vars == <<market, list, wallet, member, status, request>>

Action == {"buy", "sell"}
Price  == 1 .. MaxPrice
BidId  == 0 .. MaxBids - 1
Entry  == [id: BidId, act: Action, res: Resource, price: Price, qty: 1 .. MaxQty]
Bid    == [id: BidId, user: User, act: Action, res: Resource, price: Price,
           qty: 1 .. MaxQty, pos: Nat]
Request == [user: User, act: Action, res: Resource, price: Price,
            left: 0 .. MaxQty, me: Purse]

\* The totals below are sums over the players.
ASSUME UsersFinite == IsFiniteSet(User)

ASSUME NoRequestIsNone == NoRequest \notin Request

Idle == request = NoRequest

----------------------------------------------------------------------------
(* The two copies of the market.                                           *)

SameLevel(b, c) == b.act = c.act /\ b.res = c.res /\ b.price = c.price


\* The bids S with the gaps closed that removed ones left in their queues.
Line(S) ==
  {[b EXCEPT !.pos = Cardinality({c \in S : SameLevel(b, c) /\ c.pos < b.pos})]
     : b \in S}

IdsOf(entries) == {e.id : e \in entries}

\* What an entry's owner gets back, or loses, with n of it.
Held(e, n) == IF e.act = "buy" THEN [good |-> Energy, amount |-> n * e.price]
                               ELSE [good |-> e.res, amount |-> n]

Plus(purse, good, n)  == [purse EXCEPT ![good] = @ + n]
Cut(purse, good, pct) == [purse EXCEPT ![good] = (@ * (100 - pct)) \div 100]

Ceil(n, d) == (n + d - 1) \div d

\* The loss of every bid of one kind, per mille; 0 where a kind is spared.
Loss == [Action \X Resource -> 0 .. 1000]
Remains(qty, perMille) == qty - Ceil(qty * perMille, 1000)
Left(b, loss) == Remains(b.qty, loss[b.act, b.res])

\* The loops that take a share out of the bids named by ids, the last unit of
\* a bid included: such a bid is removed.
Reduce(ids, loss) ==
  /\ market' = Line({b \in market : b.id \notin ids}
                    \cup {[b EXCEPT !.qty = Left(b, loss)]
                            : b \in {c \in market : c.id \in ids /\ Left(c, loss) > 0}})
  /\ list' = [u \in User |->
                {e \in list[u] : e.id \notin ids}
                \cup {[e EXCEPT !.qty = Left(e, loss)]
                        : e \in {d \in list[u] : d.id \in ids /\ Left(d, loss) > 0}}]

\* The loops that remove every bid in a player's list.
DropBids(u) ==
  /\ market' = Line({b \in market : b.id \notin IdsOf(list[u])})
  /\ list' = [list EXCEPT ![u] = {}]

----------------------------------------------------------------------------
Init ==
  /\ market = {}
  /\ list = [u \in User |-> {}]
  /\ wallet = [u \in User |-> Start]
  /\ member = User
  /\ status = TRUE
  /\ request = NoRequest

\* Mutant of Place: what the player has is not asked for.
PlaceUnfunded(u, act, r, p, q) ==
  LET stake == Held([act |-> act, res |-> r, price |-> p], q)
  IN  /\ Idle /\ status /\ u \in member
      /\ q * p <= MaxWorth
      /\ Cardinality(market) < MaxBids
      /\ request' = [user |-> u, act |-> act, res |-> r, price |-> p, left |-> q,
                     me |-> Plus(wallet[u], stake.good, -stake.amount)]
      /\ UNCHANGED <<market, list, wallet, member, status>>

\* cmdExecAddBid up to its loop: the checks, and the stake taken out of the
\* copy of the player's resources.  The file keeps the old ones for now.
\* The guard on the size of the market is the bound MaxBids.
Place(u, act, r, p, q) ==
  LET stake == Held([act |-> act, res |-> r, price |-> p], q)
  IN  /\ Idle /\ status /\ u \in member
      /\ q * p <= MaxWorth
      /\ wallet[u][stake.good] >= stake.amount
      /\ Cardinality(market) < MaxBids
      /\ request' = [user |-> u, act |-> act, res |-> r, price |-> p, left |-> q,
                     me |-> Plus(wallet[u], stake.good, -stake.amount)]
      /\ UNCHANGED <<market, list, wallet, member, status>>

\* Mutant of Matches: the walk stops before the level of the request's price.
MatchesStrictly == {b \in market : /\ b.res = request.res
                                   /\ b.act # request.act
                                   /\ IF request.act = "buy" THEN b.price < request.price
                                                             ELSE b.price > request.price}

\* The opposite bids whose price the request accepts.
Matches == {b \in market : /\ b.res = request.res
                           /\ b.act # request.act
                           /\ IF request.act = "buy" THEN b.price <= request.price
                                                     ELSE b.price >= request.price}

\* b is not met later than c by the walk over the levels and their queues.
AheadOf(b, c) ==
  \/ b.price = c.price /\ b.pos <= c.pos
  \/ IF request.act = "buy" THEN b.price < c.price ELSE b.price > c.price

\* Mutant of Goods: who sells gets the own price, not the buyer's.
GoodsAtMyPrice(b, n) ==
  IF request.act = "buy" THEN [good |-> request.res, amount |-> n]
                         ELSE [good |-> Energy, amount |-> n * request.price]

\* What n of bid b gives each side when it is traded at b's price.
Goods(b, n) == IF request.act = "buy" THEN [good |-> request.res, amount |-> n]
                                      ELSE [good |-> Energy, amount |-> n * b.price]
Pay(b, n)   == IF request.act = "buy" THEN [good |-> Energy, amount |-> n * b.price]
                                      ELSE [good |-> request.res, amount |-> n]

\* Mutant of Taken: the owner's list keeps the old quantity.
TakenFromFileOnly(b, n) ==
  IF n < b.qty
    THEN market' = (market \ {b}) \cup {[b EXCEPT !.qty = @ - n]} /\ UNCHANGED list
    ELSE /\ market' = Line(market \ {b})
         /\ list' = [list EXCEPT ![b.user] = {e \in @ : e.id # b.id}]

\* Bid b with n less, or without it, in both copies of the market.
Taken(b, n) ==
  IF n < b.qty
    THEN /\ market' = (market \ {b}) \cup {[b EXCEPT !.qty = @ - n]}
         /\ list' = [list EXCEPT ![b.user] =
                       {e \in @ : e.id # b.id}
                       \cup {[e EXCEPT !.qty = b.qty - n] : e \in {d \in @ : d.id = b.id}}]
    ELSE /\ market' = Line(market \ {b})
         /\ list' = [list EXCEPT ![b.user] = {e \in @ : e.id # b.id}]

\* The request takes n of bid b, which stays with less or goes.
Trades(b, n) ==
  LET goods == Goods(b, n)
      pay   == Pay(b, n)
      me    == Plus(request.me, goods.good, goods.amount)
      own   == b.user = request.user
  IN  /\ request' = [request EXCEPT
                       !.left = @ - n,
                       !.me = IF own THEN Plus(me, pay.good, pay.amount) ELSE me]
      /\ wallet' = IF own THEN wallet
                   ELSE [wallet EXCEPT ![b.user] = Plus(@, pay.good, pay.amount)]
      /\ Taken(b, n)
      /\ UNCHANGED <<member, status>>

\* One turn of the loop: trade with the first bid of the best level, at that
\* bid's price, for the smaller of the two quantities.
Fill ==
  /\ ~Idle /\ request.left > 0
  /\ \E b \in Matches :
       /\ \A c \in Matches : AheadOf(b, c)
       /\ Trades(b, IF request.left < b.qty THEN request.left ELSE b.qty)

\* dbUserMarketAdd and dbMarketAdd: what is left of the request, last in line.
AddRest(id) ==
  LET e == [id |-> id, act |-> request.act, res |-> request.res,
            price |-> request.price, qty |-> request.left]
      b == [id |-> id, user |-> request.user, act |-> request.act, res |-> request.res,
            price |-> request.price, qty |-> request.left,
            pos |-> Cardinality({c \in market : SameLevel(c, e)})]
  IN  /\ market' = market \cup {b}
      /\ list' = [list EXCEPT ![request.user] = @ \cup {e}]

\* cmdExecAddBid behind its loop: the copy is written back and what is left
\* is added to the market and to the player's list.
Rest ==
  /\ ~Idle /\ (request.left = 0 \/ Matches = {})
  /\ wallet' = [wallet EXCEPT ![request.user] = request.me]
  /\ \/ request.left = 0 /\ UNCHANGED <<market, list>>
     \/ request.left > 0 /\ \E id \in BidId \ IdsOf(market) : AddRest(id)
  /\ request' = NoRequest
  /\ UNCHANGED <<member, status>>

\* cmdExecRemoveBid: neither the clock nor the empire is asked for.
Withdraw(u) ==
  /\ Idle
  /\ \E e \in list[u] :
       LET back == Held(e, e.qty)
       IN  /\ wallet' = [wallet EXCEPT ![u] = Plus(@, back.good, back.amount)]
           /\ market' = Line({b \in market : b.id # e.id})
           /\ list' = [list EXCEPT ![u] = @ \ {e}]
  /\ UNCHANGED <<member, status, request>>

\* The end of cmdTick: every buying bid and every bid that sells crystal
\* loses a share, rounded up.
TickLoss == [k \in Action \X Resource |->
               IF k[1] = "buy" THEN BuyDecay
               ELSE IF k[2] = Crystal THEN SellDecay ELSE 0]
TickDecay ==
  /\ Idle /\ status
  /\ Reduce(IdsOf(market), TickLoss)
  /\ UNCHANGED <<wallet, member, status, request>>

----------------------------------------------------------------------------
\* What all players own of a good, in their reserves, in the request that is
\* being served and in their bids.
Amount(held, good) == IF held.good = good THEN held.amount ELSE 0
Sum(w, S)          == MapThenSumSet(LAMBDA x : w[x], S)
Stakes(S, good)    == Sum([b \in S |-> Amount(Held(b, b.qty), good)], S)
Reserves(P, good)  == Sum([u \in User |-> P[u][good]], User)

\* The resources of every player, the ones of the player who is being served
\* as the copy has them.
Purses == [u \in User |-> IF Idle \/ request.user # u THEN wallet[u] ELSE request.me]

Total(good) == Reserves(Purses, good) + Stakes(market, good)
               + (IF Idle THEN 0 ELSE Amount(Held(request, request.left), good))

----------------------------------------------------------------------------
(* Operations and spells against a player's reserves and bids.             *)

\* specopCalcMarketBids
InBids(u, good) == Stakes(list[u], good)

\* Mutant of BuyLoss: an operation leaves the bids as they were.
BuyLossForgotten(pct) == [k \in Action \X Resource |-> 0]

BuyLoss(pct) == [k \in Action \X Resource |-> IF k[1] = "buy" THEN 10 * pct ELSE 0]
EctroliumLoss(pct) ==
  [k \in Action \X Resource |-> IF k = <<"sell", Ectrolium>> THEN 10 * pct ELSE 0]

\* Energy Transfer and Steal Resources.  Both count the victim's reserves of
\* the good and what the victim's bids hold of it, and both shrink the bids
\* that hold energy.  The thief gets a random share, at least 30 percent.  The
\* range of gain and the last guard are the bound MaxTotal.
Theft(thief, victim, good, pct) ==
  LET taken == (pct * (wallet[victim][good] + InBids(victim, good))) \div 100
  IN  /\ Idle /\ status /\ thief # victim /\ thief \in member /\ victim \in member
      /\ Reduce(IdsOf(list[victim]), BuyLoss(pct))
      /\ \E gain \in 0 .. MaxTotal[good] :
           /\ (30 * taken) \div 100 <= gain /\ gain <= taken
           /\ wallet' = [wallet EXCEPT ![victim] = Cut(@, good, pct),
                                       ![thief] = Plus(@, good, gain)]
      /\ UNCHANGED <<member, status, request>>
      /\ Total(good)' <= MaxTotal[good]

\* The spell Irradiate Ectrolium.
Irradiate(victim, pct) ==
  /\ Idle /\ status /\ victim \in member
  /\ Reduce(IdsOf(list[victim]), EctroliumLoss(pct))
  /\ wallet' = [wallet EXCEPT ![victim] = Cut(@, Ectrolium, pct)]
  /\ UNCHANGED <<member, status, request>>

----------------------------------------------------------------------------
(* Players coming and going, moderators, the clock.                        *)

\* cmdExecUserDeactivate: the bids go, the account starts again.  The guard
\* on Total is the bound MaxTotal.
Deactivate(u) ==
  /\ Idle
  /\ \A g \in Good : Total(g) + Start[g] <= MaxTotal[g]
  /\ DropBids(u)
  /\ wallet' = [wallet EXCEPT ![u] = Start]
  /\ member' = member \ {u}
  /\ UNCHANGED <<status, request>>

\* cmdExecNewUserEmpire
Join(u) ==
  /\ Idle /\ u \notin member
  /\ member' = member \cup {u}
  /\ UNCHANGED <<market, list, wallet, status, request>>

\* The moderator's "Clear bids": nothing is given back.
ClearBids(u) ==
  /\ Idle
  /\ DropBids(u)
  /\ UNCHANGED <<wallet, member, status, request>>

\* The administrator's "Freeze Time Flow" and "Resume Time Flow".
ToggleTime ==
  /\ Idle
  /\ status' = ~status
  /\ UNCHANGED <<market, list, wallet, member, request>>

----------------------------------------------------------------------------
Trade ==
  \/ \E u \in User, act \in Action, r \in Resource, p \in Price, q \in 1 .. MaxQty :
       Place(u, act, r, p, q)
  \/ Fill
  \/ Rest
  \/ \E u \in User : Withdraw(u)

Attack ==
  \/ \E thief, victim \in User, good \in Good, pct \in Percent :
       Theft(thief, victim, good, pct)
  \/ \E victim \in User, pct \in Percent : Irradiate(victim, pct)

Upkeep ==
  \/ TickDecay
  \/ ToggleTime
  \/ \E u \in User : Join(u) \/ ClearBids(u)

Next == Trade \/ Attack \/ Upkeep \/ \E u \in User : Deactivate(u)

Spec == Init /\ [][Next]_vars

----------------------------------------------------------------------------
(* Properties.                                                             *)

\* Nobody's resources are ever negative, and no bid is ever empty.
TypeOK ==
  /\ market \in SUBSET Bid /\ IsFiniteSet(market)
  /\ list \in [User -> SUBSET Entry]
  /\ wallet \in [User -> Purse]
  /\ member \in SUBSET User
  /\ status \in BOOLEAN
  /\ request \in Request \cup {NoRequest}

\* The market is never crossed: nobody waits with a bid that another waiting
\* bid would accept.  cmdExecAddBid walks every level up to the bid's price
\* before it adds what is left, and nothing else raises a bid.
NeverCrossed ==
  \A b, s \in market :
    b.act = "buy" /\ s.act = "sell" /\ b.res = s.res => b.price < s.price

\* The market file and the lists of the owners name the same bids with the
\* same quantities, also halfway through a request: what one player may
\* withdraw is what the others may buy (dbMarket* and dbUserMarket* calls).
ListsMirrorMarket ==
  \A u \in User :
    list[u] = {[id |-> b.id, act |-> b.act, res |-> b.res, price |-> b.price,
                qty |-> b.qty] : b \in {c \in market : c.user = u}}

\* No two bids have an id in common, and the bids of a level stand in line.
InLine ==
  \A b, c \in market : b # c =>
    /\ b.id # c.id
    /\ SameLevel(b, c) => b.pos # c.pos
    /\ b.pos < Cardinality({d \in market : SameLevel(b, d)})

\* The book as the pages read it: the owners' lists, the levels and their lines.
BookSound == ListsMirrorMarket /\ InLine

\* Trading moves goods and loses none of them; energy is only ever lost, by a
\* buyer who bid above the price at which the seller had offered.
TradeConserves ==
  [][Trade => /\ \A r \in Resource : Total(r)' = Total(r)
              /\ Total(Energy)' <= Total(Energy)
              /\ Total(Energy)' < Total(Energy) => request.act = "buy"]_vars

\* Energy only comes with new accounts (and from planets, which are not part
\* of this module): no order of trades, thefts, decay and moderation makes it.
EnergyNeverMade ==
  [][(\A u \in User : ~Deactivate(u)) => Total(Energy)' <= Total(Energy)]_vars
=============================================================================
