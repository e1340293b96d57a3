---------------------------- MODULE MarketProofs ----------------------------
(* Proofs about Market, for any players, prices, resources and shares: no    *)
(* balance is ever negative and no bid is ever empty, the market is never    *)
(* crossed (both from the invariant Sound), the market file and the owners'  *)
(* lists agree (Book), trading loses no resource, and energy is never made.  *)
(* The last two compare sums over the players and the bids before and after  *)
(* each operation.                                                           *)
EXTENDS Market, FiniteSetTheorems, WellFoundedInduction, TLAPS

(* x offers what b offers, if perhaps less of it or elsewhere in the queue.  *)
Offers(x, b) == x.act = b.act /\ x.res = b.res /\ x.price = b.price

(* The inductive invariant: the type invariant says that stakes fit, and     *)
(* NeverCrossed needs no more than the types of prices.                      *)
Sound == TypeOK /\ NeverCrossed

-----------------------------------------------------------------------------
LEMMA ImageFinite ==
  ASSUME NEW S, IsFiniteSet(S), NEW f
  PROVE  IsFiniteSet({f[x] : x \in S})
<1> DEFINE T == {f[x] : x \in S}
           g == [x \in S |-> f[x]]
<1>1. g \in Surjection(S, T)
  BY DEF Surjection
<1> QED BY <1>1, FS_Surjection

(* Closing the gaps in the queues renumbers bids and changes nothing else.   *)
LEMMA LineSound ==
  ASSUME NEW S \in SUBSET Bid, IsFiniteSet(S)
  PROVE  /\ Line(S) \in SUBSET Bid /\ IsFiniteSet(Line(S))
         /\ \A x \in Line(S) : \E b \in S : Offers(x, b)
<1> DEFINE before(b) == Cardinality({c \in S : SameLevel(b, c) /\ c.pos < b.pos})
           f == [b \in S |-> [b EXCEPT !.pos = before(b)]]
<1>1. \A b \in S : before(b) \in Nat
  <2> TAKE b \in S
  <2>1. IsFiniteSet({c \in S : SameLevel(b, c) /\ c.pos < b.pos})
    BY FS_Subset
  <2> QED BY <2>1, FS_CardinalityType
<1>2. Line(S) = {f[b] : b \in S}
  BY DEF Line
<1>3. \A b \in S : f[b] \in Bid /\ Offers(f[b], b)
  BY <1>1 DEF Bid, Offers
<1>4. IsFiniteSet({f[b] : b \in S})
  <2> HIDE DEF f
  <2> QED BY ImageFinite
<1> QED BY <1>2, <1>3, <1>4

(* A share of a bid leaves an integer no larger than the bid.                *)
LEMMA LeftBounded ==
  ASSUME NEW q \in 1 .. MaxQty, NEW l \in 0 .. 1000
  PROVE  Remains(q, l) \in Int /\ Remains(q, l) <= MaxQty
<1>1. q * l \in Nat
  BY MarketConstants
<1>2. \A k \in Nat : (k + 1000 - 1) \div 1000 \in Nat
  OBVIOUS
<1> QED BY <1>1, <1>2, MarketConstants DEF Remains, Ceil

(* A market whose bids all offer what bids of the old one did is no more     *)
(* crossed than the old one.                                                 *)
LEMMA StaysUncrossed ==
  ASSUME NeverCrossed, \A x \in market' : \E b \in market : Offers(x, b)
  PROVE  NeverCrossed'
BY DEF NeverCrossed, Offers

(* The bids with a share taken out of those named by ids, gaps and all.      *)
LessOf(ids, loss) ==
  {b \in market : b.id \notin ids}
  \cup {[b EXCEPT !.qty = Left(b, loss)] : b \in {c \in market : c.id \in ids /\ Left(c, loss) > 0}}

LEMMA ReduceSound ==
  ASSUME TypeOK, NEW ids, NEW loss \in Loss, Reduce(ids, loss)
  PROVE  /\ LessOf(ids, loss) \in SUBSET Bid /\ IsFiniteSet(LessOf(ids, loss))
         /\ market' \in SUBSET Bid /\ IsFiniteSet(market')
         /\ list' \in [User -> SUBSET Entry]
         /\ \A x \in market' : \E b \in market : Offers(x, b)
<1> DEFINE kept == {b \in market : b.id \notin ids}
           hit == {c \in market : c.id \in ids /\ Left(c, loss) > 0}
           f == [b \in hit |-> [b EXCEPT !.qty = Left(b, loss)]]
           S == kept \cup {f[b] : b \in hit}
<1>1. \A q \in 1 .. MaxQty, k \in Action \X Resource :
         Remains(q, loss[k]) \in Int /\ Remains(q, loss[k]) <= MaxQty
  <2> TAKE q \in 1 .. MaxQty, k \in Action \X Resource
  <2> DEFINE l == loss[k]
  <2>1. l \in 0 .. 1000
    BY DEF Loss
  <2> HIDE DEF l
  <2>2. Remains(q, l) \in Int /\ Remains(q, l) <= MaxQty
    BY <2>1, LeftBounded, ZenonT(60)
  <2> QED BY <2>2 DEF l
<1>2. \A b \in Bid : Left(b, loss) \in Int /\ Left(b, loss) <= MaxQty
  <2> TAKE b \in Bid
  <2>1. b.qty \in 1 .. MaxQty /\ <<b.act, b.res>> \in Action \X Resource
    BY DEF Bid
  <2> QED BY <1>1, <2>1 DEF Left
<1>3. \A e \in Entry : Left(e, loss) \in Int /\ Left(e, loss) <= MaxQty
  <2> TAKE e \in Entry
  <2>1. e.qty \in 1 .. MaxQty /\ <<e.act, e.res>> \in Action \X Resource
    BY DEF Entry
  <2> QED BY <1>1, <2>1 DEF Left
<1>4. IsFiniteSet(S)
  <2>1. IsFiniteSet(kept) /\ IsFiniteSet(hit)
    BY FS_Subset DEF TypeOK
  <2>2. IsFiniteSet({f[b] : b \in hit})
    <3> HIDE DEF f
    <3> QED BY <2>1, ImageFinite
  <2> HIDE DEF f, kept, hit
  <2> QED BY <2>1, <2>2, FS_Union
<1>5. \A b \in hit : f[b] \in Bid /\ Offers(f[b], b)
  BY <1>2, MarketConstants DEF TypeOK, Bid, Offers
<1>6. S \in SUBSET Bid /\ \A x \in S : \E b \in market : Offers(x, b)
  <2>1. \A b \in kept : b \in Bid /\ b \in market /\ Offers(b, b)
    BY DEF TypeOK, Offers
  <2>2. hit \subseteq market
    OBVIOUS
  <2> HIDE DEF f, kept, hit
  <2> QED BY <1>5, <2>1, <2>2
<1>7. S = LessOf(ids, loss) /\ market' = Line(S)
  BY DEF Reduce, LessOf
<1>8. list' \in [User -> SUBSET Entry]
  <2>1. \A u \in User : \A e \in list[u] :
           e \in Entry /\ (Left(e, loss) > 0 => [e EXCEPT !.qty = Left(e, loss)] \in Entry)
    BY <1>3, MarketConstants DEF TypeOK, Entry
  <2> QED BY <2>1 DEF Reduce
<1>9. \A x \in Line(S) : \E b \in market : Offers(x, b)
  <2> HIDE DEF S
  <2>1. \A x \in Line(S) : \E y \in S : Offers(x, y)
    BY <1>4, <1>6, LineSound
  <2> QED BY <1>6, <2>1 DEF Offers
<1> HIDE DEF S
<1> QED BY <1>4, <1>6, <1>7, <1>8, <1>9, LineSound

LEMMA DropSound ==
  ASSUME TypeOK, NEW u \in User, DropBids(u)
  PROVE  /\ market' \in SUBSET Bid /\ IsFiniteSet(market')
         /\ list' \in [User -> SUBSET Entry]
         /\ \A x \in market' : \E b \in market : Offers(x, b)
<1> DEFINE S == {b \in market : b.id \notin IdsOf(list[u])}
<1>1. S \in SUBSET Bid /\ IsFiniteSet(S)
  BY FS_Subset DEF TypeOK
<1> QED BY <1>1, LineSound DEF DropBids, TypeOK
-----------------------------------------------------------------------------
LEMMA InitSound == Init => Sound
<1> SUFFICES ASSUME Init PROVE Sound
  OBVIOUS
<1>1. TypeOK
  BY FS_EmptySet, MarketConstants DEF Init, TypeOK
<1> QED BY <1>1 DEF Init, Sound, NeverCrossed

(* The stake of a bid is a natural number of some good.                      *)
LEMMA HeldType ==
  ASSUME NEW e, e.act \in Action, e.res \in Resource, e.price \in Price, NEW n \in Nat
  PROVE  /\ Held(e, n).good \in Good /\ Held(e, n).amount \in Nat
         /\ n * e.price \in Nat
<1>1. e.price \in Nat
  BY MarketConstants DEF Price
<1>2. n * e.price \in Nat
  BY <1>1
<1> QED BY <1>2 DEF Held, Good

LEMMA PlusType ==
  ASSUME NEW purse \in Purse, NEW good \in Good, NEW n \in Int, purse[good] + n >= 0
  PROVE  Plus(purse, good, n) \in Purse
BY DEF Plus, Purse

(* Placing a bid takes a stake that the copy of the resources covers.        *)
LEMMA PlaceSound ==
  ASSUME Sound, NEW u \in User, NEW act \in Action, NEW r \in Resource,
         NEW p \in Price, NEW q \in 1 .. MaxQty, Place(u, act, r, p, q)
  PROVE  Sound' /\ request' \in Request
<1> DEFINE level == [act |-> act, res |-> r, price |-> p]
           stake == Held(level, q)
<1>1. stake.good \in Good /\ stake.amount \in Nat
  <2>1. q \in Nat /\ level.act \in Action /\ level.res \in Resource /\ level.price \in Price
    BY MarketConstants
  <2> HIDE DEF level
  <2> QED BY <2>1, HeldType
<1>2. wallet[u] \in Purse
  BY DEF Sound, TypeOK
<1>3. wallet[u][stake.good] \in Nat
  BY <1>1, <1>2 DEF Purse
<1>4. wallet[u][stake.good] + (-stake.amount) >= 0
  BY <1>1, <1>3 DEF Place
<1>5. Plus(wallet[u], stake.good, -stake.amount) \in Purse
  <2> HIDE DEF stake
  <2> QED BY <1>1, <1>2, <1>4, PlusType
<1>6. request' \in Request
  BY <1>5, MarketConstants DEF Place, Request
<1>7. UNCHANGED <<market, list, wallet, member, status>>
  BY DEF Place
<1> QED BY <1>6, <1>7 DEF Sound, TypeOK, NeverCrossed

(* Trading with a bid pays two non-negative amounts and leaves less of it.   *)
LEMMA TradesSound ==
  ASSUME Sound, ~Idle, NEW b \in Matches, NEW n \in 1 .. b.qty, n <= request.left,
         Trades(b, n)
  PROVE  Sound' /\ request' \in Request
<1>1. request \in Request /\ request.me \in Purse
  BY DEF Sound, TypeOK, Idle, Request
<1>2. b \in Bid /\ b \in market
  BY DEF Matches, Sound, TypeOK
<1>3. n \in Nat /\ b.qty \in 1 .. MaxQty /\ b.act \in Action /\ b.price \in Price
         /\ b.res \in Resource /\ b.user \in User
  BY <1>2, MarketConstants DEF Bid
<1>4. n * b.price \in Nat
  BY <1>3, HeldType
<1>5. /\ Goods(b, n).good \in Good /\ Goods(b, n).amount \in Nat
      /\ Pay(b, n).good \in Good /\ Pay(b, n).amount \in Nat
  BY <1>1, <1>3, <1>4 DEF Goods, Pay, Good, Request
<1>6. \A purse \in Purse : /\ Plus(purse, Goods(b, n).good, Goods(b, n).amount) \in Purse
                           /\ Plus(purse, Pay(b, n).good, Pay(b, n).amount) \in Purse
  <2> DEFINE g == Goods(b, n)
             y == Pay(b, n)
  <2> HIDE DEF g, y
  <2>1. g.good \in Good /\ g.amount \in Nat /\ y.good \in Good /\ y.amount \in Nat
    BY <1>5 DEF g, y
  <2>2. \A purse \in Purse : Plus(purse, g.good, g.amount) \in Purse
    BY <2>1 DEF Plus, Purse
  <2>3. \A purse \in Purse : Plus(purse, y.good, y.amount) \in Purse
    BY <2>1 DEF Plus, Purse
  <2> QED BY <2>2, <2>3 DEF g, y
<1>7. request' \in Request
  <2>1. request.left - n \in 0 .. MaxQty
    BY <1>1, <1>3, MarketConstants DEF Request
  <2>2. request'.me \in Purse
    BY <1>1, <1>6 DEF Trades, Request
  <2> QED BY <1>1, <2>1, <2>2 DEF Trades, Request
<1>8. wallet' \in [User -> Purse]
  BY <1>3, <1>6 DEF Trades, Sound, TypeOK
<1>9. /\ market' \in SUBSET Bid /\ IsFiniteSet(market')
      /\ list' \in [User -> SUBSET Entry]
      /\ \A x \in market' : \E c \in market : Offers(x, c)
  <2>1. IsFiniteSet(market \ {b}) /\ market \ {b} \in SUBSET Bid
    BY FS_RemoveElement DEF Sound, TypeOK
  <2>2. CASE n < b.qty
    <3>1. [b EXCEPT !.qty = @ - n] \in Bid
      BY <1>2, <1>3, <2>2, MarketConstants DEF Bid
    <3>2. market' \in SUBSET Bid /\ IsFiniteSet(market')
      <4> DEFINE less == [b EXCEPT !.qty = @ - n]
      <4>1. market' = (market \ {b}) \cup {less}
        BY <2>2 DEF Trades, Taken
      <4> HIDE DEF less
      <4>2. less \in Bid
        BY <3>1 DEF less
      <4> QED BY <2>1, <4>1, <4>2, FS_AddElement
    <3>3. \A x \in market' : \E c \in market : Offers(x, c)
      BY <1>2, <2>2 DEF Trades, Taken, Offers, Bid
    <3>4. b.qty - n \in 1 .. MaxQty
      BY <1>3, <2>2, MarketConstants
    <3>5. \A e \in list[b.user] : e \in Entry /\ [e EXCEPT !.qty = b.qty - n] \in Entry
      BY <1>3, <3>4 DEF Sound, TypeOK, Entry
    <3>6. list' \in [User -> SUBSET Entry]
      BY <1>3, <2>2, <3>5 DEF Trades, Taken, Sound, TypeOK
    <3> QED BY <3>2, <3>3, <3>6
  <2>3. CASE ~(n < b.qty)
    <3>1. market' = Line(market \ {b}) /\ list' \in [User -> SUBSET Entry]
      BY <1>3, <2>3 DEF Trades, Taken, Sound, TypeOK
    <3> QED BY <2>1, <3>1, LineSound
  <2> QED BY <2>2, <2>3
<1>10. NeverCrossed'
  BY <1>9, StaysUncrossed DEF Sound
<1> QED BY <1>7, <1>8, <1>9, <1>10 DEF Trades, Sound, TypeOK

LEMMA FillSound ==
  ASSUME Sound, Fill
  PROVE  Sound'
<1>1. PICK b \in Matches :
        Trades(b, IF request.left < b.qty THEN request.left ELSE b.qty)
  BY DEF Fill
<1>2. request.left \in Nat /\ request.left > 0 /\ b.qty \in Nat /\ b.qty > 0
  BY MarketConstants DEF Fill, Idle, Sound, TypeOK, Request, Matches, Bid
<1> DEFINE n == IF request.left < b.qty THEN request.left ELSE b.qty
<1>3. n \in 1 .. b.qty /\ n <= request.left /\ Trades(b, n)
  BY <1>1, <1>2
<1> HIDE DEF n
<1> QED BY <1>3, TradesSound DEF Fill

(* What is left of a request finds no opposite bid that accepts it.          *)
LEMMA RestSound ==
  ASSUME Sound, Rest
  PROVE  Sound'
<1>1. /\ request \in Request /\ request.me \in Purse /\ request.user \in User
      /\ request.left \in 0 .. MaxQty /\ request.price \in Price
      /\ request.act \in Action /\ request.res \in Resource
  BY DEF Sound, TypeOK, Rest, Idle, Request
<1>2. wallet' \in [User -> Purse] /\ request' = NoRequest /\ UNCHANGED <<member, status>>
  BY <1>1 DEF Rest, Sound, TypeOK
<1>3. CASE request.left = 0
  BY <1>2, <1>3 DEF Rest, Sound, TypeOK, NeverCrossed
<1>4. CASE request.left # 0
  <2>1. PICK id \in BidId : AddRest(id)
    BY <1>4 DEF Rest
  <2> DEFINE e == [id |-> id, act |-> request.act, res |-> request.res,
                   price |-> request.price, qty |-> request.left]
             ahead == Cardinality({c \in market : SameLevel(c, e)})
             b == [id |-> id, user |-> request.user, act |-> request.act,
                   res |-> request.res, price |-> request.price,
                   qty |-> request.left, pos |-> ahead]
  <2>2. ahead \in Nat
    <3>1. IsFiniteSet({c \in market : SameLevel(c, e)})
      BY FS_Subset DEF Sound, TypeOK
    <3> QED BY <3>1, FS_CardinalityType
  <2>3. market' = market \cup {b} /\ list' = [list EXCEPT ![request.user] = @ \cup {e}]
    BY <2>1 DEF AddRest
  <2>4. request.left \in 1 .. MaxQty
    BY <1>1, <1>4, MarketConstants
  <2> HIDE DEF ahead
  <2>5. b \in Bid /\ e \in Entry
    BY <1>1, <2>2, <2>4 DEF Bid, Entry
  <2>6. b.act = request.act /\ b.res = request.res /\ b.price = request.price
    OBVIOUS
  <2>7. list' \in [User -> SUBSET Entry]
    BY <1>1, <2>3, <2>5 DEF Sound, TypeOK
  <2> HIDE DEF b, e
  <2>8. market' \in SUBSET Bid /\ IsFiniteSet(market')
    BY <2>3, <2>5, FS_AddElement DEF Sound, TypeOK
  <2>9. Matches = {}
    BY <1>4 DEF Rest
  <2>10. \A c \in market :
           /\ b.act = "buy" /\ c.act = "sell" /\ b.res = c.res => b.price < c.price
           /\ b.act = "sell" /\ c.act = "buy" /\ b.res = c.res => c.price < b.price
    <3> TAKE c \in market
    <3>1. c.price \in Int /\ request.price \in Int
      BY <1>1, MarketConstants DEF Sound, TypeOK, Bid, Price
    <3>2. c \notin Matches
      BY <2>9
    <3> QED BY <2>6, <3>1, <3>2 DEF Matches
  <2>11. NeverCrossed'
    BY <2>3, <2>10 DEF Sound, NeverCrossed
  <2> QED BY <1>2, <2>7, <2>8, <2>11 DEF Sound, TypeOK
<1> QED BY <1>3, <1>4

LEMMA WithdrawSound ==
  ASSUME Sound, NEW u \in User, Withdraw(u)
  PROVE  Sound'
<1>1. PICK e \in list[u] :
        LET back == Held(e, e.qty)
        IN  /\ wallet' = [wallet EXCEPT ![u] = Plus(@, back.good, back.amount)]
            /\ market' = Line({b \in market : b.id # e.id})
            /\ list' = [list EXCEPT ![u] = @ \ {e}]
  BY DEF Withdraw
<1>2. e \in Entry /\ e.qty \in Nat
  BY MarketConstants DEF Sound, TypeOK, Entry
<1> DEFINE back == Held(e, e.qty)
           S == {b \in market : b.id # e.id}
<1>3. back.good \in Good /\ back.amount \in Nat
  BY <1>2, HeldType DEF Entry
<1>4. wallet' = [wallet EXCEPT ![u] = Plus(@, back.good, back.amount)] /\ market' = Line(S)
  BY <1>1
<1>5. S \in SUBSET Bid /\ IsFiniteSet(S) /\ S \subseteq market
  BY FS_Subset DEF Sound, TypeOK
<1>6. list' \in [User -> SUBSET Entry]
  BY <1>1 DEF Sound, TypeOK
<1> HIDE DEF back, S
<1>7. wallet' \in [User -> Purse]
  BY <1>3, <1>4 DEF Sound, TypeOK, Plus, Purse
<1>8. /\ market' \in SUBSET Bid /\ IsFiniteSet(market')
      /\ \A x \in market' : \E c \in market : Offers(x, c)
  BY <1>4, <1>5, LineSound
<1> QED BY <1>6, <1>7, <1>8, StaysUncrossed DEF Withdraw, Sound, TypeOK
(* Whatever only shrinks or drops bids and leaves sound resources is sound.  *)
LEMMA UpkeepSound ==
  ASSUME Sound,
         market' \in SUBSET Bid, IsFiniteSet(market'), list' \in [User -> SUBSET Entry],
         \A x \in market' : \E c \in market : Offers(x, c),
         wallet' \in [User -> Purse], member' \in SUBSET User, status' \in BOOLEAN,
         UNCHANGED request
  PROVE  Sound'
BY StaysUncrossed DEF Sound, TypeOK

LEMMA TickDecaySound ==
  ASSUME Sound, TickDecay
  PROVE  Sound'
<1>1. TickLoss \in Loss
  BY MarketConstants DEF TickLoss, Loss
<1>2. Reduce(IdsOf(market), TickLoss)
  BY DEF TickDecay
<1> QED BY <1>1, <1>2, ReduceSound, UpkeepSound DEF TickDecay, Sound, TypeOK

(* The shares in per mille that operations take out of bids.                 *)
LEMMA LossType ==
  ASSUME NEW pct \in Percent
  PROVE  pct \in 0 .. 100 /\ BuyLoss(pct) \in Loss /\ EctroliumLoss(pct) \in Loss
<1>1. pct \in 0 .. 100 /\ 10 * pct \in 0 .. 1000
  BY MarketConstants
<1> QED BY <1>1 DEF BuyLoss, EctroliumLoss, Loss

(* What an operation leaves of the victim's reserves is not negative.        *)
LEMMA CutType ==
  ASSUME NEW purse \in Purse, NEW good \in Good, NEW pct \in 0 .. 100
  PROVE  Cut(purse, good, pct) \in Purse
<1>1. \A n, k \in Nat : (n * k) \div 100 \in Nat
  <2> TAKE n, k \in Nat
  <2>1. n * k \in Nat
    OBVIOUS
  <2>2. \A m \in Nat : m \div 100 \in Nat
    OBVIOUS
  <2> QED BY <2>1, <2>2
<1>2. 100 - pct \in Nat /\ purse[good] \in Nat
  BY DEF Purse
<1>3. (purse[good] * (100 - pct)) \div 100 \in Nat
  BY <1>1, <1>2
<1> QED BY <1>3 DEF Cut, Purse

LEMMA TheftSound ==
  ASSUME Sound, NEW thief \in User, NEW victim \in User, NEW good \in Good,
         NEW pct \in Percent, Theft(thief, victim, good, pct)
  PROVE  Sound'
<1>1. /\ Reduce(IdsOf(list[victim]), BuyLoss(pct))
      /\ UNCHANGED <<member, status, request>> /\ thief # victim
  BY DEF Theft
<1>2. PICK gain \in 0 .. MaxTotal[good] :
        wallet' = [wallet EXCEPT ![victim] = Cut(@, good, pct),
                                 ![thief] = Plus(@, good, gain)]
  BY DEF Theft
<1>3. gain \in Nat /\ wallet[victim] \in Purse /\ wallet[thief] \in Purse
  BY MarketConstants DEF Purse, Sound, TypeOK
<1>4. Cut(wallet[victim], good, pct) \in Purse /\ Plus(wallet[thief], good, gain) \in Purse
  <2>1. Cut(wallet[victim], good, pct) \in Purse
    BY <1>3, LossType, CutType
  <2>2. Plus(wallet[thief], good, gain) \in Purse
    BY <1>3 DEF Plus, Purse
  <2> QED BY <2>1, <2>2
<1>5. wallet' \in [User -> Purse]
  BY <1>1, <1>2, <1>4 DEF Sound, TypeOK
<1> QED BY <1>1, <1>5, LossType, ReduceSound, UpkeepSound DEF Sound, TypeOK

LEMMA IrradiateSound ==
  ASSUME Sound, NEW victim \in User, NEW pct \in Percent, Irradiate(victim, pct)
  PROVE  Sound'
<1>1. /\ Reduce(IdsOf(list[victim]), EctroliumLoss(pct))
      /\ UNCHANGED <<member, status, request>>
      /\ wallet' = [wallet EXCEPT ![victim] = Cut(@, Ectrolium, pct)]
  BY DEF Irradiate
<1>2. Ectrolium \in Good /\ wallet[victim] \in Purse
  BY MarketConstants DEF Good, Sound, TypeOK
<1>3. Cut(wallet[victim], Ectrolium, pct) \in Purse
  BY <1>2, LossType, CutType
<1>4. wallet' \in [User -> Purse]
  BY <1>1, <1>3 DEF Sound, TypeOK
<1> QED BY <1>1, <1>4, LossType, ReduceSound, UpkeepSound DEF Sound, TypeOK

LEMMA NextSound == Sound /\ [Next]_vars => Sound'
<1> SUFFICES ASSUME Sound, [Next]_vars PROVE Sound'
  OBVIOUS
<1>1. CASE UNCHANGED vars
  BY <1>1 DEF vars, Sound, TypeOK, NeverCrossed
<1>2. ASSUME NEW u \in User, NEW act \in Action, NEW r \in Resource, NEW p \in Price,
             NEW q \in 1 .. MaxQty, Place(u, act, r, p, q)
      PROVE  Sound'
  BY <1>2, PlaceSound
<1>3. CASE Fill
  BY <1>3, FillSound
<1>4. CASE Rest
  BY <1>4, RestSound
<1>5. ASSUME NEW u \in User, Withdraw(u) PROVE Sound'
  BY <1>5, WithdrawSound
<1>6. ASSUME NEW thief \in User, NEW victim \in User, NEW good \in Good,
             NEW pct \in Percent, Theft(thief, victim, good, pct)
      PROVE  Sound'
  BY <1>6, TheftSound
<1>7. ASSUME NEW victim \in User, NEW pct \in Percent, Irradiate(victim, pct)
      PROVE  Sound'
  BY <1>7, IrradiateSound
<1>8. CASE TickDecay
  BY <1>8, TickDecaySound
<1>9. CASE ToggleTime
  BY <1>9 DEF ToggleTime, Sound, TypeOK, NeverCrossed
<1>10. ASSUME NEW u \in User, Join(u) PROVE Sound'
  BY <1>10 DEF Join, Sound, TypeOK, NeverCrossed
<1>11. ASSUME NEW u \in User, ClearBids(u) PROVE Sound'
  <2>1. DropBids(u) /\ UNCHANGED <<wallet, member, status, request>>
    BY <1>11 DEF ClearBids
  <2> QED BY <2>1, DropSound, UpkeepSound DEF Sound, TypeOK
<1>12. ASSUME NEW u \in User, Deactivate(u) PROVE Sound'
  <2>1. /\ DropBids(u) /\ UNCHANGED <<status, request>>
        /\ wallet' = [wallet EXCEPT ![u] = Start] /\ member' = member \ {u}
    BY <1>12 DEF Deactivate
  <2>2. wallet' \in [User -> Purse] /\ member' \in SUBSET User
    BY <2>1, MarketConstants DEF Sound, TypeOK
  <2> QED BY <2>1, <2>2, DropSound, UpkeepSound DEF Sound, TypeOK
<1>13. CASE Trade
  BY <1>2, <1>3, <1>4, <1>5, <1>13 DEF Trade
<1>14. CASE Attack
  BY <1>6, <1>7, <1>14 DEF Attack
<1>15. CASE Upkeep
  BY <1>8, <1>9, <1>10, <1>11, <1>15 DEF Upkeep
<1> QED BY <1>1, <1>12, <1>13, <1>14, <1>15 DEF Next

-----------------------------------------------------------------------------
LEMMA AlwaysSound == Spec => []Sound
BY InitSound, NextSound, PTL DEF Spec

(* Every balance stays a natural number and every bid keeps at least one     *)
(* unit, whatever trades, thefts, decay and moderation come in what order.   *)
THEOREM BalancesHold == Spec => []TypeOK
<1>1. Sound => TypeOK
  BY DEF Sound
<1> QED BY <1>1, AlwaysSound, PTL

(* cmdExecAddBid never leaves two bids in the market that accept each other, *)
(* for any number of players, prices and resources.                          *)
THEOREM MarketNeverCrossed == Spec => []NeverCrossed
<1>1. Sound => NeverCrossed
  BY DEF Sound
<1> QED BY <1>1, AlwaysSound, PTL

-----------------------------------------------------------------------------
(* The book.                                                                 *)

EntryOf(b) == [id |-> b.id, act |-> b.act, res |-> b.res, price |-> b.price, qty |-> b.qty]

(* The lists L of the owners name the bids S.                                *)
Mirrors(L, S) == \A u \in User : L[u] = {EntryOf(b) : b \in {c \in S : c.user = u}}

InOrder(S) == \A b, c \in S : b # c => b.id # c.id /\ (SameLevel(b, c) => b.pos # c.pos)
Level(S, b) == {d \in S : SameLevel(b, d)}
Inside(S) == \A b \in S : b.pos < Cardinality(Level(S, b))

(* x is b with another quantity or at another place.                         *)
Is(x, b) == x.id = b.id /\ x.user = b.user /\ Offers(x, b)

Book == Sound /\ Mirrors(list, market) /\ InOrder(market) /\ Inside(market)

LEMMA BookIsSound == Book => BookSound
<1> SUFFICES ASSUME Book PROVE BookSound
  OBVIOUS
<1>1. ListsMirrorMarket
  BY DEF Book, Mirrors, EntryOf, ListsMirrorMarket
<1>2. InLine
  BY DEF Book, InOrder, Inside, Level, InLine
<1> QED BY <1>1, <1>2 DEF BookSound

LEMMA LevelFinite ==
  ASSUME NEW S, IsFiniteSet(S), NEW b
  PROVE  IsFiniteSet(Level(S, b)) /\ Cardinality(Level(S, b)) \in Nat
<1>1. Level(S, b) \subseteq S
  BY DEF Level
<1> QED BY <1>1, FS_Subset, FS_CardinalityType

LEMMA FewerWithout ==
  ASSUME NEW S, IsFiniteSet(S), NEW T, T \subseteq S, NEW x \in S, x \notin T
  PROVE  Cardinality(T) < Cardinality(S)
<1>1. T \in SUBSET S /\ S # T
  OBVIOUS
<1>2. Cardinality(T) \in Nat /\ Cardinality(S) \in Nat
  BY <1>1, FS_Subset, FS_CardinalityType
<1>3. Cardinality(T) <= Cardinality(S) /\ Cardinality(S) # Cardinality(T)
  BY <1>1, FS_Subset
<1> QED BY <1>2, <1>3

(* A level keeps its length where its bids are replaced one for one.         *)
LEMMA LevelsKept ==
  ASSUME NEW S, IsFiniteSet(S), NEW f, DOMAIN f = S,
         \A b \in S : Is(f[b], b),
         InOrder(S), NEW b \in S
  PROVE  Cardinality(Level({f[c] : c \in S}, f[b])) = Cardinality(Level(S, b))
<1> DEFINE A == Level(S, b)
           B == Level({f[c] : c \in S}, f[b])
           g == [c \in A |-> f[c]]
<1>1. \A c \in S : SameLevel(f[b], f[c]) <=> SameLevel(b, c)
  BY DEF Is, Offers, SameLevel
<1>2. g \in [A -> B]
  BY <1>1 DEF Level
<1>3. \A c, d \in A : g[c] = g[d] => c = d
  <2> SUFFICES ASSUME NEW c \in A, NEW d \in A, g[c] = g[d], c # d PROVE FALSE
    OBVIOUS
  <2>1. c \in S /\ d \in S /\ f[c] = f[d]
    BY DEF Level
  <2>2. c.id = d.id
    BY <2>1 DEF Is
  <2> QED BY <2>1, <2>2 DEF InOrder
<1>4. \A y \in B : \E c \in A : g[c] = y
  BY <1>1 DEF Level
<1>5. g \in Bijection(A, B)
  BY <1>2, <1>3, <1>4 DEF Bijection, Injection, Surjection, IsInjective
<1>6. IsFiniteSet(A)
  BY LevelFinite
<1> HIDE DEF A, B, g
<1>7. Cardinality(A) = Cardinality(B)
  BY <1>5, <1>6, FS_Bijection DEF ExistsBijection
<1> QED BY <1>7 DEF A, B

(* Closing the gaps puts the bids of every level in line.                    *)
LEMMA LineBook ==
  ASSUME NEW S \in SUBSET Bid, IsFiniteSet(S), InOrder(S)
  PROVE  /\ InOrder(Line(S)) /\ Inside(Line(S))
         /\ \A x \in Line(S) : \E b \in S : Is(x, b) /\ x.qty = b.qty
         /\ \A b \in S : \E x \in Line(S) : Is(x, b) /\ x.qty = b.qty
<1> DEFINE before(b) == {c \in S : SameLevel(b, c) /\ c.pos < b.pos}
           f == [b \in S |-> [b EXCEPT !.pos = Cardinality(before(b))]]
<1>1. \A b \in S : IsFiniteSet(before(b)) /\ Cardinality(before(b)) \in Nat
  BY FS_Subset, FS_CardinalityType
<1>2. Line(S) = {f[b] : b \in S}
  BY DEF Line
<1>3. \A b \in S : /\ f[b].pos = Cardinality(before(b)) /\ Is(f[b], b) /\ f[b].qty = b.qty
  BY DEF Bid, Is, Offers
<1>4. ASSUME NEW b \in S, NEW c \in S, SameLevel(b, c), b.pos < c.pos
      PROVE  Cardinality(before(b)) < Cardinality(before(c))
  <2>1. \A d \in before(b) : d \in before(c)
    <3> TAKE d \in before(b)
    <3>1. d.pos \in Nat /\ b.pos \in Nat /\ c.pos \in Nat
      BY DEF Bid
    <3> QED BY <1>4, <3>1 DEF SameLevel
  <2>2. b \in before(c) /\ b \notin before(b)
    BY <1>4 DEF SameLevel, Bid
  <2>3. before(b) \subseteq before(c)
    BY <2>1
  <2> HIDE DEF before
  <2> QED BY <1>1, <2>2, <2>3, FewerWithout
<1>5. ASSUME NEW b \in S
      PROVE  Cardinality(before(b)) < Cardinality(Level(S, b))
  <2>1. before(b) \subseteq Level(S, b)
    BY DEF Level
  <2>2. b \in Level(S, b) /\ b \notin before(b)
    BY DEF SameLevel, Level, Bid
  <2>3. IsFiniteSet(Level(S, b))
    BY LevelFinite
  <2> HIDE DEF before
  <2> QED BY <2>1, <2>2, <2>3, FewerWithout
<1> HIDE DEF before
<1>6. DOMAIN f = S
  OBVIOUS
<1> HIDE DEF f
<1>7. InOrder(Line(S))
  <2> SUFFICES ASSUME NEW b \in S, NEW c \in S, f[b] # f[c]
               PROVE  f[b].id # f[c].id /\ (SameLevel(f[b], f[c]) => f[b].pos # f[c].pos)
    BY <1>2 DEF InOrder
  <2>1. b # c
    OBVIOUS
  <2>2. f[b].id # f[c].id
    BY <1>3, <2>1 DEF Is, InOrder
  <2>3. ASSUME SameLevel(f[b], f[c]) PROVE f[b].pos # f[c].pos
    <3>1. SameLevel(b, c) /\ SameLevel(c, b)
      BY <1>3, <2>3 DEF Is, Offers, SameLevel
    <3>2. b.pos # c.pos /\ b.pos \in Nat /\ c.pos \in Nat
      BY <2>1, <3>1 DEF InOrder, Bid
    <3>3. b.pos < c.pos \/ c.pos < b.pos
      BY <3>2
    <3> QED BY <1>1, <1>3, <1>4, <3>1, <3>3
  <2> QED BY <2>2, <2>3
<1>8. Inside(Line(S))
  <2> SUFFICES ASSUME NEW b \in S
               PROVE  f[b].pos < Cardinality(Level({f[c] : c \in S}, f[b]))
    BY <1>2 DEF Inside
  <2>1. Cardinality(Level({f[c] : c \in S}, f[b])) = Cardinality(Level(S, b))
    BY <1>3, <1>6, LevelsKept
  <2> QED BY <1>3, <1>5, <2>1
<1> QED BY <1>2, <1>3, <1>7, <1>8

(* Bids that stand for one another are the same entry of an owner's list.    *)
LEMMA MirrorsSame ==
  ASSUME NEW L, NEW S, NEW T, Mirrors(L, S),
         \A x \in T : \E b \in S : Is(x, b) /\ x.qty = b.qty,
         \A b \in S : \E x \in T : Is(x, b) /\ x.qty = b.qty
  PROVE  Mirrors(L, T)
<1> SUFFICES ASSUME NEW u \in User
             PROVE  L[u] = {EntryOf(b) : b \in {c \in T : c.user = u}}
  BY DEF Mirrors
<1>1. L[u] = {EntryOf(b) : b \in {c \in S : c.user = u}}
  BY DEF Mirrors
<1>2. \A x, b : Is(x, b) /\ x.qty = b.qty => EntryOf(x) = EntryOf(b) /\ x.user = b.user
  BY DEF Is, Offers, EntryOf
<1> QED BY <1>1, <1>2

Booked == Mirrors(list, market) /\ InOrder(market) /\ Inside(market)

LEMMA LinesBooked ==
  ASSUME NEW S \in SUBSET Bid, IsFiniteSet(S), InOrder(S), Mirrors(list', S), market' = Line(S)
  PROVE  Booked'
<1>1. InOrder(market') /\ Inside(market')
  BY LineBook
<1>2. Mirrors(list', market')
  BY LineBook, MirrorsSame
<1>3. Mirrors(list, market)' /\ InOrder(market)' /\ Inside(market)'
  BY <1>1, <1>2 DEF Mirrors, InOrder, Inside, Level
<1> QED BY <1>3 DEF Booked

(* An entry stands for exactly one bid of its owner.                         *)
LEMMA EntriesMatch ==
  ASSUME Book, NEW u \in User
  PROVE  /\ \A e \in list[u] : \E b \in market : b.user = u /\ e = EntryOf(b)
         /\ \A b \in market : b.user = u => EntryOf(b) \in list[u]
         /\ \A b, c \in market : b.id = c.id => b = c
         /\ \A b \in market : b.user \in User /\ EntryOf(b).id = b.id
<1>1. list[u] = {EntryOf(b) : b \in {c \in market : c.user = u}}
  BY DEF Book, Mirrors
<1>2. \A b \in market : b.user \in User /\ EntryOf(b).id = b.id
  BY DEF Book, Sound, TypeOK, Bid, EntryOf
<1> QED BY <1>1, <1>2 DEF Book, InOrder

(* Bids removed from the market and from their owners' lists by their ids.   *)
LEMMA RemovedBooked ==
  ASSUME Book, NEW ids, market' = Line({b \in market : b.id \notin ids}),
         \A u \in User : list'[u] = {e \in list[u] : e.id \notin ids}
  PROVE  Booked'
<1> DEFINE S == {b \in market : b.id \notin ids}
<1>1. S \in SUBSET Bid /\ IsFiniteSet(S)
  BY FS_Subset DEF Book, Sound, TypeOK
<1>2. InOrder(S)
  BY DEF Book, InOrder
<1>3. Mirrors(list', S)
  <2> SUFFICES ASSUME NEW u \in User
               PROVE  list'[u] = {EntryOf(b) : b \in {c \in S : c.user = u}}
    BY DEF Mirrors
  <2> QED BY EntriesMatch
<1> HIDE DEF S
<1> QED BY <1>1, <1>2, <1>3, LinesBooked DEF S

LEMMA DropBooked ==
  ASSUME Book, NEW u \in User, DropBids(u)
  PROVE  Booked'
<1>1. market' = Line({b \in market : b.id \notin IdsOf(list[u])})
  BY DEF DropBids
<1>2. \A v \in User : list'[v] = {e \in list[v] : e.id \notin IdsOf(list[u])}
  <2> TAKE v \in User
  <2>1. CASE v = u
    BY <2>1 DEF DropBids, Book, Sound, TypeOK, IdsOf
  <2>2. CASE v # u
    <3>1. \A e \in list[v], d \in list[u] : e.id # d.id
      <4> TAKE e \in list[v], d \in list[u]
      <4>1. PICK b \in market : b.user = v /\ e = EntryOf(b)
        BY EntriesMatch
      <4>2. PICK c \in market : c.user = u /\ d = EntryOf(c)
        BY EntriesMatch
      <4> QED BY <2>2, <4>1, <4>2, EntriesMatch
    <3>2. list'[v] = list[v]
      BY <2>2 DEF DropBids, Book, Sound, TypeOK
    <3> QED BY <3>1, <3>2 DEF IdsOf
  <2> QED BY <2>1, <2>2
<1> QED BY <1>1, <1>2, RemovedBooked

LEMMA WithdrawBooked ==
  ASSUME Book, NEW u \in User, Withdraw(u)
  PROVE  Booked'
<1>1. PICK e \in list[u] : /\ market' = Line({b \in market : b.id # e.id})
                           /\ list' = [list EXCEPT ![u] = @ \ {e}]
  BY DEF Withdraw
<1>2. \A v \in User : list'[v] = {d \in list[v] : d.id \notin {e.id}}
  <2> TAKE v \in User
  <2>1. PICK b \in market : b.user = u /\ e = EntryOf(b)
    BY EntriesMatch
  <2>2. \A d \in list[v] : d.id = e.id => v = u /\ d = e
    <3> TAKE d \in list[v]
    <3>1. PICK c \in market : c.user = v /\ d = EntryOf(c)
      BY EntriesMatch
    <3> QED BY <2>1, <3>1, EntriesMatch
  <2> QED BY <1>1, <2>2 DEF Book, Sound, TypeOK
<1>3. market' = Line({b \in market : b.id \notin {e.id}})
  BY <1>1
<1> QED BY <1>2, <1>3, RemovedBooked

(* The bid of an entry loses what the entry loses.                           *)
LEMMA ReduceBooked ==
  ASSUME Book, NEW ids, NEW loss \in Loss, Reduce(ids, loss)
  PROVE  Booked'
<1> DEFINE less(b) == [b EXCEPT !.qty = Left(b, loss)]
           S == LessOf(ids, loss)
<1>1. S \in SUBSET Bid /\ IsFiniteSet(S) /\ market' = Line(S)
  <2>1. market' = Line(LessOf(ids, loss))
    BY DEF Reduce, LessOf
  <2> QED BY <2>1, ReduceSound DEF Book, Sound
<1>2. \A b \in market : /\ Is(less(b), b) /\ less(b).pos = b.pos
                        /\ Left(EntryOf(b), loss) = Left(b, loss)
                        /\ EntryOf(less(b)) = [EntryOf(b) EXCEPT !.qty = Left(b, loss)]
  <2> TAKE b \in market
  <2>1. b \in Bid
    BY DEF Book, Sound, TypeOK
  <2>2. Is(less(b), b) /\ less(b).pos = b.pos /\ less(b).qty = Left(b, loss)
    BY <2>1 DEF Bid, Is, Offers
  <2>3. Left(EntryOf(b), loss) = Left(b, loss)
    BY DEF EntryOf, Left
  <2>4. EntryOf(less(b)) = [EntryOf(b) EXCEPT !.qty = Left(b, loss)]
    <3> HIDE DEF less
    <3> QED BY <2>2 DEF Is, Offers, EntryOf
  <2> QED BY <2>2, <2>3, <2>4
<1>3. \A x : x \in S <=> \E b \in market : \/ b.id \notin ids /\ x = b
                                           \/ b.id \in ids /\ Left(b, loss) > 0 /\ x = less(b)
  BY DEF LessOf
<1> HIDE DEF less, S
<1>4. \A x \in S : \E b \in market : /\ Is(x, b) /\ x.pos = b.pos
                                     /\ b.id \notin ids => x = b
                                     /\ b.id \in ids => Left(b, loss) > 0 /\ x = less(b)
  BY <1>2, <1>3 DEF Is, Offers
<1>5. InOrder(S)
  <2> SUFFICES ASSUME NEW x \in S, NEW y \in S, x # y
               PROVE  x.id # y.id /\ (SameLevel(x, y) => x.pos # y.pos)
    BY DEF InOrder
  <2>1. PICK b \in market : /\ Is(x, b) /\ x.pos = b.pos
                            /\ b.id \notin ids => x = b
                            /\ b.id \in ids => x = less(b)
    BY <1>4
  <2>2. PICK c \in market : /\ Is(y, c) /\ y.pos = c.pos
                            /\ c.id \notin ids => y = c
                            /\ c.id \in ids => y = less(c)
    BY <1>4
  <2>3. b # c
    BY <2>1, <2>2
  <2> QED BY <2>1, <2>2, <2>3 DEF Book, InOrder, Is, Offers, SameLevel
<1>6. Mirrors(list', S)
  <2> SUFFICES ASSUME NEW u \in User
               PROVE  list'[u] = {EntryOf(b) : b \in {c \in S : c.user = u}}
    BY DEF Mirrors
  <2>1. list'[u] = {e \in list[u] : e.id \notin ids}
                   \cup {[e EXCEPT !.qty = Left(e, loss)]
                           : e \in {d \in list[u] : d.id \in ids /\ Left(d, loss) > 0}}
    BY DEF Reduce
  <2>2. ASSUME NEW y \in list'[u] PROVE \E x \in S : x.user = u /\ y = EntryOf(x)
    <3>1. PICK e \in list[u] : \/ e.id \notin ids /\ y = e
                               \/ /\ e.id \in ids /\ Left(e, loss) > 0
                                  /\ y = [e EXCEPT !.qty = Left(e, loss)]
      BY <2>1, <2>2
    <3>2. PICK b \in market : b.user = u /\ e = EntryOf(b) /\ e.id = b.id
      BY EntriesMatch
    <3>3. CASE b.id \notin ids
      BY <1>3, <3>1, <3>2, <3>3
    <3>4. CASE b.id \in ids
      <4>1. less(b) \in S /\ y = EntryOf(less(b)) /\ less(b).user = u
        BY <1>2, <1>3, <3>1, <3>2, <3>4 DEF Is
      <4> QED BY <4>1
    <3> QED BY <3>3, <3>4
  <2>3. ASSUME NEW x \in S, x.user = u PROVE EntryOf(x) \in list'[u]
    <3>1. PICK b \in market : /\ Is(x, b)
                              /\ b.id \notin ids => x = b
                              /\ b.id \in ids => Left(b, loss) > 0 /\ x = less(b)
      BY <1>4
    <3>2. EntryOf(b) \in list[u] /\ EntryOf(b).id = b.id
      BY <2>3, <3>1, EntriesMatch DEF Is
    <3>3. CASE b.id \notin ids
      BY <2>1, <3>1, <3>2, <3>3
    <3>4. CASE b.id \in ids
      BY <1>2, <2>1, <3>1, <3>2, <3>4
    <3> QED BY <3>3, <3>4
  <2> QED BY <2>2, <2>3
<1> QED BY <1>1, <1>5, <1>6, LinesBooked

(* A bid that stays keeps its place; one that goes leaves a gap that closes. *)
LEMMA TakenBooked ==
  ASSUME Book, NEW b \in market, NEW n \in 1 .. b.qty, Taken(b, n)
  PROVE  Booked'
<1>1. b \in Bid /\ b.user \in User /\ list \in [User -> SUBSET Entry]
  BY DEF Book, Sound, TypeOK, Bid
<1>2. CASE ~(n < b.qty)
  <2>1. market' = Line({c \in market : c.id \notin {b.id}})
    <3>1. market \ {b} = {c \in market : c.id \notin {b.id}}
      BY EntriesMatch, <1>1
    <3> QED BY <1>2, <3>1 DEF Taken
  <2>2. \A u \in User : list'[u] = {e \in list[u] : e.id \notin {b.id}}
    <3> TAKE u \in User
    <3>1. \A e \in list[u] : e.id = b.id => u = b.user
      BY EntriesMatch
    <3> QED BY <1>1, <1>2, <3>1 DEF Taken
  <2> QED BY <2>1, <2>2, RemovedBooked
<1>3. CASE n < b.qty
  <2> DEFINE less == [b EXCEPT !.qty = @ - n]
             f == [c \in market |-> IF c = b THEN less ELSE c]
  <2>1. Is(less, b) /\ less.pos = b.pos /\ less.qty = b.qty - n
    BY <1>1 DEF Is, Offers, Bid
  <2>2. market' = (market \ {b}) \cup {less}
    BY <1>3 DEF Taken
  <2> HIDE DEF less
  <2>3. \A c \in market : Is(f[c], c) /\ f[c].pos = c.pos
    BY <2>1 DEF Is, Offers
  <2>4. market' = {f[c] : c \in market} /\ DOMAIN f = market
    BY <2>2
  <2>5. \A c \in market : f[c] = IF c = b THEN less ELSE c
    OBVIOUS
  <2> HIDE DEF f
  <2>6. InOrder(market')
    BY <2>3, <2>4 DEF Book, InOrder, Is, Offers, SameLevel
  <2>7. Inside(market')
    <3> SUFFICES ASSUME NEW c \in market PROVE f[c].pos < Cardinality(Level(market', f[c]))
      BY <2>4 DEF Inside
    <3>1. Cardinality(Level(market', f[c])) = Cardinality(Level(market, c))
      <4>2. IsFiniteSet(market) /\ InOrder(market)
        BY DEF Book, Sound, TypeOK
      <4>3. \A x \in market : Is(f[x], x)
        BY <2>3
      <4> QED BY <2>4, <4>2, <4>3, LevelsKept
    <3> QED BY <2>3, <3>1 DEF Book, Inside
  <2>8. Mirrors(list', market')
    <3> SUFFICES ASSUME NEW u \in User
                 PROVE  list'[u] = {EntryOf(c) : c \in {d \in market' : d.user = u}}
      BY DEF Mirrors
    <3>1. EntryOf(less) = [EntryOf(b) EXCEPT !.qty = b.qty - n] /\ EntryOf(b).id = b.id
      BY <2>1 DEF Is, Offers, EntryOf
    <3>2. \A e \in list[u] : e.id = b.id => u = b.user /\ e = EntryOf(b)
      BY EntriesMatch
    <3>3. EntryOf(b) \in list[b.user]
      BY <1>1, EntriesMatch
    <3>4. CASE u # b.user
      <4>1. list'[u] = list[u]
        BY <1>1, <1>3, <3>4 DEF Taken
      <4>2. {d \in market' : d.user = u} = {d \in market : d.user = u}
        BY <2>1, <2>2, <3>4 DEF Is
      <4> QED BY <4>1, <4>2 DEF Book, Mirrors
    <3>5. CASE u = b.user
      <4>1. list'[u] = {e \in list[u] : e.id # b.id}
                       \cup {[e EXCEPT !.qty = b.qty - n] : e \in {d \in list[u] : d.id = b.id}}
        BY <1>1, <1>3, <3>5 DEF Taken
      <4>2. {[e EXCEPT !.qty = b.qty - n] : e \in {d \in list[u] : d.id = b.id}} = {EntryOf(less)}
        BY <3>1, <3>2, <3>3, <3>5
      <4>3. {e \in list[u] : e.id # b.id} = {EntryOf(c) : c \in {d \in market \ {b} : d.user = u}}
        BY EntriesMatch
      <4>4. {d \in market' : d.user = u} = {d \in market \ {b} : d.user = u} \cup {less}
        BY <2>1, <2>2, <3>5 DEF Is
      <4> QED BY <4>1, <4>2, <4>3, <4>4
    <3> QED BY <3>4, <3>5
  <2>9. Mirrors(list, market)' /\ InOrder(market)' /\ Inside(market)'
    BY <2>6, <2>7, <2>8 DEF Mirrors, InOrder, Inside, Level
  <2> QED BY <2>9 DEF Booked
<1> QED BY <1>2, <1>3

LEMMA FillBooked ==
  ASSUME Book, Fill
  PROVE  Booked'
<1>1. PICK b \in Matches :
        Trades(b, IF request.left < b.qty THEN request.left ELSE b.qty)
  BY DEF Fill
<1>2. b \in market
  BY DEF Matches
<1>3. request.left \in Nat /\ request.left > 0 /\ b.qty \in Nat /\ b.qty > 0
  BY <1>2, MarketConstants DEF Fill, Idle, Book, Sound, TypeOK, Request, Bid
<1> DEFINE n == IF request.left < b.qty THEN request.left ELSE b.qty
<1>4. n \in 1 .. b.qty /\ Taken(b, n)
  BY <1>1, <1>3 DEF Trades
<1> HIDE DEF n
<1> QED BY <1>2, <1>4, TakenBooked

(* What is left of a request goes behind all the others of its level.        *)
LEMMA RestBooked ==
  ASSUME Book, Rest
  PROVE  Booked'
<1>1. CASE request.left = 0
  <2>1. UNCHANGED <<market, list>>
    BY <1>1 DEF Rest
  <2> QED BY <2>1 DEF Book, Booked, Mirrors, InOrder, Inside, Level
<1>2. CASE request.left # 0
  <2>1. PICK id \in BidId \ IdsOf(market) : AddRest(id)
    BY <1>2 DEF Rest
  <2> DEFINE e == [id |-> id, act |-> request.act, res |-> request.res,
                   price |-> request.price, qty |-> request.left]
             b == [id |-> id, user |-> request.user, act |-> request.act,
                   res |-> request.res, price |-> request.price, qty |-> request.left,
                   pos |-> Cardinality({c \in market : SameLevel(c, e)})]
  <2>2. market' = market \cup {b} /\ list' = [list EXCEPT ![request.user] = @ \cup {e}]
    BY <2>1 DEF AddRest
  <2>3. request.user \in User /\ list \in [User -> SUBSET Entry] /\ IsFiniteSet(market)
    BY DEF Book, Sound, TypeOK, Rest, Idle, Request
  <2>4. {c \in market : SameLevel(c, e)} = Level(market, b)
    BY DEF Level, SameLevel
  <2>5. b.id = id /\ b.user = request.user /\ EntryOf(b) = e /\ b.pos = Cardinality(Level(market, b))
    BY <2>4 DEF EntryOf
  <2> HIDE DEF b, e
  <2>6. \A c \in market : c.id # b.id /\ c # b
    BY <2>1, <2>5 DEF IdsOf
  <2>7. \A c \in market : SameLevel(b, c) \/ SameLevel(c, b) => c.pos < b.pos
    <3> TAKE c \in market
    <3>1. ASSUME SameLevel(b, c) \/ SameLevel(c, b) PROVE Level(market, c) = Level(market, b)
      BY <3>1 DEF Level, SameLevel
    <3> QED BY <2>5, <3>1 DEF Book, Inside
  <2>8. b.pos \in Nat /\ \A c \in market : c.pos \in Nat
    BY <2>3, <2>5, LevelFinite DEF Book, Sound, TypeOK, Bid
  <2>9. InOrder(market')
    BY <2>2, <2>6, <2>7, <2>8 DEF Book, InOrder
  <2>10. Inside(market')
    <3> SUFFICES ASSUME NEW c \in market' PROVE c.pos < Cardinality(Level(market', c))
      BY DEF Inside
    <3>1. IsFiniteSet(market')
      BY <2>2, <2>3, FS_AddElement
    <3>2. CASE c = b
      <4>1. Level(market, b) \subseteq Level(market', b) /\ b \in Level(market', b) /\ b \notin Level(market, b)
        BY <2>2, <2>6 DEF Level, SameLevel
      <4>2. IsFiniteSet(Level(market', b))
        BY <3>1, LevelFinite
      <4> QED BY <2>5, <3>2, <4>1, <4>2, FewerWithout
    <3>3. CASE c # b
      <4>1. c \in market /\ Level(market, c) \in SUBSET Level(market', c)
        BY <2>2, <3>3 DEF Level
      <4>2. IsFiniteSet(Level(market', c)) /\ Cardinality(Level(market', c)) \in Nat
        BY <3>1, LevelFinite
      <4>3. Cardinality(Level(market, c)) <= Cardinality(Level(market', c))
        BY <4>1, <4>2, FS_Subset
      <4>4. Cardinality(Level(market, c)) \in Nat /\ c.pos < Cardinality(Level(market, c)) /\ c.pos \in Nat
        BY <2>3, <2>8, <4>1, LevelFinite DEF Book, Inside
      <4> QED BY <4>2, <4>3, <4>4
    <3> QED BY <3>2, <3>3
  <2>11. Mirrors(list', market')
    <3> SUFFICES ASSUME NEW u \in User
                 PROVE  list'[u] = {EntryOf(c) : c \in {d \in market' : d.user = u}}
      BY DEF Mirrors
    <3>1. list[u] = {EntryOf(c) : c \in {d \in market : d.user = u}}
      BY DEF Book, Mirrors
    <3>2. CASE u = request.user
      <4>1. list'[u] = list[u] \cup {e}
        BY <2>2, <2>3, <3>2
      <4>2. {d \in market' : d.user = u} = {d \in market : d.user = u} \cup {b}
        BY <2>2, <2>5, <3>2
      <4> QED BY <2>5, <3>1, <4>1, <4>2
    <3>3. CASE u # request.user
      <4>1. list'[u] = list[u]
        BY <2>2, <2>3, <3>3
      <4>2. {d \in market' : d.user = u} = {d \in market : d.user = u}
        BY <2>2, <2>5, <3>3
      <4> QED BY <3>1, <4>1, <4>2
    <3> QED BY <3>2, <3>3
  <2>12. Mirrors(list, market)' /\ InOrder(market)' /\ Inside(market)'
    BY <2>9, <2>10, <2>11 DEF Mirrors, InOrder, Inside, Level
  <2> QED BY <2>12 DEF Booked
<1> QED BY <1>1, <1>2

LEMMA NextBooked == Book /\ [Next]_vars => Booked'
<1> SUFFICES ASSUME Book, [Next]_vars PROVE Booked'
  OBVIOUS
<1>1. UNCHANGED <<market, list>> => Booked'
  BY DEF Book, Booked, Mirrors, InOrder, Inside, Level
<1>2. CASE Trade
  <2>1. ASSUME NEW u \in User, NEW act \in Action, NEW r \in Resource, NEW p \in Price,
               NEW q \in 1 .. MaxQty, Place(u, act, r, p, q)
        PROVE  Booked'
    BY <1>1, <2>1 DEF Place
  <2>2. ASSUME NEW u \in User, Withdraw(u) PROVE Booked'
    BY <2>2, WithdrawBooked
  <2>3. Fill \/ Rest => Booked'
    BY FillBooked, RestBooked
  <2> QED BY <1>2, <2>1, <2>2, <2>3 DEF Trade
<1>3. CASE Attack
  <2>1. ASSUME NEW victim \in User, NEW pct \in Percent, Irradiate(victim, pct)
        PROVE  Booked'
    BY <2>1, LossType, ReduceBooked DEF Irradiate
  <2>2. ASSUME NEW thief \in User, NEW victim \in User, NEW good \in Good, NEW pct \in Percent,
               Theft(thief, victim, good, pct)
        PROVE  Booked'
    BY <2>2, LossType, ReduceBooked DEF Theft
  <2> QED BY <1>3, <2>1, <2>2 DEF Attack
<1>4. CASE Upkeep
  <2>1. CASE TickDecay
    <3>1. TickLoss \in Loss
      BY MarketConstants DEF TickLoss, Loss
    <3> QED BY <2>1, <3>1, ReduceBooked DEF TickDecay
  <2>2. ASSUME NEW u \in User, Join(u) \/ ClearBids(u) PROVE Booked'
    BY <1>1, <2>2, DropBooked DEF Join, ClearBids
  <2> QED BY <1>1, <1>4, <2>1, <2>2 DEF Upkeep, ToggleTime
<1>5. ASSUME NEW u \in User, Deactivate(u) PROVE Booked'
  BY <1>5, DropBooked DEF Deactivate
<1>6. CASE UNCHANGED vars
  BY <1>1, <1>6 DEF vars
<1> QED BY <1>2, <1>3, <1>4, <1>5, <1>6 DEF Next

LEMMA AlwaysBook == Spec => []Book
<1>1. Init => Book
  <2> SUFFICES ASSUME Init PROVE Book
    OBVIOUS
  <2>1. market = {} /\ \A u \in User : list[u] = {}
    BY DEF Init
  <2> QED BY <2>1, InitSound DEF Book, Mirrors, InOrder, Inside
<1>2. Book /\ [Next]_vars => Book'
  <2> SUFFICES ASSUME Book, [Next]_vars PROVE Book'
    OBVIOUS
  <2>1. Sound'
    BY NextSound DEF Book
  <2> QED BY <2>1, NextBooked DEF Book, Booked
<1> QED BY <1>1, <1>2, PTL DEF Spec

(* What one player may withdraw is what the others may buy: the owners'      *)
(* lists name the bids of the market file with the same quantities, ids are  *)
(* never shared and the bids of every level stand in line, through every     *)
(* order of trades, decay, thefts and clearing (dbMarketAdd, dbUserMarketAdd  *)
(* and the calls beside them).                                               *)
THEOREM BooksAgree == Spec => []BookSound
BY BookIsSound, AlwaysBook, PTL

-----------------------------------------------------------------------------
(* Sums.  Their laws are proved by looking at the least counterexample,      *)
(* which every set of numbers has.                                           *)

LEMMA Least ==
  ASSUME NEW T \in SUBSET Nat, T # {}
  PROVE  \E x \in T : \A y \in T : x <= y
<1> DEFINE R == OpToRel(<, Nat)
<1>1. IsWellFoundedOn(R, Nat)
  BY NatLessThanWellFounded
<1>2. \A x, y \in Nat : x < y => <<x, y>> \in R
  BY DEF OpToRel
<1> HIDE DEF R
<1>3. PICK x \in T : \A y \in T : ~ (<<y, x>> \in R)
  BY <1>1, WFMin
<1>4. ASSUME NEW y \in T PROVE x <= y
  <2>1. x \in Nat /\ y \in Nat /\ ~(<<y, x>> \in R)
    BY <1>3
  <2>2. ~(y < x)
    BY <1>2, <2>1
  <2> QED BY <2>1, <2>2
<1> QED BY <1>4

(* A fold over the subsets of a finite set, one element after another.     *)
Foldable(S, V, base, c, st) ==
  /\ IsFiniteSet(S) /\ base \in V
  /\ \A s \in SUBSET S : s # {} => c[s] \in s
  /\ \A x \in S, v \in V : st[<<x, v>>] \in V

IsFold(f, S, base, c, st) ==
  \A s \in SUBSET S : f[s] = IF s = {} THEN base ELSE st[<<c[s], f[s \ {c[s]}]>>]

LEMMA FoldExists ==
  ASSUME NEW S, NEW V, NEW base, NEW c, NEW st, Foldable(S, V, base, c, st)
  PROVE  \E f \in [SUBSET S -> V] : IsFold(f, S, base, c, st)
<1> DEFINE Upto(n) == {s \in SUBSET S : Cardinality(s) <= n}
           Reached(n) == \E f \in [SUBSET S -> V] :
                        \A s \in Upto(n) : f[s] = IF s = {} THEN base ELSE st[<<c[s], f[s \ {c[s]}]>>]
           Bad == {n \in Nat : ~Reached(n)}
<1>1. \A s \in SUBSET S : IsFiniteSet(s) /\ Cardinality(s) \in Nat /\ Cardinality(s) <= Cardinality(S)
  BY FS_Subset, FS_CardinalityType DEF Foldable
<1>2. \A s \in SUBSET S : s # {} => /\ s \ {c[s]} \in SUBSET S
                                    /\ Cardinality(s \ {c[s]}) = Cardinality(s) - 1
  BY <1>1, FS_RemoveElement DEF Foldable
<1>3. ASSUME NEW n \in Nat, \A m \in Nat : m < n => Reached(m) PROVE Reached(n)
  <2>1. CASE n = 0
    <3>1. \A s \in Upto(0) : s = {}
      BY <1>1, FS_EmptySet
    <3>2. [s \in SUBSET S |-> base] \in [SUBSET S -> V]
      BY DEF Foldable
    <3> QED BY <2>1, <3>1, <3>2
  <2>2. CASE n # 0
    <3>1. n - 1 \in Nat /\ n - 1 < n
      BY <2>2
    <3>2. PICK g \in [SUBSET S -> V] :
            \A s \in Upto(n - 1) : g[s] = IF s = {} THEN base ELSE st[<<c[s], g[s \ {c[s]}]>>]
      BY <1>3, <3>1
    <3> DEFINE f == [s \in SUBSET S |-> IF s = {} THEN base ELSE st[<<c[s], g[s \ {c[s]}]>>]]
    <3>3. f \in [SUBSET S -> V]
      <4>1. \A s \in SUBSET S : s # {} => c[s] \in S /\ g[s \ {c[s]}] \in V
        BY <1>2 DEF Foldable
      <4> QED BY <4>1 DEF Foldable
    <3>4. \A s \in Upto(n - 1) : f[s] = g[s]
      BY <3>2
    <3>5. \A s \in Upto(n) : s # {} => s \ {c[s]} \in Upto(n - 1)
      BY <1>1, <1>2, <3>1
    <3>6. \A s \in Upto(n) : f[s] = IF s = {} THEN base ELSE st[<<c[s], f[s \ {c[s]}]>>]
      <4> TAKE s \in Upto(n)
      <4>1. CASE s = {}
        BY <4>1
      <4>2. CASE s # {}
        BY <3>4, <3>5, <4>2
      <4> QED BY <4>1, <4>2
    <3> HIDE DEF f, Upto
    <3> QED BY <3>3, <3>6
  <2> QED BY <2>1, <2>2
<1>4. Bad = {}
  <2> HIDE DEF Reached
  <2> SUFFICES ASSUME Bad # {} PROVE FALSE
    OBVIOUS
  <2>1. PICK n \in Bad : \A m \in Bad : n <= m
    <3>1. Bad \in SUBSET Nat
      OBVIOUS
    <3> HIDE DEF Bad
    <3> QED BY <3>1, Least
  <2>2. \A m \in Nat : m < n => Reached(m)
    BY <2>1
  <2> QED BY <1>3, <2>1, <2>2
<1>5. Cardinality(S) \in Nat /\ Upto(Cardinality(S)) = SUBSET S
  BY <1>1 DEF Foldable
<1> HIDE DEF Upto
<1>6. Reached(Cardinality(S))
  BY <1>4, <1>5
<1> QED BY <1>5, <1>6 DEF IsFold

(* What holds of the empty set, and of a set once it holds without one of  *)
(* its elements, holds of every subset.                                    *)
Grows(S, G) == \A s \in SUBSET S : (\A x \in s : s \ {x} \in G) => s \in G

LEMMA SetInduction ==
  ASSUME NEW S, IsFiniteSet(S), NEW G, Grows(S, G)
  PROVE  SUBSET S \subseteq G
<1> DEFINE Bad == {n \in Nat : \E s \in SUBSET S : s \notin G /\ Cardinality(s) = n}
<1>1. \A s \in SUBSET S : IsFiniteSet(s) /\ Cardinality(s) \in Nat
  BY FS_Subset, FS_CardinalityType
<1>2. SUFFICES ASSUME Bad # {} PROVE FALSE
  BY <1>1
<1>3. PICK n \in Bad : \A m \in Bad : n <= m
  <2>1. Bad \in SUBSET Nat
    OBVIOUS
  <2> HIDE DEF Bad
  <2> QED BY <1>2, <2>1, Least
<1>4. PICK s \in SUBSET S : s \notin G /\ Cardinality(s) = n
  OBVIOUS
<1>5. PICK x \in s : s \ {x} \notin G
  BY <1>4 DEF Grows
<1>6. s \ {x} \in SUBSET S /\ Cardinality(s \ {x}) = n - 1
  BY <1>1, <1>4, FS_RemoveElement
<1>7. n - 1 \in Bad
  BY <1>1, <1>5, <1>6
<1> QED BY <1>3, <1>7

(* The sums that MapThenSumSet computes, one element after another.        *)
Chosen(s) == CHOOSE x \in s : TRUE
Weighs(w, S) == IsFiniteSet(S) /\ \A i \in S : w[i] \in Nat
Sums(f, w, S) == \A s \in SUBSET S :
                   f[s] = IF s = {} THEN 0 ELSE w[Chosen(s)] + f[s \ {Chosen(s)}]

LEMMA SumsExist ==
  ASSUME NEW w, NEW S, Weighs(w, S)
  PROVE  \E f \in [SUBSET S -> Nat] : Sums(f, w, S)
<1> DEFINE c == [s \in SUBSET S |-> Chosen(s)]
           st == [z \in S \X Nat |-> w[z[1]] + z[2]]
<1>1. \A s \in SUBSET S : c[s] = Chosen(s) /\ (s # {} => c[s] \in s)
  BY DEF Chosen
<1>2. \A x \in S, v \in Nat : st[<<x, v>>] = w[x] + v /\ st[<<x, v>>] \in Nat
  BY DEF Weighs
<1>3. Foldable(S, Nat, 0, c, st)
  BY <1>1, <1>2 DEF Foldable, Weighs
<1> HIDE DEF c, st
<1>4. PICK f \in [SUBSET S -> Nat] : IsFold(f, S, 0, c, st)
  BY <1>3, FoldExists
<1>5. Sums(f, w, S)
  <2> SUFFICES ASSUME NEW s \in SUBSET S
               PROVE  f[s] = IF s = {} THEN 0 ELSE w[Chosen(s)] + f[s \ {Chosen(s)}]
    BY DEF Sums
  <2>1. CASE s = {}
    BY <1>4, <2>1 DEF IsFold
  <2>2. CASE s # {}
    <3>1. Chosen(s) \in S /\ f[s \ {Chosen(s)}] \in Nat
      BY <1>1, <2>2
    <3>2. f[s] = st[<<Chosen(s), f[s \ {Chosen(s)}]>>]
      BY <1>1, <1>4, <2>2 DEF IsFold
    <3> QED BY <1>2, <2>2, <3>1, <3>2
  <2> QED BY <2>1, <2>2
<1> QED BY <1>5

LEMMA SumsSame ==
  ASSUME NEW w, NEW S, Weighs(w, S), NEW T \in SUBSET S,
         NEW f, Sums(f, w, S), NEW g, Sums(g, w, T)
  PROVE  g[T] = f[T]
<1> DEFINE G == {s \in SUBSET T : g[s] = f[s]}
<1>1. ASSUME NEW s \in SUBSET T, \A x \in s : s \ {x} \in G PROVE s \in G
  <2>1. g[s] = f[s]
    <3>1. CASE s = {}
      BY <3>1 DEF Sums
    <3>2. CASE s # {}
      <4>1. Chosen(s) \in s
        BY <3>2 DEF Chosen
      <4> QED BY <1>1, <3>2, <4>1 DEF Sums
    <3> QED BY <3>1, <3>2
  <2> QED BY <2>1
<1> HIDE DEF G
<1>2. Grows(T, G)
  BY <1>1 DEF Grows
<1>3. IsFiniteSet(T)
  BY FS_Subset DEF Weighs
<1>4. SUBSET T \subseteq G
  BY <1>2, <1>3, SetInduction
<1> QED BY <1>4 DEF G

LEMMA SumFold ==
  ASSUME NEW w, NEW S, Weighs(w, S)
  PROVE  /\ Sum(w, {}) = 0
         /\ \A s \in SUBSET S : Sum(w, s) \in Nat
         /\ \A s \in SUBSET S : s # {} => /\ Chosen(s) \in s
                                          /\ Sum(w, s) = w[Chosen(s)] + Sum(w, s \ {Chosen(s)})
<1>1. PICK f \in [SUBSET S -> Nat] : Sums(f, w, S)
  BY SumsExist
<1>2. ASSUME NEW T \in SUBSET S PROVE Sum(w, T) = f[T]
  <2> DEFINE is(g) == g = [s \in SUBSET T |->
                             IF s = {} THEN 0
                             ELSE w[CHOOSE x \in s : TRUE] + g[s \ {CHOOSE x \in s : TRUE}]]
             it == CHOOSE g : is(g)
             g0 == [s \in SUBSET T |-> f[s]]
  <2>1. \A s \in SUBSET T : g0[s] = f[s] /\ g0[s \ {CHOOSE x \in s : TRUE}] = f[s \ {CHOOSE x \in s : TRUE}]
    OBVIOUS
  <2>2. is(g0)
    BY <1>1, <2>1 DEF Sums, Chosen
  <2>3. is(it)
    BY <2>2
  <2>4. Sum(w, T) = it[T]
    BY DEF Sum, MapThenSumSet, MapThenFoldSet
  <2> HIDE DEF it
  <2>5. Sums(it, w, T)
    BY <2>3 DEF Sums, Chosen
  <2> QED BY <1>1, <2>4, <2>5, SumsSame
<1>3. \A s \in SUBSET S : s # {} => Chosen(s) \in s
  BY DEF Chosen
<1>4. Sum(w, {}) = 0
  BY <1>1, <1>2 DEF Sums
<1>5. \A s \in SUBSET S : Sum(w, s) \in Nat
  BY <1>1, <1>2
<1>6. \A s \in SUBSET S : s # {} => Sum(w, s) = w[Chosen(s)] + Sum(w, s \ {Chosen(s)})
  <2> TAKE s \in SUBSET S
  <2>1. s \ {Chosen(s)} \in SUBSET S
    OBVIOUS
  <2>2. s # {} => f[s] = w[Chosen(s)] + f[s \ {Chosen(s)}]
    BY <1>1 DEF Sums
  <2> QED BY <1>2, <2>1, <2>2
<1> QED BY <1>3, <1>4, <1>5, <1>6

LEMMA SumAdds ==
  ASSUME NEW w, NEW S, Weighs(w, S), NEW x \in S
  PROVE  /\ Sum(w, S) = w[x] + Sum(w, S \ {x}) /\ Sum(w, S \ {x}) \in Nat
         /\ Sum(w, S) \in Nat /\ w[x] \in Nat
<1> DEFINE G == {s \in SUBSET S : \A y \in s : Sum(w, s) = w[y] + Sum(w, s \ {y})}
<1>1. ASSUME NEW s \in SUBSET S, \A y \in s : s \ {y} \in G PROVE s \in G
  <2> SUFFICES ASSUME NEW y \in s PROVE Sum(w, s) = w[y] + Sum(w, s \ {y})
    OBVIOUS
  <2> DEFINE z == Chosen(s)
  <2>1. z \in s /\ Sum(w, s) = w[z] + Sum(w, s \ {z})
    BY SumFold
  <2>2. w[z] \in Nat /\ w[y] \in Nat
    BY <2>1 DEF Weighs
  <2> HIDE DEF z
  <2>3. CASE y = z
    BY <2>1, <2>3
  <2>4. CASE y # z
    <3>1. (s \ {z}) \ {y} = (s \ {y}) \ {z} /\ (s \ {z}) \ {y} \in SUBSET S
      OBVIOUS
    <3>2. Sum(w, s \ {z}) = w[y] + Sum(w, (s \ {z}) \ {y})
      BY <1>1, <2>1, <2>4
    <3>3. Sum(w, s \ {y}) = w[z] + Sum(w, (s \ {y}) \ {z})
      BY <1>1, <2>1, <2>4
    <3>4. Sum(w, (s \ {z}) \ {y}) \in Nat
      BY <3>1, SumFold
    <3>5. Sum(w, (s \ {z}) \ {y}) = Sum(w, (s \ {y}) \ {z})
      BY <3>1
    <3> QED BY <2>1, <2>2, <3>2, <3>3, <3>4, <3>5
  <2> QED BY <2>3, <2>4
<1> HIDE DEF G
<1>2. Grows(S, G)
  BY <1>1 DEF Grows
<1>3. SUBSET S \subseteq G
  BY <1>2, SetInduction DEF Weighs
<1>4. S \in G
  BY <1>3
<1>5. Sum(w, S) \in Nat /\ Sum(w, S \ {x}) \in Nat
  BY SumFold
<1> QED BY <1>4, <1>5 DEF G, Weighs

(* A sum over other places of the same weights.                            *)
LEMMA SumMoves ==
  ASSUME NEW w, NEW v, NEW T, Weighs(v, T), NEW m,
         \A i, j \in T : m[i] = m[j] => i = j,
         \A i \in T : w[m[i]] = v[i]
  PROVE  Sum(v, T) = Sum(w, {m[i] : i \in T})
<1> DEFINE img(t) == {m[i] : i \in t}
           G == {t \in SUBSET T : Sum(v, t) = Sum(w, img(t))}
<1>1. ASSUME NEW t \in SUBSET T, \A y \in t : t \ {y} \in G PROVE t \in G
  <2>1. CASE t = {}
    <3>1. img(t) = {}
      BY <2>1
    <3>2. Weighs(w, {})
      BY FS_EmptySet DEF Weighs
    <3>3. Sum(v, t) = 0 /\ Sum(w, img(t)) = 0
      BY <2>1, <3>1, <3>2, SumFold
    <3> QED BY <3>3
  <2>2. CASE t # {}
    <3>1. PICK x \in t : TRUE
      BY <2>2
    <3>2. Weighs(v, t)
      BY FS_Subset DEF Weighs
    <3>3. IsFiniteSet(img(t))
        <4> DEFINE h == [i \in t |-> m[i]]
      <4>1. h \in Surjection(t, img(t))
        BY DEF Surjection
      <4> HIDE DEF h, img
      <4> QED BY <3>2, <4>1, FS_Surjection DEF Weighs
    <3>4. Weighs(w, img(t)) /\ m[x] \in img(t)
      BY <3>2, <3>3 DEF Weighs
    <3>5. img(t) \ {m[x]} = img(t \ {x})
      OBVIOUS
    <3> HIDE DEF img
    <3>6. Sum(v, t) = v[x] + Sum(v, t \ {x})
      BY <3>2, SumAdds
    <3>7. Sum(w, img(t)) = w[m[x]] + Sum(w, img(t) \ {m[x]})
      BY <3>4, SumAdds
    <3> QED BY <1>1, <3>5, <3>6, <3>7
  <2> QED BY <2>1, <2>2
<1> HIDE DEF G
<1>2. Grows(T, G)
  BY <1>1 DEF Grows
<1>3. SUBSET T \subseteq G
  BY <1>2, SetInduction DEF Weighs
<1> QED BY <1>3 DEF G

LEMMA SumSplits ==
  ASSUME NEW w, NEW S, Weighs(w, S), NEW A \in SUBSET S
  PROVE  /\ Sum(w, S) = Sum(w, A) + Sum(w, S \ A)
         /\ Sum(w, S) \in Nat /\ Sum(w, A) \in Nat /\ Sum(w, S \ A) \in Nat
<1> DEFINE G == {a \in SUBSET A : Sum(w, S) = Sum(w, a) + Sum(w, S \ a)}
<1>0. \A s \in SUBSET S : Sum(w, s) \in Nat
  BY SumFold
<1>1. ASSUME NEW a \in SUBSET A, \A y \in a : a \ {y} \in G PROVE a \in G
  <2>1. CASE a = {}
    <3>1. Sum(w, a) = 0 /\ S \ a = S
      BY <2>1, SumFold
    <3> QED BY <1>0, <3>1
  <2>2. CASE a # {}
    <3>1. PICK x \in a : TRUE
      BY <2>2
    <3> DEFINE b == a \ {x}
    <3>2. Sum(w, S) = Sum(w, b) + Sum(w, S \ b)
      BY <1>1
    <3>3. Weighs(w, a) /\ Weighs(w, S \ b) /\ x \in S \ b
      BY FS_Subset DEF Weighs
    <3>4. (S \ b) \ {x} = S \ a
      OBVIOUS
    <3> HIDE DEF b
    <3>5. Sum(w, a) = w[x] + Sum(w, a \ {x}) /\ w[x] \in Nat
      BY <3>3, SumAdds
    <3>6. Sum(w, S \ b) = w[x] + Sum(w, S \ a) /\ Sum(w, S \ a) \in Nat
      <4> DEFINE T == S \ b
      <4> HIDE DEF T
      <4>1. Weighs(w, T) /\ x \in T
        BY <3>3 DEF T
      <4>2. Sum(w, T) = w[x] + Sum(w, T \ {x}) /\ Sum(w, T \ {x}) \in Nat
        BY <4>1, SumAdds
      <4> QED BY <3>4, <4>2 DEF T
    <3>7. Sum(w, a \ {x}) \in Nat
      BY <1>0
    <3> QED BY <3>2, <3>5, <3>6, <3>7 DEF b
  <2> QED BY <2>1, <2>2
<1> HIDE DEF G
<1>2. Grows(A, G)
  BY <1>1 DEF Grows
<1>3. IsFiniteSet(A)
  BY FS_Subset DEF Weighs
<1>4. SUBSET A \subseteq G
  BY <1>2, <1>3, SetInduction
<1> QED BY <1>0, <1>4 DEF G

LEMMA SumSame ==
  ASSUME NEW w, NEW v, NEW S, Weighs(w, S), \A i \in S : v[i] = w[i]
  PROVE  Sum(v, S) = Sum(w, S)
<1> DEFINE G == {s \in SUBSET S : Sum(v, s) = Sum(w, s)}
<1>0. Weighs(v, S)
  BY DEF Weighs
<1>1. ASSUME NEW s \in SUBSET S, \A y \in s : s \ {y} \in G PROVE s \in G
  <2>1. CASE s = {}
    <3>1. Sum(v, s) = 0 /\ Sum(w, s) = 0
      BY <1>0, <2>1, SumFold
    <3> QED BY <3>1
  <2>2. CASE s # {}
    <3>1. PICK x \in s : TRUE
      BY <2>2
    <3>2. Weighs(w, s) /\ Weighs(v, s)
      BY <1>0, FS_Subset DEF Weighs
    <3>3. Sum(w, s) = w[x] + Sum(w, s \ {x})
      BY <3>2, SumAdds
    <3>4. Sum(v, s) = v[x] + Sum(v, s \ {x})
      BY <3>2, SumAdds
    <3> QED BY <1>1, <3>3, <3>4
  <2> QED BY <2>1, <2>2
<1> HIDE DEF G
<1>2. Grows(S, G)
  BY <1>1 DEF Grows
<1>3. SUBSET S \subseteq G
  BY <1>2, SetInduction DEF Weighs
<1> QED BY <1>3 DEF G

\* What a level's header says.

(* Weights are added up one by one, so what k shares of u and v have over    *)
(* each weight of w they have over the sum.                                  *)
LEMMA SumBounds ==
  ASSUME NEW S, NEW w, NEW v, NEW u, Weighs(w, S), Weighs(v, S), Weighs(u, S),
         NEW k \in Nat, \A x \in S : 100 * v[x] + k * u[x] <= 100 * w[x]
  PROVE  100 * Sum(v, S) + k * Sum(u, S) <= 100 * Sum(w, S)
<1> DEFINE G == {s \in SUBSET S : 100 * Sum(v, s) + k * Sum(u, s) <= 100 * Sum(w, s)}
<1>1. ASSUME NEW s \in SUBSET S, \A y \in s : s \ {y} \in G PROVE s \in G
  <2>1. CASE s = {}
    <3>1. Sum(w, s) = 0 /\ Sum(v, s) = 0 /\ Sum(u, s) = 0
      BY <2>1, SumFold
    <3>2. 100 * 0 + k * 0 <= 100 * 0
      OBVIOUS
    <3> QED BY <3>1, <3>2
  <2>2. CASE s # {}
    <3>1. PICK x \in s : TRUE
      BY <2>2
    <3>2. Weighs(w, s) /\ Weighs(v, s) /\ Weighs(u, s)
      BY FS_Subset DEF Weighs
    <3>3. Sum(w, s) = w[x] + Sum(w, s \ {x}) /\ Sum(w, s \ {x}) \in Nat /\ w[x] \in Nat
      BY <3>2, SumAdds
    <3>4. Sum(v, s) = v[x] + Sum(v, s \ {x}) /\ Sum(v, s \ {x}) \in Nat /\ v[x] \in Nat
      BY <3>2, SumAdds
    <3>5. Sum(u, s) = u[x] + Sum(u, s \ {x}) /\ Sum(u, s \ {x}) \in Nat /\ u[x] \in Nat
      BY <3>2, SumAdds
    <3>6. 100 * Sum(v, s \ {x}) + k * Sum(u, s \ {x}) <= 100 * Sum(w, s \ {x})
      BY <1>1
    <3>7. 100 * v[x] + k * u[x] <= 100 * w[x]
      OBVIOUS
    <3>8. ASSUME NEW a \in Nat, NEW b \in Nat, NEW c \in Nat,
                 NEW d \in Nat, NEW e \in Nat, NEW f \in Nat,
                 100 * a + k * b <= 100 * c, 100 * d + k * e <= 100 * f
          PROVE  100 * (a + d) + k * (b + e) <= 100 * (c + f)
      <4>1. k * (b + e) = k * b + k * e /\ k * b \in Nat /\ k * e \in Nat
        OBVIOUS
      <4> QED BY <3>8, <4>1
    <3>9. 100 * (v[x] + Sum(v, s \ {x})) + k * (u[x] + Sum(u, s \ {x}))
             <= 100 * (w[x] + Sum(w, s \ {x}))
      BY <3>3, <3>4, <3>5, <3>6, <3>7, <3>8
    <3> QED BY <3>3, <3>4, <3>5, <3>9
  <2> QED BY <2>1, <2>2
<1> HIDE DEF G
<1>2. Grows(S, G)
  BY <1>1 DEF Grows
<1>3. SUBSET S \subseteq G
  BY <1>2, SetInduction DEF Weighs
<1> QED BY <1>3 DEF G

-----------------------------------------------------------------------------
(* What the players own.                                                     *)

(* What a bid or an entry of a list holds of a good.                         *)
Value(b, good) == Amount(Held(b, b.qty), good)

Valued(S, good) == IsFiniteSet(S) /\ \A b \in S : Value(b, good) \in Nat

LEMMA StakesAre ==
  ASSUME NEW S, NEW good, NEW w, \A b \in S : w[b] = Value(b, good), Valued(S, good)
  PROVE  Weighs(w, S) /\ Stakes(S, good) = Sum(w, S) /\ Stakes(S, good) \in Nat
<1> DEFINE v == [b \in S |-> Amount(Held(b, b.qty), good)]
<1>1. Weighs(w, S)
  BY DEF Weighs, Valued
<1>2. \A b \in S : v[b] = w[b]
  BY DEF Value
<1>3. Stakes(S, good) = Sum(v, S)
  BY DEF Stakes
<1> HIDE DEF v
<1>4. Sum(v, S) = Sum(w, S)
  BY <1>1, <1>2, SumSame
<1>5. Sum(w, S) \in Nat
  BY <1>1, SumFold
<1> QED BY <1>1, <1>3, <1>4, <1>5

LEMMA StakesWithout ==
  ASSUME NEW S, NEW good, Valued(S, good), NEW b \in S
  PROVE  /\ Stakes(S, good) = Value(b, good) + Stakes(S \ {b}, good)
         /\ Valued(S \ {b}, good) /\ Stakes(S \ {b}, good) \in Nat
<1> DEFINE w == [c \in S |-> Value(c, good)]
           T == S \ {b}
<1>1. Valued(T, good)
  BY FS_RemoveElement DEF Valued
<1>2. (\A c \in S : w[c] = Value(c, good)) /\ (\A c \in T : w[c] = Value(c, good))
  OBVIOUS
<1>3. T \in SUBSET S /\ b \in S /\ w[b] = Value(b, good)
  OBVIOUS
<1> HIDE DEF w, T
<1>4. Weighs(w, S) /\ Stakes(S, good) = Sum(w, S)
  BY <1>2, StakesAre
<1>5. Stakes(T, good) = Sum(w, T) /\ Stakes(T, good) \in Nat
  BY <1>1, <1>2, StakesAre
<1>6. Sum(w, S) = w[b] + Sum(w, S \ {b})
  BY <1>4, SumAdds
<1> QED BY <1>1, <1>3, <1>4, <1>5, <1>6 DEF T

LEMMA StakesWith ==
  ASSUME NEW S, NEW good, Valued(S, good), NEW b, b \notin S, Value(b, good) \in Nat
  PROVE  /\ Stakes(S \cup {b}, good) = Stakes(S, good) + Value(b, good)
         /\ Stakes(S, good) \in Nat
<1> DEFINE T == S \cup {b}
<1>1. Valued(T, good)
  BY FS_AddElement DEF Valued
<1>2. b \in T /\ T \ {b} = S
  OBVIOUS
<1> HIDE DEF T
<1>3. Stakes(T, good) = Value(b, good) + Stakes(S, good) /\ Stakes(S, good) \in Nat
  <2>1. Stakes(T, good) = Value(b, good) + Stakes(T \ {b}, good) /\ Stakes(T \ {b}, good) \in Nat
    BY <1>1, <1>2, StakesWithout
  <2> QED BY <1>2, <2>1
<1> QED BY <1>3 DEF T

(* Some of the bids hold no more than all of them.                           *)
LEMMA StakesOfSome ==
  ASSUME NEW S, NEW good, Valued(S, good), NEW T \in SUBSET S
  PROVE  /\ Valued(T, good) /\ Stakes(T, good) \in Nat /\ Stakes(S, good) \in Nat
         /\ Stakes(T, good) <= Stakes(S, good)
<1> DEFINE w == [c \in S |-> Value(c, good)]
<1>1. Valued(T, good)
  BY FS_Subset DEF Valued
<1>2. (\A c \in S : w[c] = Value(c, good)) /\ (\A c \in T : w[c] = Value(c, good))
  OBVIOUS
<1> HIDE DEF w
<1>3. Weighs(w, S) /\ Stakes(S, good) = Sum(w, S) /\ Stakes(S, good) \in Nat
  BY <1>2, StakesAre
<1>4. Stakes(T, good) = Sum(w, T) /\ Stakes(T, good) \in Nat
  BY <1>1, <1>2, StakesAre
<1>5. Sum(w, S) = Sum(w, T) + Sum(w, S \ T) /\ Sum(w, S \ T) \in Nat
  <2>1. Weighs(w, S) /\ T \in SUBSET S
    BY <1>3
  <2> QED BY <2>1, SumSplits
<1> QED BY <1>1, <1>3, <1>4, <1>5

(* The bids m[b] hold together what is said of the bids b.                   *)
LEMMA StakesImage ==
  ASSUME NEW S, IsFiniteSet(S), NEW good, NEW m, NEW v,
         \A b, c \in S : m[b] = m[c] => b = c,
         \A b \in S : v[b] = Value(m[b], good) /\ v[b] \in Nat
  PROVE  Stakes({m[b] : b \in S}, good) = Sum(v, S)
<1> DEFINE T == {m[b] : b \in S}
           w == [x \in T |-> Value(x, good)]
<1>1. Valued(T, good)
  <2>1. IsFiniteSet(T)
    BY ImageFinite
  <2> QED BY <2>1 DEF Valued
<1>2. \A x \in T : w[x] = Value(x, good)
  OBVIOUS
<1>3. \A b \in S : w[m[b]] = v[b]
  OBVIOUS
<1> HIDE DEF w
<1>4. Weighs(v, S)
  BY DEF Weighs
<1>5. Stakes(T, good) = Sum(w, T)
  <2> HIDE DEF T
  <2> QED BY <1>1, <1>2, StakesAre
<1>6. Sum(v, S) = Sum(w, {m[b] : b \in S})
  BY <1>3, <1>4, SumMoves
<1> QED BY <1>5, <1>6

LEMMA StakesMapped ==
  ASSUME NEW S, NEW good, Valued(S, good), NEW m,
         \A b, c \in S : m[b] = m[c] => b = c,
         \A b \in S : Value(m[b], good) = Value(b, good)
  PROVE  Stakes({m[b] : b \in S}, good) = Stakes(S, good)
<1> DEFINE v == [b \in S |-> Value(b, good)]
<1>1. \A b \in S : v[b] = Value(b, good) /\ v[b] = Value(m[b], good) /\ v[b] \in Nat
  BY DEF Valued
<1> HIDE DEF v
<1>2. Stakes(S, good) = Sum(v, S)
  BY <1>1, StakesAre
<1>3. Stakes({m[b] : b \in S}, good) = Sum(v, S)
  BY <1>1, StakesImage DEF Valued
<1> QED BY <1>2, <1>3

(* Every bid of the market holds a natural number of each good.              *)
LEMMA BidsValued ==
  ASSUME NEW S \in SUBSET Bid, IsFiniteSet(S), NEW good
  PROVE  Valued(S, good)
<1> SUFFICES ASSUME NEW b \in S PROVE Value(b, good) \in Nat
  BY DEF Valued
<1>1. /\ b.act \in Action /\ b.res \in Resource /\ b.price \in Price
      /\ b.qty \in Nat
  BY MarketConstants DEF Bid
<1>2. Held(b, b.qty).amount \in Nat
  BY <1>1, HeldType
<1> QED BY <1>2 DEF Value, Amount

LEMMA LineKeepsStakes ==
  ASSUME NEW S \in SUBSET Bid, IsFiniteSet(S), InOrder(S), NEW good
  PROVE  Stakes(Line(S), good) = Stakes(S, good)
<1> DEFINE before(b) == Cardinality({c \in S : SameLevel(b, c) /\ c.pos < b.pos})
           m == [b \in S |-> [b EXCEPT !.pos = before(b)]]
<1>1. Line(S) = {m[b] : b \in S}
  BY DEF Line
<1>2. \A b \in S : /\ m[b].id = b.id /\ m[b].qty = b.qty /\ m[b].act = b.act
                   /\ m[b].res = b.res /\ m[b].price = b.price
  BY DEF Bid
<1> HIDE DEF m
<1>3. \A b, c \in S : m[b] = m[c] => b = c
  <2> TAKE b, c \in S
  <2>1. m[b] = m[c] => b.id = c.id
    BY <1>2
  <2> QED BY <2>1 DEF InOrder
<1>4. \A b \in S : Value(m[b], good) = Value(b, good)
  BY <1>2 DEF Value, Held
<1>5. Valued(S, good)
  BY BidsValued
<1> QED BY <1>1, <1>3, <1>4, <1>5, StakesMapped

(* A bid stands for what it holds, in one part or in two.                    *)
LEMMA HeldAlike ==
  ASSUME NEW x, NEW b, Offers(x, b), NEW n
  PROVE  Held(x, n) = Held(b, n)
BY DEF Offers, Held

LEMMA HeldSplits ==
  ASSUME NEW e, e.act \in Action, e.res \in Resource, e.price \in Price,
         NEW i \in Nat, NEW j \in Nat, NEW good
  PROVE  /\ Amount(Held(e, i + j), good) = Amount(Held(e, i), good) + Amount(Held(e, j), good)
         /\ Amount(Held(e, i), good) \in Nat /\ Amount(Held(e, j), good) \in Nat
         /\ Amount(Held(e, 0), good) = 0
<1> DEFINE p == e.price
<1>1. p \in Nat
  BY MarketConstants DEF Price
<1> HIDE DEF p
<1>2. (i + j) * p = i * p + j * p /\ i * p \in Nat /\ j * p \in Nat /\ 0 * p = 0
  BY <1>1
<1> QED BY <1>2 DEF p, Held, Amount

-----------------------------------------------------------------------------
(* The reserves of all players.                                              *)

LEMMA ReservesChange ==
  ASSUME NEW P \in [User -> Purse], NEW R \in [User -> Purse], NEW u \in User,
         \A x \in User : x # u => R[x] = P[x], NEW good \in Good
  PROVE  /\ Reserves(R, good) + P[u][good] = Reserves(P, good) + R[u][good]
         /\ Reserves(R, good) \in Nat /\ Reserves(P, good) \in Nat
         /\ P[u][good] \in Nat /\ R[u][good] \in Nat
<1> DEFINE w == [x \in User |-> P[x][good]]
           v == [x \in User |-> R[x][good]]
<1>1. \A x \in User : w[x] \in Nat /\ v[x] \in Nat
  BY DEF Purse
<1>2. w[u] = P[u][good] /\ v[u] = R[u][good] /\ \A x \in User \ {u} : v[x] = w[x]
  OBVIOUS
<1>3. Reserves(P, good) = Sum(w, User) /\ Reserves(R, good) = Sum(v, User)
  BY DEF Reserves
<1> HIDE DEF w, v
<1>4. Weighs(w, User) /\ Weighs(v, User)
  BY <1>1, UsersFinite DEF Weighs
<1>5. Weighs(w, User \ {u})
  BY <1>4, FS_RemoveElement DEF Weighs
<1>6. Sum(v, User \ {u}) = Sum(w, User \ {u})
  BY <1>2, <1>5, SumSame
<1>7. Sum(w, User) = w[u] + Sum(w, User \ {u}) /\ Sum(w, User \ {u}) \in Nat
  BY <1>4, SumAdds
<1>8. Sum(v, User) = v[u] + Sum(v, User \ {u})
  BY <1>4, SumAdds
<1> QED BY <1>1, <1>2, <1>3, <1>6, <1>7, <1>8

(* One player gets or pays an amount of one good.                            *)
LEMMA ReservesPaid ==
  ASSUME NEW P \in [User -> Purse], NEW u \in User, NEW h, h.good \in Good, h.amount \in Int,
         NEW R \in [User -> Purse], R[u] = Plus(P[u], h.good, h.amount),
         \A x \in User : x # u => R[x] = P[x], NEW good \in Good
  PROVE  /\ Reserves(R, good) = Reserves(P, good) + Amount(h, good)
         /\ Reserves(R, good) \in Nat /\ Reserves(P, good) \in Nat /\ Amount(h, good) \in Int
<1>1. P[u] \in Purse
  OBVIOUS
<1>2. R[u][good] = P[u][good] + Amount(h, good) /\ Amount(h, good) \in Int
  BY <1>1 DEF Plus, Amount, Purse
<1>3. /\ Reserves(R, good) + P[u][good] = Reserves(P, good) + R[u][good]
      /\ Reserves(R, good) \in Nat /\ Reserves(P, good) \in Nat
      /\ P[u][good] \in Nat /\ R[u][good] \in Nat
  BY ReservesChange
<1> QED BY <1>2, <1>3

LEMMA PursesType ==
  /\ TypeOK => Purses \in [User -> Purse]
  /\ TypeOK' => Purses' \in [User -> Purse]
<1>1. ASSUME TypeOK PROVE Purses \in [User -> Purse]
  BY <1>1 DEF TypeOK, Purses, Idle, Request
<1>2. ASSUME TypeOK' PROVE Purses' \in [User -> Purse]
  BY <1>2 DEF TypeOK, Purses, Idle, Request
<1> QED BY <1>1, <1>2

(* Before the daemon serves a request and after it, the files have it all.   *)
LEMMA PursesIdle ==
  /\ TypeOK /\ Idle => Purses = wallet
  /\ TypeOK' /\ Idle' => Purses' = wallet'
<1>1. TypeOK /\ Idle => Purses = wallet
  BY DEF TypeOK, Purses
<1>2. TypeOK' /\ Idle' => Purses' = wallet'
  BY DEF TypeOK, Purses
<1> QED BY <1>1, <1>2

-----------------------------------------------------------------------------
(* What each operation does to the total of a good.                          *)

LEMMA Busy ==
  ASSUME request \in Request
  PROVE  ~Idle
BY NoRequestIsNone DEF Idle

LEMMA BusyNext ==
  ASSUME request' \in Request
  PROVE  ~Idle'
BY NoRequestIsNone DEF Idle

LEMMA MarketValued ==
  ASSUME Book, NEW good
  PROVE  Valued(market, good) /\ Stakes(market, good) \in Nat
<1>1. Valued(market, good)
  BY BidsValued DEF Book, Sound, TypeOK
<1> QED BY <1>1, StakesOfSome

(* The stake goes from the player's reserves into the request.               *)
LEMMA PlaceConserves ==
  ASSUME Book, NEW u \in User, NEW act \in Action, NEW r \in Resource,
         NEW p \in Price, NEW q \in 1 .. MaxQty, Place(u, act, r, p, q), NEW good \in Good
  PROVE  Total(good)' = Total(good) /\ Total(good) \in Nat
<1> DEFINE level == [act |-> act, res |-> r, price |-> p]
           stake == Held(level, q)
           paid == [good |-> stake.good, amount |-> -stake.amount]
<1>1. stake.good \in Good /\ stake.amount \in Nat
  <2>1. q \in Nat /\ level.act \in Action /\ level.res \in Resource /\ level.price \in Price
    BY MarketConstants
  <2> HIDE DEF level
  <2> QED BY <2>1, HeldType
<1>2. /\ Idle /\ UNCHANGED <<market, list, wallet, member, status>>
      /\ request' = [user |-> u, act |-> act, res |-> r, price |-> p, left |-> q,
                     me |-> Plus(wallet[u], stake.good, -stake.amount)]
  BY DEF Place
<1>3. Held(request', q) = stake
  BY <1>2 DEF Held
<1>4. Sound' /\ request' \in Request /\ ~Idle'
  BY PlaceSound, BusyNext DEF Book
<1>5. Purses = wallet /\ wallet \in [User -> Purse] /\ Purses' \in [User -> Purse]
  <2>1. Purses = wallet /\ wallet \in [User -> Purse]
    BY <1>2, PursesIdle DEF Book, Sound, TypeOK
  <2>2. TypeOK'
    BY <1>4 DEF Sound
  <2> QED BY <2>1, <2>2, PursesType
<1>6. Purses'[u] = Plus(wallet[u], stake.good, -stake.amount) /\ \A x \in User : x # u => Purses'[x] = wallet[x]
  BY <1>2, <1>4 DEF Purses
<1>7. Total(good) = Reserves(wallet, good) + Stakes(market, good)
  <2>1. Stakes(market, good) \in Nat
    BY MarketValued
  <2>2. Reserves(wallet, good) \in Nat
    BY <1>5, ReservesChange
  <2> QED BY <1>2, <1>5, <2>1, <2>2 DEF Total
<1>8. Total(good)' = Reserves(Purses', good) + Stakes(market, good) + Amount(stake, good)
  BY <1>2, <1>3, <1>4 DEF Total
<1> HIDE DEF stake
<1>9. paid.good \in Good /\ paid.amount \in Int /\ Amount(paid, good) = -Amount(stake, good)
         /\ Amount(stake, good) \in Nat
  BY <1>1 DEF Amount
<1>10. /\ Purses'[u] = Plus(wallet[u], paid.good, paid.amount)
  BY <1>6
<1> HIDE DEF paid
<1>11. /\ Reserves(Purses', good) = Reserves(wallet, good) + Amount(paid, good)
       /\ Reserves(Purses', good) \in Nat /\ Reserves(wallet, good) \in Nat
  <2> DEFINE R == Purses'
  <2>1. R \in [User -> Purse] /\ R[u] = Plus(wallet[u], paid.good, paid.amount)
        /\ \A x \in User : x # u => R[x] = wallet[x]
    BY <1>5, <1>6, <1>10
  <2> HIDE DEF R
  <2>2. /\ Reserves(R, good) = Reserves(wallet, good) + Amount(paid, good)
        /\ Reserves(R, good) \in Nat /\ Reserves(wallet, good) \in Nat
    BY <1>5, <1>9, <2>1, ReservesPaid
  <2> QED BY <2>2 DEF R
<1>12. Stakes(market, good) \in Nat
  BY MarketValued
<1> QED BY <1>7, <1>8, <1>9, <1>11, <1>12

(* A bid of which n are taken holds so much less, or is gone.                *)
LEMMA TakenPays ==
  ASSUME Book, NEW b \in market, NEW n \in 1 .. b.qty, Taken(b, n), NEW good
  PROVE  /\ Stakes(market', good) + Amount(Held(b, n), good) = Stakes(market, good)
         /\ Stakes(market', good) \in Nat /\ Amount(Held(b, n), good) \in Nat
<1> DEFINE rest == market \ {b}
<1>1. /\ b \in Bid /\ b.act \in Action /\ b.res \in Resource /\ b.price \in Price
      /\ b.qty \in Nat /\ n \in Nat /\ n <= b.qty
  BY MarketConstants DEF Book, Sound, TypeOK, Bid
<1>2. rest \in SUBSET Bid /\ IsFiniteSet(rest) /\ InOrder(rest)
  BY FS_RemoveElement DEF Book, Sound, TypeOK, InOrder
<1>3. /\ Stakes(market, good) = Value(b, good) + Stakes(rest, good)
      /\ Valued(rest, good) /\ Stakes(rest, good) \in Nat
  BY MarketValued, StakesWithout
<1> HIDE DEF rest
<1>4. CASE ~(n < b.qty)
  <2>1. n = b.qty
    BY <1>1, <1>4
  <2>2. market' = Line(rest)
    BY <1>4 DEF Taken, rest
  <2>3. Stakes(market', good) = Stakes(rest, good)
    BY <1>2, <2>2, LineKeepsStakes
  <2>4. Value(b, good) = Amount(Held(b, n), good) /\ Value(b, good) \in Nat
    BY <2>1, MarketValued DEF Value, Valued
  <2> QED BY <1>3, <2>3, <2>4
<1>5. CASE n < b.qty
  <2> DEFINE less == [b EXCEPT !.qty = @ - n]
             k == b.qty - n
  <2>1. less.id = b.id /\ Offers(less, b) /\ less.qty = k
    BY <1>1 DEF Bid, Offers
  <2>2. market' = rest \cup {less}
    BY <1>5 DEF Taken, rest
  <2>3. k \in Nat /\ b.qty = k + n
    BY <1>1, <1>5
  <2> HIDE DEF less, k
  <2>4. less \notin rest
    BY <2>1, EntriesMatch DEF Book, InOrder, rest
  <2>5. Value(less, good) = Amount(Held(b, k), good)
    BY <2>1, HeldAlike DEF Value
  <2>6. /\ Value(b, good) = Amount(Held(b, k), good) + Amount(Held(b, n), good)
        /\ Amount(Held(b, k), good) \in Nat /\ Amount(Held(b, n), good) \in Nat
    BY <1>1, <2>3, HeldSplits DEF Value
  <2>7. Stakes(rest \cup {less}, good) = Stakes(rest, good) + Value(less, good)
    BY <1>3, <2>4, <2>5, <2>6, StakesWith
  <2> QED BY <1>3, <2>2, <2>5, <2>6, <2>7
<1> QED BY <1>4, <1>5

(* Who is served and who owns the bid are paid what they traded, be they one *)
(* player or two.                                                            *)
LEMMA TradePays ==
  ASSUME Book, ~Idle, NEW b \in Matches, NEW n \in 1 .. b.qty, n <= request.left,
         Trades(b, n), NEW good \in Good
  PROVE  /\ Reserves(Purses', good) = Reserves(Purses, good)
                 + Amount(Goods(b, n), good) + Amount(Pay(b, n), good)
         /\ Reserves(Purses', good) \in Nat /\ Reserves(Purses, good) \in Nat
         /\ Amount(Goods(b, n), good) \in Int /\ Amount(Pay(b, n), good) \in Int
<1> DEFINE g == Goods(b, n)
           y == Pay(b, n)
           rq == request.user
           P == Purses
           M == [P EXCEPT ![rq] = Plus(@, g.good, g.amount)]
           R == Purses'
<1>1. request \in Request /\ rq \in User /\ request.me \in Purse
  BY DEF Book, Sound, TypeOK, Idle, Request
<1>2. Sound' /\ request' \in Request /\ ~Idle'
  BY TradesSound, BusyNext DEF Book
<1>3. P \in [User -> Purse] /\ R \in [User -> Purse]
  BY <1>2, PursesType DEF Book, Sound
<1>4. /\ b \in Bid /\ b.user \in User /\ b.act \in Action /\ b.price \in Price
      /\ b.res \in Resource /\ n \in Nat
  BY MarketConstants DEF Matches, Book, Sound, TypeOK, Bid
<1>5. n * b.price \in Nat
  BY <1>4, HeldType
<1>6. g.good \in Good /\ g.amount \in Nat /\ y.good \in Good /\ y.amount \in Nat
  BY <1>1, <1>4, <1>5 DEF Goods, Pay, Good, Request
<1>7. P[rq] = request.me /\ \A x \in User : x # rq => P[x] = wallet[x]
  BY <1>1 DEF Purses, Idle
<1>8. /\ request'.user = rq
      /\ request'.me = IF b.user = rq
                         THEN Plus(Plus(request.me, g.good, g.amount), y.good, y.amount)
                         ELSE Plus(request.me, g.good, g.amount)
      /\ wallet' = IF b.user = rq THEN wallet
                   ELSE [wallet EXCEPT ![b.user] = Plus(@, y.good, y.amount)]
  BY <1>1 DEF Trades, Request
<1>9. R[rq] = request'.me /\ \A x \in User : x # rq => R[x] = wallet'[x]
  BY <1>1, <1>2, <1>8 DEF Purses
<1> HIDE DEF g, y, rq, P, R
<1>10. M \in [User -> Purse] /\ M[rq] = Plus(P[rq], g.good, g.amount) /\ \A x \in User : x # rq => M[x] = P[x]
  <2>1. P[rq] \in Purse
    BY <1>1, <1>3
  <2>2. Plus(P[rq], g.good, g.amount) \in Purse
    BY <1>6, <2>1 DEF Plus, Purse
  <2> QED BY <1>1, <1>3, <2>2
<1>11. wallet \in [User -> Purse]
  BY DEF Book, Sound, TypeOK
<1>12. R[b.user] = Plus(M[b.user], y.good, y.amount)
  <2>1. CASE b.user = rq
    BY <1>7, <1>8, <1>9, <1>10, <2>1
  <2>2. CASE b.user # rq
    BY <1>4, <1>7, <1>8, <1>9, <1>10, <1>11, <2>2
  <2> QED BY <2>1, <2>2
<1>13. \A x \in User : x # b.user => R[x] = M[x]
  <2> TAKE x \in User
  <2>1. CASE x = rq
    BY <1>7, <1>8, <1>9, <1>10, <2>1
  <2>2. CASE x # rq
    BY <1>4, <1>7, <1>8, <1>9, <1>10, <1>11, <2>2
  <2> QED BY <2>1, <2>2
<1> HIDE DEF M
<1>14. Reserves(M, good) = Reserves(P, good) + Amount(g, good) /\ Reserves(P, good) \in Nat
       /\ Amount(g, good) \in Int
  BY <1>1, <1>3, <1>6, <1>10, ReservesPaid
<1>15. Reserves(R, good) = Reserves(M, good) + Amount(y, good) /\ Reserves(R, good) \in Nat
       /\ Amount(y, good) \in Int
  BY <1>3, <1>4, <1>6, <1>10, <1>12, <1>13, ReservesPaid
<1> QED BY <1>14, <1>15 DEF g, y, P, R

LEMMA FillConserves ==
  ASSUME Book, Fill, NEW good \in Good
  PROVE  /\ Total(good) \in Nat /\ Total(good)' \in Nat
         /\ good \in Resource \/ request.act = "sell" => Total(good)' = Total(good)
         /\ Total(good)' <= Total(good)
<1>1. PICK b \in Matches :
        Trades(b, IF request.left < b.qty THEN request.left ELSE b.qty)
  BY DEF Fill
<1>2. /\ request \in Request /\ request.left \in Nat /\ request.left > 0 /\ ~Idle
      /\ request.price \in Price /\ request.act \in Action /\ request.res \in Resource
  BY MarketConstants DEF Fill, Idle, Book, Sound, TypeOK, Request
<1>3. /\ b \in market /\ b \in Bid /\ b.qty \in Nat /\ b.qty > 0 /\ b.price \in Price
      /\ b.act \in Action /\ b.res = request.res /\ b.act # request.act
      /\ request.act = "buy" => b.price <= request.price
  BY MarketConstants DEF Matches, Book, Sound, TypeOK, Bid
<1> DEFINE n == IF request.left < b.qty THEN request.left ELSE b.qty
<1>4. n \in 1 .. b.qty /\ n <= request.left /\ Trades(b, n) /\ n \in Nat
  BY <1>1, <1>2, <1>3
<1> HIDE DEF n
<1> DEFINE k == request.left - n
<1>5. k \in Nat /\ request.left = k + n
  BY <1>2, <1>4
<1>6. Sound' /\ request' \in Request /\ ~Idle'
  BY <1>2, <1>4, TradesSound, BusyNext DEF Book
<1>7. request'.left = k /\ Offers(request', request)
  BY <1>2, <1>4 DEF Trades, Request, Offers
<1> HIDE DEF k
<1>8. Amount(Held(request', request'.left), good) = Amount(Held(request, k), good)
  BY <1>7, HeldAlike
<1>9. /\ Amount(Held(request, request.left), good)
           = Amount(Held(request, k), good) + Amount(Held(request, n), good)
      /\ Amount(Held(request, k), good) \in Nat /\ Amount(Held(request, n), good) \in Nat
  BY <1>2, <1>4, <1>5, HeldSplits
<1>10. /\ Stakes(market', good) + Amount(Held(b, n), good) = Stakes(market, good)
       /\ Stakes(market', good) \in Nat /\ Amount(Held(b, n), good) \in Nat
  <2>1. Taken(b, n)
    BY <1>4 DEF Trades
  <2> QED BY <1>3, <1>4, <2>1, TakenPays
<1>11. /\ Reserves(Purses', good) = Reserves(Purses, good)
              + Amount(Goods(b, n), good) + Amount(Pay(b, n), good)
       /\ Reserves(Purses', good) \in Nat /\ Reserves(Purses, good) \in Nat
       /\ Amount(Goods(b, n), good) \in Int /\ Amount(Pay(b, n), good) \in Int
  BY <1>2, <1>4, TradePays
<1>12. Total(good) = Reserves(Purses, good) + Stakes(market, good) + Amount(Held(request, request.left), good)
  BY <1>2 DEF Total
<1>13. Total(good)' = Reserves(Purses', good) + Stakes(market', good) + Amount(Held(request, k), good)
  BY <1>6, <1>8 DEF Total
<1> DEFINE in == Amount(Goods(b, n), good) + Amount(Pay(b, n), good)
           out == Amount(Held(b, n), good) + Amount(Held(request, n), good)
<1>14. in \in Int /\ out \in Int /\ in <= out /\ (good \in Resource \/ request.act = "sell" => in = out)
  <2>1. n * b.price \in Nat /\ n * request.price \in Nat
    BY <1>2, <1>3, <1>4, MarketConstants DEF Price
  <2>2. request.act = "buy" => n * b.price <= n * request.price
    <3>1. b.price \in Nat /\ request.price \in Nat
      BY <1>2, <1>3, MarketConstants DEF Price
    <3>2. \A i, j \in Nat : i <= j => n * i <= n * j
      BY <1>4
    <3> QED BY <1>3, <3>1, <3>2
  <2> DEFINE at(g, a) == [good |-> g, amount |-> a]
  <2>3. \A g, a : Amount(at(g, a), good) = IF g = good THEN a ELSE 0
    BY DEF Amount
  <2> HIDE DEF at
  <2>4. CASE request.act = "buy"
    <3>1. b.act # "buy"
      BY <1>3, <2>4
    <3>2. /\ Goods(b, n) = at(request.res, n) /\ Held(b, n) = at(request.res, n)
          /\ Pay(b, n) = at(Energy, n * b.price)
          /\ Held(request, n) = at(Energy, n * request.price)
      BY <1>3, <2>4, <3>1 DEF Goods, Pay, Held, at
    <3>3. request.res # Energy /\ (good \in Resource => good # Energy)
      BY <1>2, MarketConstants
    <3>4. CASE good = Energy
      BY <1>4, <2>1, <2>2, <2>3, <2>4, <3>2, <3>3, <3>4
    <3>5. CASE good # Energy
      BY <1>4, <2>3, <3>2, <3>5
    <3> QED BY <3>4, <3>5
  <2>5. CASE request.act = "sell"
    <3>1. b.act = "buy"
      BY <1>3, <2>5 DEF Action
    <3>2. /\ Goods(b, n) = at(Energy, n * b.price) /\ Held(b, n) = at(Energy, n * b.price)
          /\ Pay(b, n) = at(request.res, n) /\ Held(request, n) = at(request.res, n)
      BY <1>3, <2>5, <3>1 DEF Goods, Pay, Held, at
    <3> QED BY <1>4, <2>1, <2>3, <3>2
  <2> QED BY <1>2, <2>4, <2>5 DEF Action
<1>15. Stakes(market, good) \in Nat
  BY MarketValued
<1> QED BY <1>9, <1>10, <1>11, <1>12, <1>13, <1>14, <1>15

(* The files take over what the request had.                                 *)
LEMMA RestConserves ==
  ASSUME Book, Rest, NEW good \in Good
  PROVE  Total(good)' = Total(good) /\ Total(good) \in Nat
<1>1. /\ request \in Request /\ request.me \in Purse /\ request.user \in User
      /\ request.left \in 0 .. MaxQty /\ request.left \in Nat /\ request.price \in Price
      /\ request.act \in Action /\ request.res \in Resource /\ ~Idle
  BY MarketConstants DEF Book, Sound, TypeOK, Rest, Idle, Request
<1>2. Sound' /\ Idle' /\ wallet' = [wallet EXCEPT ![request.user] = request.me]
  BY RestSound DEF Book, Rest, Idle
<1>3. Purses' = wallet' /\ Purses \in [User -> Purse]
  BY <1>2, PursesIdle, PursesType DEF Sound, Book
<1>4. Purses' = Purses
  BY <1>1, <1>2, <1>3 DEF Purses, Book, Sound, TypeOK
<1>5. /\ Stakes(market', good) = Stakes(market, good) + Amount(Held(request, request.left), good)
      /\ Amount(Held(request, request.left), good) \in Nat
  <2>1. /\ Amount(Held(request, request.left), good) \in Nat
        /\ Amount(Held(request, 0), good) = 0
    BY <1>1, HeldSplits
  <2>2. Valued(market, good) /\ Stakes(market, good) \in Nat
    BY MarketValued
  <2>3. CASE request.left = 0
    <3>1. market' = market
      BY <2>3 DEF Rest
    <3> QED BY <2>1, <2>2, <2>3, <3>1
  <2>4. CASE request.left # 0
    <3>1. PICK id \in BidId \ IdsOf(market) : AddRest(id)
      BY <2>4 DEF Rest
    <3> DEFINE e == [id |-> id, act |-> request.act, res |-> request.res,
                     price |-> request.price, qty |-> request.left]
               b == [id |-> id, user |-> request.user, act |-> request.act,
                     res |-> request.res, price |-> request.price, qty |-> request.left,
                     pos |-> Cardinality({c \in market : SameLevel(c, e)})]
    <3>2. market' = market \cup {b}
      BY <3>1 DEF AddRest
    <3>3. Offers(b, request) /\ b.qty = request.left /\ b.id = id
      BY DEF Offers
    <3> HIDE DEF b
    <3>4. b \notin market
      BY <3>1, <3>3 DEF IdsOf
    <3>5. Value(b, good) = Amount(Held(request, request.left), good)
      BY <3>3, HeldAlike DEF Value
    <3> QED BY <2>1, <2>2, <3>2, <3>4, <3>5, StakesWith
  <2> QED BY <2>3, <2>4
<1>6. Total(good) = Reserves(Purses, good) + Stakes(market, good) + Amount(Held(request, request.left), good)
  BY <1>1 DEF Total
<1>7. Total(good)' = Reserves(Purses', good) + Stakes(market', good) + 0
  BY <1>2 DEF Total
<1>8. Reserves(Purses, good) \in Nat /\ Stakes(market, good) \in Nat
  BY <1>1, <1>3, ReservesChange, MarketValued
<1> QED BY <1>4, <1>5, <1>6, <1>7, <1>8

(* Between requests all is in the files.                                     *)
LEMMA TotalIdle ==
  ASSUME Book, Sound', Idle, Idle', NEW good \in Good
  PROVE  /\ Total(good) = Reserves(wallet, good) + Stakes(market, good)
         /\ Total(good)' = Reserves(wallet', good) + Stakes(market', good)
         /\ Reserves(wallet, good) \in Nat /\ Reserves(wallet', good) \in Nat
         /\ Stakes(market, good) \in Nat /\ Stakes(market', good) \in Nat
         /\ wallet \in [User -> Purse] /\ wallet' \in [User -> Purse]
<1>1. Purses = wallet /\ Purses' = wallet' /\ wallet \in [User -> Purse] /\ wallet' \in [User -> Purse]
  <2>1. TypeOK /\ TypeOK'
    BY DEF Book, Sound
  <2>2. Purses = wallet /\ Purses' = wallet'
    BY <2>1, PursesIdle
  <2> QED BY <2>1, <2>2 DEF TypeOK
<1>2. Stakes(market, good) \in Nat /\ Stakes(market', good) \in Nat
  <2>1. market' \in SUBSET Bid /\ IsFiniteSet(market')
    BY DEF Sound, TypeOK
  <2>2. Valued(market', good)
    BY <2>1, BidsValued
  <2> QED BY <2>2, StakesOfSome, MarketValued
<1>3. Reserves(wallet, good) \in Nat /\ Reserves(wallet', good) \in Nat
  <2>1. \A P \in [User -> Purse] : Reserves(P, good) \in Nat
    <3> TAKE P \in [User -> Purse]
    <3> DEFINE w == [u \in User |-> P[u][good]]
    <3>1. \A u \in User : w[u] \in Nat
      BY DEF Purse
    <3>2. Reserves(P, good) = Sum(w, User)
      BY DEF Reserves
    <3> HIDE DEF w
    <3>3. Weighs(w, User)
      BY <3>1, UsersFinite DEF Weighs
    <3> QED BY <3>2, <3>3, SumFold
  <2> QED BY <1>1, <2>1
<1>4. Total(good) = Reserves(wallet, good) + Stakes(market, good) + 0
  BY <1>1 DEF Total
<1>5. Total(good)' = Reserves(wallet', good) + Stakes(market', good) + 0
  BY <1>1 DEF Total
<1> QED BY <1>1, <1>2, <1>3, <1>4, <1>5

LEMMA WithdrawConserves ==
  ASSUME Book, NEW u \in User, Withdraw(u), NEW good \in Good
  PROVE  Total(good)' = Total(good) /\ Total(good) \in Nat
<1>1. PICK e \in list[u] :
        LET back == Held(e, e.qty)
        IN  /\ wallet' = [wallet EXCEPT ![u] = Plus(@, back.good, back.amount)]
            /\ market' = Line({b \in market : b.id # e.id})
  BY DEF Withdraw
<1>2. PICK b \in market : e = EntryOf(b)
  BY EntriesMatch
<1> DEFINE rest == market \ {b}
           back == Held(b, b.qty)
<1>3. b \in Bid /\ Held(e, e.qty) = back /\ {c \in market : c.id # e.id} = rest
  <2>1. Held(e, e.qty) = back
    BY <1>2 DEF EntryOf, Held
  <2> QED BY <1>2, <2>1, EntriesMatch DEF Book, Sound, TypeOK
<1>4. wallet' = [wallet EXCEPT ![u] = Plus(@, back.good, back.amount)] /\ market' = Line(rest)
  BY <1>1, <1>3
<1>5. back.good \in Good /\ back.amount \in Nat
  <2>1. b.act \in Action /\ b.res \in Resource /\ b.price \in Price /\ b.qty \in Nat
    BY <1>3, MarketConstants DEF Bid
  <2> QED BY <2>1, HeldType
<1>6. Value(b, good) = Amount(back, good)
  BY DEF Value
<1>7. rest \in SUBSET Bid /\ IsFiniteSet(rest) /\ InOrder(rest)
  BY FS_RemoveElement DEF Book, Sound, TypeOK, InOrder
<1>8. Stakes(market, good) = Value(b, good) + Stakes(rest, good) /\ Stakes(rest, good) \in Nat
  BY MarketValued, StakesWithout
<1> HIDE DEF rest, back
<1>9. Stakes(market', good) = Stakes(rest, good)
  BY <1>4, <1>7, LineKeepsStakes
<1>10. Sound' /\ Idle /\ Idle'
  <2>1. Idle /\ request' = request
    BY DEF Withdraw
  <2> QED BY <2>1, WithdrawSound DEF Book, Idle
<1>11. wallet \in [User -> Purse] /\ wallet' \in [User -> Purse]
  BY <1>10 DEF Book, Sound, TypeOK
<1>12. wallet'[u] = Plus(wallet[u], back.good, back.amount) /\ \A x \in User : x # u => wallet'[x] = wallet[x]
  BY <1>4, <1>11
<1>13. Reserves(wallet', good) = Reserves(wallet, good) + Amount(back, good)
       /\ Reserves(wallet, good) \in Nat /\ Amount(back, good) \in Int
  BY <1>5, <1>11, <1>12, ReservesPaid
<1>14. Total(good) = Reserves(wallet, good) + Stakes(market, good)
       /\ Total(good)' = Reserves(wallet', good) + Stakes(market', good)
       /\ Stakes(market, good) \in Nat
  BY <1>10, TotalIdle
<1> QED BY <1>6, <1>8, <1>9, <1>13, <1>14

-----------------------------------------------------------------------------
(* Shares of bids.                                                           *)

(* A share is rounded up, so a bid loses at least what the share says.       *)
LEMMA LeftShare ==
  ASSUME NEW q \in Nat, NEW l \in 0 .. 1000, NEW k \in Nat, l >= 10 * k
  PROVE  /\ Remains(q, l) \in Int /\ Remains(q, l) <= q
         /\ 100 * Remains(q, l) + k * q <= 100 * q
<1> DEFINE n == q * l
<1>1. n \in Nat
  OBVIOUS
<1>2. n >= 10 * (k * q)
  <2>1. \A i, j \in Nat : i >= j => q * i >= q * j
    OBVIOUS
  <2>2. q * l >= q * (10 * k) /\ q * (10 * k) = 10 * (k * q)
    BY <2>1
  <2> QED BY <2>2
<1> HIDE DEF n
<1>3. (n + 1000 - 1) \div 1000 \in Nat /\ 1000 * ((n + 1000 - 1) \div 1000) >= n
  BY <1>1
<1>4. Remains(q, l) = q - ((n + 1000 - 1) \div 1000)
  BY DEF Remains, Ceil, n
<1> DEFINE c == (n + 1000 - 1) \div 1000
           d == k * q
<1>5. c \in Nat /\ d \in Nat /\ 1000 * c >= 10 * d
  BY <1>1, <1>2, <1>3
<1>6. Remains(q, l) = q - c
  BY <1>4
<1> HIDE DEF c, d
<1>7. q - c \in Int /\ q - c <= q /\ 100 * (q - c) + d <= 100 * q
  BY <1>5
<1> QED BY <1>6, <1>7 DEF d

(* What a bid loses, per mille.                                              *)
LossOf(b, loss) == loss[b.act, b.res]

LEMMA LossIs ==
  ASSUME NEW b \in Bid, NEW loss \in Loss
  PROVE  LossOf(b, loss) \in 0 .. 1000 /\ Left(b, loss) = Remains(b.qty, LossOf(b, loss))
<1>1. <<b.act, b.res>> \in Action \X Resource
  BY DEF Bid
<1>2. loss[<<b.act, b.res>>] \in 0 .. 1000
  BY <1>1 DEF Loss
<1>3. loss[<<b.act, b.res>>] = LossOf(b, loss)
  BY Zenon DEF LossOf
<1>4. Left(b, loss) = Remains(b.qty, LossOf(b, loss))
  BY Zenon DEF LossOf, Left
<1> QED BY <1>2, <1>3, <1>4

(* What is left of a bid's worth, and the share of it that is gone.          *)
LEMMA ValueShare ==
  ASSUME NEW b \in Bid, NEW good, NEW loss \in Loss, NEW k \in 0 .. 100,
         Held(b, b.qty).good = good => LossOf(b, loss) >= 10 * k
  PROVE  LET v == IF Left(b, loss) > 0 THEN Amount(Held(b, Left(b, loss)), good) ELSE 0
         IN  v \in Nat /\ 100 * v + k * Value(b, good) <= 100 * Value(b, good)
<1> DEFINE L == Left(b, loss)
           l == LossOf(b, loss)
           v == IF L > 0 THEN Amount(Held(b, L), good) ELSE 0
<1>1. /\ b.act \in Action /\ b.res \in Resource /\ b.price \in Nat /\ b.qty \in Nat
      /\ l \in 0 .. 1000
  BY LossIs, MarketConstants DEF Bid, Price
<1>2. L = Remains(b.qty, l)
  BY LossIs
<1>3. Value(b, good) \in Nat
  <2>1. {b} \in SUBSET Bid /\ IsFiniteSet({b})
    BY FS_Singleton
  <2> QED BY <2>1, BidsValued DEF Valued
<1>4. CASE Held(b, b.qty).good # good
  <2>1. Value(b, good) = 0 /\ v = 0
    BY <1>4 DEF Value, Amount, Held
  <2>2. 100 * 0 + k * 0 <= 100 * 0
    OBVIOUS
  <2> QED BY <2>1, <2>2
<1>5. CASE Held(b, b.qty).good = good
  <2>1. l >= 10 * k
    BY <1>5
  <2> HIDE DEF L, l
  <2>2. L \in Int /\ L <= b.qty /\ 100 * L + k * b.qty <= 100 * b.qty
    <3>1. k \in Nat /\ b.qty \in Nat /\ l \in 0 .. 1000
      BY <1>1
    <3>2. /\ Remains(b.qty, l) \in Int /\ Remains(b.qty, l) <= b.qty
          /\ 100 * Remains(b.qty, l) + k * b.qty <= 100 * b.qty
      BY <2>1, <3>1, LeftShare, ZenonT(60)
    <3> QED BY <1>2, <3>2
  <2>3. CASE L > 0
    <3>1. \A x, q, p \in Nat : 100 * x + k * q <= 100 * q =>
            x * p \in Nat /\ 100 * (x * p) + k * (q * p) <= 100 * (q * p)
      <4> TAKE x, q, p \in Nat
      <4> HAVE 100 * x + k * q <= 100 * q
      <4> DEFINE d == 100 * q - (100 * x + k * q)
      <4>1. d \in Nat /\ k * q \in Nat
        OBVIOUS
      <4>2. d * p \in Nat
        BY <4>1
      <4>3. d * p = 100 * (q * p) - (100 * (x * p) + k * (q * p))
        OBVIOUS
      <4>4. x * p \in Nat /\ q * p \in Nat /\ k * (q * p) \in Nat
        OBVIOUS
      <4> HIDE DEF d
      <4> QED BY <4>2, <4>3, <4>4
    <3>2. L \in Nat
      BY <2>2, <2>3
    <3>3. CASE b.act = "buy"
      <4>1. Value(b, good) = b.qty * b.price /\ v = L * b.price
        BY <1>5, <2>3, <3>3 DEF Value, Amount, Held
      <4> QED BY <1>1, <2>2, <3>1, <3>2, <4>1 DEF L
    <3>4. CASE b.act # "buy"
      <4>1. Value(b, good) = b.qty /\ v = L
        BY <1>5, <2>3, <3>4 DEF Value, Amount, Held
      <4> QED BY <2>2, <3>2, <4>1 DEF L
    <3> QED BY <3>3, <3>4
  <2>4. CASE ~(L > 0)
    <3>1. v = 0
      BY <2>4
    <3>2. \A a \in Nat : 100 * 0 + k * a <= 100 * a
      OBVIOUS
    <3> QED BY <1>3, <3>1, <3>2 DEF L
  <2> QED BY <2>3, <2>4
<1> QED BY <1>4, <1>5

(* A loop that takes a share out of bids leaves no more in them; of what     *)
(* some bids hold of a good it takes at least the percentage that all of     *)
(* them lose.                                                                *)
LEMMA ReduceTakes ==
  ASSUME Book, NEW ids, NEW loss \in Loss, Reduce(ids, loss), NEW good,
         NEW mine \in SUBSET market, NEW k \in 0 .. 100,
         \A b \in mine : b.id \in ids /\ (Held(b, b.qty).good = good => LossOf(b, loss) >= 10 * k)
  PROVE  /\ 100 * Stakes(market', good) + k * Stakes(mine, good) <= 100 * Stakes(market, good)
         /\ Stakes(market', good) \in Nat /\ Stakes(mine, good) \in Nat
<1> DEFINE less(b) == [b EXCEPT !.qty = Left(b, loss)]
           K == {b \in market : b.id \in ids => Left(b, loss) > 0}
           m == [b \in market |-> IF b.id \in ids THEN less(b) ELSE b]
           v == [b \in market |-> IF b.id \notin ids THEN Value(b, good)
                                  ELSE IF Left(b, loss) > 0 THEN Amount(Held(b, Left(b, loss)), good)
                                  ELSE 0]
           u == [b \in market |-> IF b \in mine THEN Value(b, good) ELSE 0]
           w == [b \in market |-> Value(b, good)]
           S == LessOf(ids, loss)
<1>1. /\ market \in SUBSET Bid /\ IsFiniteSet(market) /\ InOrder(market)
      /\ Valued(market, good)
  BY MarketValued DEF Book, Sound, TypeOK
<1>2. S \in SUBSET Bid /\ IsFiniteSet(S) /\ market' = Line(S)
  <2>1. market' = Line(LessOf(ids, loss))
    BY DEF Reduce, LessOf
  <2> QED BY <2>1, ReduceSound DEF Book, Sound
<1>3. S = {m[b] : b \in K}
  BY DEF LessOf
<1>4. \A b \in market : /\ m[b].id = b.id /\ Offers(m[b], b) /\ m[b].pos = b.pos
                        /\ m[b].qty = IF b.id \in ids THEN Left(b, loss) ELSE b.qty
  <2> TAKE b \in market
  <2>1. b \in Bid
    BY <1>1
  <2> QED BY <2>1 DEF Bid, Offers
<1> HIDE DEF m, S
<1>5. \A b, c \in market : m[b] = m[c] => b = c
  BY <1>1, <1>4 DEF InOrder
<1>6. InOrder(S)
  BY <1>1, <1>3, <1>4 DEF InOrder, Offers, SameLevel
<1>7. \A b \in market : v[b] \in Nat /\ u[b] \in Nat /\ w[b] \in Nat
                        /\ 100 * v[b] + k * u[b] <= 100 * w[b]
  <2> TAKE b \in market
  <2>1. b \in Bid /\ Value(b, good) \in Nat
    BY <1>1 DEF Valued
  <2> DEFINE val == Value(b, good)
             part == IF Left(b, loss) > 0 THEN Amount(Held(b, Left(b, loss)), good) ELSE 0
  <2>2. ASSUME NEW j \in 0 .. 100, Held(b, b.qty).good = good => LossOf(b, loss) >= 10 * j
        PROVE  part \in Nat /\ 100 * part + j * val <= 100 * val
    BY <2>1, <2>2, ValueShare
  <2>3. part \in Nat /\ 100 * part <= 100 * val
    <3>1. LossOf(b, loss) >= 10 * 0
      BY <2>1, LossIs
    <3>2. part \in Nat /\ 100 * part + 0 * val <= 100 * val
      BY <2>2, <3>1
    <3> HIDE DEF part, val
    <3> QED BY <2>1, <3>2 DEF val
  <2>4. b \in mine => b.id \in ids /\ 100 * part + k * val <= 100 * val
    BY <2>2
  <2>5. v[b] = (IF b.id \notin ids THEN val ELSE part) /\ u[b] = (IF b \in mine THEN val ELSE 0)
        /\ w[b] = val
    OBVIOUS
  <2>6. k * 0 = 0 /\ val \in Nat
    BY <2>1
  <2> HIDE DEF v, u, w, part, val
  <2> QED BY <2>3, <2>4, <2>5, <2>6
<1>8. \A b \in K : v[b] = Value(m[b], good) /\ v[b] \in Nat
  <2> TAKE b \in K
  <2>1. Held(m[b], m[b].qty) = Held(b, m[b].qty)
    BY <1>4, HeldAlike
  <2>2. v[b] \in Nat
    BY <1>7
  <2> QED BY <1>4, <2>1, <2>2 DEF Value
<1>9. K \in SUBSET market /\ IsFiniteSet(K)
  BY <1>1, FS_Subset
<1>10. \A b \in market : w[b] = Value(b, good)
  OBVIOUS
<1>11. \A b \in mine : u[b] = Value(b, good)
  OBVIOUS
<1> HIDE DEF K, v, u, w
<1>12. Weighs(v, market) /\ Weighs(u, market) /\ Weighs(w, market)
  BY <1>1, <1>7 DEF Weighs
<1>13. Stakes(S, good) = Sum(v, K)
  <2>1. \A b, c \in K : m[b] = m[c] => b = c
    BY <1>5, <1>9
  <2>2. Stakes({m[b] : b \in K}, good) = Sum(v, K)
    BY <1>8, <1>9, <2>1, StakesImage
  <2> QED BY <1>3, <2>2
<1>14. Stakes(market', good) = Stakes(S, good)
  BY <1>2, <1>6, LineKeepsStakes
<1>15. Stakes(market, good) = Sum(w, market)
  BY <1>1, <1>10, StakesAre
<1>16. Stakes(mine, good) = Sum(u, mine) /\ Stakes(mine, good) \in Nat
  <2>1. Valued(mine, good)
    BY <1>1, StakesOfSome
  <2> QED BY <1>11, <2>1, StakesAre
<1>17. Sum(v, market) = Sum(v, K) + Sum(v, market \ K) /\ Sum(v, K) \in Nat /\ Sum(v, market \ K) \in Nat
  BY <1>9, <1>12, SumSplits
<1>18. Sum(u, market) = Sum(u, mine) + Sum(u, market \ mine) /\ Sum(u, market \ mine) \in Nat
  BY <1>12, SumSplits
<1>19. 100 * Sum(v, market) + k * Sum(u, market) <= 100 * Sum(w, market)
  <2>1. k \in Nat
    OBVIOUS
  <2> QED BY <1>7, <1>12, <2>1, SumBounds
<1>20. Sum(w, market) \in Nat
  BY <1>12, SumFold
<1> DEFINE A == Sum(v, K)
           B == Sum(v, market \ K)
           C == Sum(u, mine)
           D == Sum(u, market \ mine)
           E == Sum(w, market)
<1>21. /\ A \in Nat /\ B \in Nat /\ C \in Nat /\ D \in Nat /\ E \in Nat
       /\ 100 * (A + B) + k * (C + D) <= 100 * E
  BY <1>16, <1>17, <1>18, <1>19, <1>20
<1> HIDE DEF A, B, C, D, E
<1>22. k * (C + D) = k * C + k * D /\ k * C \in Nat /\ k * D \in Nat
  BY <1>21
<1>23. 100 * A + k * C <= 100 * E
  BY <1>21, <1>22
<1> QED BY <1>13, <1>14, <1>15, <1>16, <1>21, <1>23 DEF A, C, E

LEMMA ReduceShrinks ==
  ASSUME Book, NEW ids, NEW loss \in Loss, Reduce(ids, loss), NEW good
  PROVE  Stakes(market', good) <= Stakes(market, good)
<1> DEFINE none == {b \in market : FALSE}
<1>1. none \in SUBSET market /\ none = {}
  OBVIOUS
<1> HIDE DEF none
<1>2. \A b \in none : b.id \in ids /\ (Held(b, b.qty).good = good => LossOf(b, loss) >= 10 * 0)
  BY <1>1
<1>3. 0 \in 0 .. 100
  OBVIOUS
<1>4. /\ 100 * Stakes(market', good) + 0 * Stakes(none, good) <= 100 * Stakes(market, good)
      /\ Stakes(market', good) \in Nat /\ Stakes(none, good) \in Nat
  BY <1>1, <1>2, <1>3, ReduceTakes
<1>5. Stakes(market, good) \in Nat
  BY MarketValued
<1>6. \A x \in Nat : 0 * x = 0
  OBVIOUS
<1> QED BY <1>4, <1>5, <1>6

LEMMA DropShrinks ==
  ASSUME Book, NEW u \in User, DropBids(u), NEW good
  PROVE  Stakes(market', good) <= Stakes(market, good)
<1> DEFINE S == {b \in market : b.id \notin IdsOf(list[u])}
<1>1. market' = Line(S)
  BY DEF DropBids
<1>2. S \in SUBSET Bid /\ S \in SUBSET market /\ IsFiniteSet(S)
  BY FS_Subset DEF Book, Sound, TypeOK
<1> HIDE DEF S
<1>3. InOrder(S)
  BY <1>2 DEF Book, InOrder
<1>4. Stakes(S, good) <= Stakes(market, good)
  BY <1>2, MarketValued, StakesOfSome
<1> QED BY <1>1, <1>2, <1>3, <1>4, LineKeepsStakes

LEMMA ReservesSame ==
  ASSUME NEW P \in [User -> Purse], NEW R \in [User -> Purse], NEW good \in Good,
         \A u \in User : R[u][good] = P[u][good]
  PROVE  Reserves(R, good) = Reserves(P, good)
<1> DEFINE w == [x \in User |-> P[x][good]]
           v == [x \in User |-> R[x][good]]
<1>1. \A x \in User : w[x] \in Nat /\ v[x] = w[x]
  BY DEF Purse
<1>2. Reserves(P, good) = Sum(w, User) /\ Reserves(R, good) = Sum(v, User)
  BY DEF Reserves
<1> HIDE DEF w, v
<1>3. Weighs(w, User)
  BY <1>1, UsersFinite DEF Weighs
<1> QED BY <1>1, <1>2, <1>3, SumSame

(* A player's list holds what the player's bids hold.                        *)
LEMMA OwnBids ==
  ASSUME Book, NEW u \in User, NEW good
  PROVE  InBids(u, good) = Stakes({b \in market : b.user = u}, good)
<1> DEFINE mine == {b \in market : b.user = u}
           m == [b \in mine |-> EntryOf(b)]
<1>1. list[u] = {m[b] : b \in mine}
  BY DEF Book, Mirrors
<1>2. \A b, c \in mine : m[b] = m[c] => b = c
  <2> TAKE b, c \in mine
  <2>1. EntryOf(b) = EntryOf(c) => b.id = c.id
    BY DEF EntryOf
  <2> QED BY <2>1, EntriesMatch
<1>3. \A b \in mine : Value(m[b], good) = Value(b, good)
  BY DEF EntryOf, Value, Held
<1> HIDE DEF m
<1>4. mine \in SUBSET market
  OBVIOUS
<1> HIDE DEF mine
<1>5. Valued(mine, good)
  BY <1>4, MarketValued, StakesOfSome
<1>6. Stakes({m[b] : b \in mine}, good) = Stakes(mine, good)
  BY <1>2, <1>3, <1>5, StakesMapped
<1> QED BY <1>1, <1>6 DEF InBids, mine

LEMMA ShareArithmetic ==
  ASSUME NEW pct \in 0 .. 100, NEW V \in Nat, NEW B \in Nat, NEW S \in Nat, NEW T \in Nat,
         NEW R \in Nat, NEW M \in Nat, NEW N \in Nat, NEW gain \in Nat,
         gain <= (pct * (V + B)) \div 100,
         M + V = R + ((V * (100 - pct)) \div 100),
         N = M + gain,
         100 * T + pct * B <= 100 * S
  PROVE  N + T <= R + S
<1> DEFINE x == pct * V
           y == pct * B
           a == (pct * (V + B)) \div 100
           c == (V * (100 - pct)) \div 100
<1>1. x \in Nat /\ y \in Nat /\ pct * (V + B) = x + y /\ V * (100 - pct) = 100 * V - x
      /\ V * (100 - pct) \in Nat
  OBVIOUS
<1>2. \A n \in Nat : n \div 100 \in Nat /\ 100 * (n \div 100) <= n
  OBVIOUS
<1>3. a \in Nat /\ 100 * a <= x + y
  BY <1>1, <1>2
<1>4. c \in Nat /\ 100 * c <= 100 * V - x
  BY <1>1, <1>2
<1>5. gain <= a /\ M + V = R + c /\ 100 * T + y <= 100 * S
  OBVIOUS
<1> HIDE DEF x, y, a, c
<1> QED BY <1>1, <1>3, <1>4, <1>5

(* The thief never gets more than the victim's reserves and bids lose.       *)
LEMMA TheftMakesNone ==
  ASSUME Book, NEW thief \in User, NEW victim \in User, NEW good \in Good,
         NEW pct \in Percent, Theft(thief, victim, good, pct)
  PROVE  Total(Energy)' <= Total(Energy)
<1>1. /\ Reduce(IdsOf(list[victim]), BuyLoss(pct)) /\ Idle /\ Idle'
      /\ thief # victim /\ Energy \in Good
  BY DEF Theft, Idle, Good
<1>2. PICK gain \in 0 .. MaxTotal[good] :
        /\ gain <= (pct * (wallet[victim][good] + InBids(victim, good))) \div 100
        /\ wallet' = [wallet EXCEPT ![victim] = Cut(@, good, pct),
                                    ![thief] = Plus(@, good, gain)]
  BY DEF Theft
<1>3. gain \in Nat /\ pct \in 0 .. 100 /\ BuyLoss(pct) \in Loss
  BY MarketConstants, LossType DEF Purse
<1>4. Sound'
  BY TheftSound DEF Book
<1>5. /\ Total(Energy) = Reserves(wallet, Energy) + Stakes(market, Energy)
      /\ Total(Energy)' = Reserves(wallet', Energy) + Stakes(market', Energy)
      /\ Reserves(wallet, Energy) \in Nat /\ Reserves(wallet', Energy) \in Nat
      /\ Stakes(market, Energy) \in Nat /\ Stakes(market', Energy) \in Nat
      /\ wallet \in [User -> Purse] /\ wallet' \in [User -> Purse]
  BY <1>1, <1>4, TotalIdle
<1>6. wallet[victim] \in Purse /\ wallet[thief] \in Purse
  BY <1>5
<1>7. CASE good # Energy
  <2>1. Stakes(market', Energy) <= Stakes(market, Energy)
    BY <1>1, <1>3, ReduceShrinks
  <2>2. \A purse \in Purse : /\ Cut(purse, good, pct)[Energy] = purse[Energy]
                             /\ Plus(purse, good, gain)[Energy] = purse[Energy]
    BY <1>1, <1>7 DEF Cut, Plus, Purse
  <2>3. \A u \in User : wallet'[u][Energy] = wallet[u][Energy]
    BY <1>1, <1>2, <1>5, <1>6, <2>2
  <2>4. Reserves(wallet', Energy) = Reserves(wallet, Energy)
    <3> DEFINE R == wallet'
    <3>1. R \in [User -> Purse] /\ \A u \in User : R[u][Energy] = wallet[u][Energy]
      BY <1>5, <2>3
    <3> HIDE DEF R
    <3>2. Reserves(R, Energy) = Reserves(wallet, Energy)
      BY <1>1, <1>5, <3>1, ReservesSame
    <3> QED BY <3>2 DEF R
  <2> QED BY <1>5, <2>1, <2>4
<1>8. CASE good = Energy
  <2> DEFINE mine == {b \in market : b.user = victim}
             V == wallet[victim][Energy]
             B == Stakes(mine, Energy)
             M == [wallet EXCEPT ![victim] = Cut(@, Energy, pct)]
             h == [good |-> Energy, amount |-> gain]
             R == wallet'
  <2>1. mine \in SUBSET market
    OBVIOUS
  <2>2. \A b \in mine : /\ b.id \in IdsOf(list[victim])
                        /\ Held(b, b.qty).good = Energy => LossOf(b, BuyLoss(pct)) >= 10 * pct
    <3> TAKE b \in mine
    <3>1. b \in Bid
      BY DEF Book, Sound, TypeOK
    <3>2. EntryOf(b) \in list[victim] /\ EntryOf(b).id = b.id
      BY EntriesMatch
    <3>3. b.id \in IdsOf(list[victim])
      BY <3>2 DEF IdsOf
    <3>4. ASSUME Held(b, b.qty).good = Energy PROVE LossOf(b, BuyLoss(pct)) >= 10 * pct
      <4>1. b.act = "buy" /\ <<b.act, b.res>> \in Action \X Resource
        BY <3>1, <3>4, MarketConstants DEF Held, Bid
      <4>2. BuyLoss(pct)[<<b.act, b.res>>] = 10 * pct
        BY <4>1 DEF BuyLoss
      <4>3. LossOf(b, BuyLoss(pct)) = 10 * pct
        BY <4>2, Zenon DEF LossOf
      <4> QED BY <1>3, <4>3
    <3> QED BY <3>3, <3>4
  <2>3. InBids(victim, Energy) = B
    BY OwnBids
  <2> HIDE DEF mine
  <2>4. /\ 100 * Stakes(market', Energy) + pct * B <= 100 * Stakes(market, Energy)
        /\ B \in Nat
    BY <1>1, <1>3, <2>1, <2>2, ReduceTakes
  <2>5. Cut(wallet[victim], Energy, pct) \in Purse
        /\ Cut(wallet[victim], Energy, pct)[Energy] = (V * (100 - pct)) \div 100
    <3>1. Cut(wallet[victim], Energy, pct) \in Purse
      BY <1>1, <1>3, <1>6, CutType
    <3> QED BY <1>1, <1>6, <3>1 DEF Cut, Purse
  <2>6. M \in [User -> Purse] /\ M[victim] = Cut(wallet[victim], Energy, pct)
        /\ \A x \in User : x # victim => M[x] = wallet[x]
    BY <1>5, <2>5
  <2>7. R \in [User -> Purse] /\ R[thief] = Plus(M[thief], h.good, h.amount)
        /\ \A x \in User : x # thief => R[x] = M[x]
    BY <1>1, <1>2, <1>5, <1>8, <2>6
  <2>8. h.good \in Good /\ h.amount \in Int /\ Amount(h, Energy) = gain
    BY <1>1, <1>3 DEF Amount
  <2> HIDE DEF M, R, h
  <2>9. /\ Reserves(M, Energy) + V = Reserves(wallet, Energy) + M[victim][Energy]
        /\ Reserves(M, Energy) \in Nat /\ V \in Nat
    BY <1>1, <1>5, <2>6, ReservesChange
  <2>10. Reserves(R, Energy) = Reserves(M, Energy) + gain /\ Reserves(R, Energy) \in Nat
    <3>1. /\ Reserves(R, Energy) = Reserves(M, Energy) + Amount(h, Energy)
          /\ Reserves(R, Energy) \in Nat
      BY <1>1, <2>6, <2>7, <2>8, ReservesPaid
    <3> QED BY <2>8, <3>1
  <2>11. gain <= (pct * (V + B)) \div 100
    BY <1>2, <1>8, <2>3
  <2>12. Reserves(M, Energy) + V = Reserves(wallet, Energy) + ((V * (100 - pct)) \div 100)
    BY <2>5, <2>6, <2>9
  <2> HIDE DEF V, B
  <2>13. Reserves(R, Energy) + Stakes(market', Energy) <= Reserves(wallet, Energy) + Stakes(market, Energy)
    BY <1>3, <1>5, <2>4, <2>9, <2>10, <2>11, <2>12, ShareArithmetic
  <2> QED BY <1>5, <2>13 DEF R
<1> QED BY <1>7, <1>8

LEMMA IrradiateMakesNone ==
  ASSUME Book, NEW victim \in User, NEW pct \in Percent, Irradiate(victim, pct)
  PROVE  Total(Energy)' <= Total(Energy)
<1>1. /\ Reduce(IdsOf(list[victim]), EctroliumLoss(pct)) /\ Idle /\ Idle'
      /\ wallet' = [wallet EXCEPT ![victim] = Cut(@, Ectrolium, pct)]
      /\ Energy \in Good /\ Ectrolium # Energy
  BY MarketConstants DEF Irradiate, Idle, Good
<1>2. Sound'
  BY IrradiateSound DEF Book
<1>3. /\ Total(Energy) = Reserves(wallet, Energy) + Stakes(market, Energy)
      /\ Total(Energy)' = Reserves(wallet', Energy) + Stakes(market', Energy)
      /\ Reserves(wallet, Energy) \in Nat /\ Reserves(wallet', Energy) \in Nat
      /\ Stakes(market, Energy) \in Nat /\ Stakes(market', Energy) \in Nat
      /\ wallet \in [User -> Purse] /\ wallet' \in [User -> Purse]
  BY <1>1, <1>2, TotalIdle
<1>4. Stakes(market', Energy) <= Stakes(market, Energy)
  BY <1>1, LossType, ReduceShrinks
<1> DEFINE R == wallet'
<1>5. R \in [User -> Purse] /\ \A u \in User : R[u][Energy] = wallet[u][Energy]
  BY <1>1, <1>3 DEF Cut, Purse
<1> HIDE DEF R
<1>6. Reserves(R, Energy) = Reserves(wallet, Energy)
  BY <1>1, <1>3, <1>5, ReservesSame
<1> QED BY <1>3, <1>4, <1>6 DEF R

(* Bids shrink or go, and nobody's reserves change.                          *)
LEMMA UpkeepMakesNone ==
  ASSUME Book, [Next]_vars, UNCHANGED <<wallet, request>>, Idle,
         Stakes(market', Energy) <= Stakes(market, Energy)
  PROVE  Total(Energy)' <= Total(Energy)
<1>1. Sound' /\ Idle' /\ Energy \in Good
  BY NextSound DEF Book, Idle, Good
<1>2. /\ Total(Energy) = Reserves(wallet, Energy) + Stakes(market, Energy)
      /\ Total(Energy)' = Reserves(wallet', Energy) + Stakes(market', Energy)
      /\ Reserves(wallet, Energy) \in Nat
      /\ Stakes(market, Energy) \in Nat /\ Stakes(market', Energy) \in Nat
  BY <1>1, TotalIdle
<1> QED BY <1>2

(* What the two properties say of one step.                                  *)
LEMMA TradeStep ==
  ASSUME Book, Trade
  PROVE  /\ \A r \in Resource : Total(r)' = Total(r)
         /\ Total(Energy)' <= Total(Energy)
         /\ Total(Energy)' < Total(Energy) => request.act = "buy"
<1>1. Resource \subseteq Good /\ Energy \in Good
  BY DEF Good
<1>2. ASSUME \A good \in Good : Total(good)' = Total(good) /\ Total(good) \in Nat
      PROVE  /\ \A r \in Resource : Total(r)' = Total(r)
             /\ Total(Energy)' <= Total(Energy)
             /\ ~(Total(Energy)' < Total(Energy))
  BY <1>1, <1>2
<1>3. ASSUME NEW u \in User, NEW act \in Action, NEW r \in Resource, NEW p \in Price,
             NEW q \in 1 .. MaxQty, Place(u, act, r, p, q)
      PROVE  \A good \in Good : Total(good)' = Total(good) /\ Total(good) \in Nat
  BY <1>3, PlaceConserves
<1>4. ASSUME NEW u \in User, Withdraw(u)
      PROVE  \A good \in Good : Total(good)' = Total(good) /\ Total(good) \in Nat
  BY <1>4, WithdrawConserves
<1>5. CASE Rest
  BY <1>2, <1>5, RestConserves
<1>6. CASE Fill
  <2>1. request.act \in Action
    BY <1>6 DEF Book, Sound, TypeOK, Fill, Idle, Request
  <2>2. \A r \in Resource : Total(r)' = Total(r)
    BY <1>1, <1>6, FillConserves
  <2>3. /\ Total(Energy) \in Nat /\ Total(Energy)' \in Nat /\ Total(Energy)' <= Total(Energy)
        /\ request.act = "sell" => Total(Energy)' = Total(Energy)
    BY <1>1, <1>6, FillConserves
  <2> QED BY <2>1, <2>2, <2>3 DEF Action
<1> QED BY <1>2, <1>3, <1>4, <1>5, <1>6 DEF Trade

LEMMA StepMakesNone ==
  ASSUME Book, [Next]_vars, \A u \in User : ~Deactivate(u), vars' # vars
  PROVE  Total(Energy)' <= Total(Energy)
<1>1. CASE Trade
  BY <1>1, TradeStep
<1>2. CASE Attack
  BY <1>2, TheftMakesNone, IrradiateMakesNone DEF Attack
<1>3. CASE TickDecay
  <2>1. TickLoss \in Loss
    BY MarketConstants DEF TickLoss, Loss
  <2>2. Stakes(market', Energy) <= Stakes(market, Energy)
    BY <1>3, <2>1, ReduceShrinks DEF TickDecay
  <2> QED BY <1>3, <2>2, UpkeepMakesNone DEF TickDecay
<1>4. ASSUME market' = market, UNCHANGED <<wallet, request>>, Idle
      PROVE  Total(Energy)' <= Total(Energy)
  <2>1. Stakes(market, Energy) \in Nat
    BY MarketValued
  <2> QED BY <1>4, <2>1, UpkeepMakesNone
<1>5. CASE ToggleTime
  BY <1>4, <1>5 DEF ToggleTime
<1>6. ASSUME NEW u \in User, Join(u) PROVE Total(Energy)' <= Total(Energy)
  BY <1>4, <1>6 DEF Join
<1>7. ASSUME NEW u \in User, ClearBids(u) PROVE Total(Energy)' <= Total(Energy)
  <2>1. Stakes(market', Energy) <= Stakes(market, Energy)
    BY <1>7, DropShrinks DEF ClearBids
  <2> QED BY <1>7, <2>1, UpkeepMakesNone DEF ClearBids
<1> QED BY <1>1, <1>2, <1>3, <1>5, <1>6, <1>7 DEF Next, Upkeep

(* Placing, trading and withdrawing bids moves every resource and loses none *)
(* of it; energy goes only where a buyer bid more than the seller asked, and *)
(* nobody gets that difference: the loop of cmdExecAddBid, in which a player *)
(* may meet the own bids, and cmdExecRemoveBid.                              *)
THEOREM TradesConserve == Spec => TradeConserves
<1>1. Book /\ [Next]_vars =>
        [Trade => /\ \A r \in Resource : Total(r)' = Total(r)
                  /\ Total(Energy)' <= Total(Energy)
                  /\ Total(Energy)' < Total(Energy) => request.act = "buy"]_vars
  BY TradeStep
<1> QED BY <1>1, AlwaysBook, PTL DEF Spec, TradeConserves

(* No order of trades, thefts, spells, decay and moderation makes energy:    *)
(* an operation takes a share out of the victim's reserves and, rounded up,  *)
(* out of each of the victim's bids, and the thief's share of the sum of     *)
(* both is never more (cmdExecAddBid, specop.c, cmdTick).                    *)
THEOREM EnergyKept == Spec => EnergyNeverMade
<1>1. Book /\ [Next]_vars =>
        [(\A u \in User : ~Deactivate(u)) => Total(Energy)' <= Total(Energy)]_vars
  BY StepMakesNone
<1> QED BY <1>1, AlwaysBook, PTL DEF Spec, EnergyNeverMade
=============================================================================
