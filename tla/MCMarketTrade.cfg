SPECIFICATION Spec
CONSTANTS
  alice = alice
  bob = bob
  mineral = mineral
  volatile = volatile
  energy = energy
  User <- MCUser
  Resource <- MCResource
  Crystal = volatile
  Ectrolium = volatile
  Energy = energy
  MaxPrice = 2
  MaxWorth = 2
  Start <- TradeStart
  BuyDecay = 5
  SellDecay = 20
  Percent <- MCPercent
  MaxQty = 2
  MaxBids = 3
  MaxTotal <- TradeTotal
  NoRequest = NoRequest
SYMMETRY Players
INVARIANTS
  TypeOK
  NeverCrossed
  BookSound
PROPERTY
  TradeConserves
  EnergyNeverMade
