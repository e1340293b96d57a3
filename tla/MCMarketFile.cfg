SPECIFICATION Spec
CONSTANTS
  buyLow = buyLow
  sellLow = sellLow
  alice = alice
  Level <- MCLevel
  User <- MCUser
  MaxQty = 2
  MaxBids = 4
  NoLevel = NoLevel
  Nobody = Nobody
INVARIANTS
  FileSound
  FileComplete
PROPERTY
  ImplementsBidBook
