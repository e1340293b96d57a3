SPECIFICATION Spec
CONSTANTS
  ann = ann
  bob = bob
  hannah = hannah
  hugh = hugh
  p1 = p1
  p2 = p2
  None = None
  Player <- Players
  Order <- TickOrder
  Planet <- Planets1
  Home <- Homes
  Ancient <- Ruins
  Empire <- Kin
  Time = 1
  MaxQty = 1
  MaxQueue = 2
  MaxGift = 2
  MaxCount = 2
  MaxLoss = 1
INVARIANTS
  OwnerLists
  PortalsAgree
  QueuesAgree
  MapSound
SYMMETRY HomeSym
CONSTRAINT Bounded
