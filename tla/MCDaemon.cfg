SPECIFICATION Spec
CONSTANTS
  ann = ann
  bob = bob
  t1 = t1
  Out = Out
  User <- Users
  Reset <- OneThread
  AutoStart = TRUE
  AutoStop = FALSE
  MaxNumber = 1
  MaxRound = 1
  MaxCrashes = 1
  MaxStarts = 1
INVARIANTS
  RoundsEndWell
  TickedAsCounted
PROPERTIES
  ComesBack
  DueTickHappens
CHECK_DEADLOCK FALSE
