SPECIFICATION Spec
CONSTANTS
  N = 3
  Ranked = {0, 1}
  Types <- WarsAlliances
  Lengths <- PactLengths
  Notice = 1
  EndWars = 1
  TicksPerHour = 1
  MaxTick = 4
  MaxRels = 3
INVARIANTS
  TiesSound
  NoEndlessWar
PROPERTY
  NoticeKept
