SPECIFICATION Spec
CONSTANTS
  N = 2
  Ranked = {0, 1}
  Types <- OnlyPacts
  Lengths <- PactLengths
  Notice = 2
  EndWars = 1
  TicksPerHour = 1
  MaxTick = 6
  MaxRels = 2
INVARIANTS
  PactsSound
PROPERTY
  TimedPactRunsOut
