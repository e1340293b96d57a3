SPECIFICATION Spec
CONSTANTS
  c1 = c1
  c2 = c2
  ph = ph
  ag = ag
  pr = pr
  mars = mars
  Ship <- Ships
  Probe <- Probes
  Agent <- Agents
  Phantom <- Phantoms
  Planet <- OneWorld
  MaxTime = 2
  MaxFleets = 2
INVARIANTS
  ShipsAccounted
  JourneysShorten
  OperatesOnce
  BattleAlone
CONSTRAINT BeforeCrossing
SYMMETRY Alike
