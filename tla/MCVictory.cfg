SPECIFICATION Spec
CONSTANTS
  ann = ann
  bob = bob
  cat = cat
  e1 = e1
  e2 = e2
  a1 = a1
  a2 = a2
  Player = {ann, bob, cat}
  Empire = {e1, e2}
  Artefact = {a1, a2}
  Users <- MCUsers
  Empires <- MCEmpires
  Nobody = Nobody
  AutoVictory = 2
  Size <- MCSize
INVARIANTS
  CountedOnce
  TimerSound
PROPERTIES
  VictoryEarned
  HolderWins
