CONSTANTS
  ann = ann
  bob = bob
  cat = cat
  e1 = e1
  e2 = e2
  User = {ann, bob, cat}
  FirstUser = ann
  NoUser = NoUser
  Home = {e1}
  NoEmpire = NoEmpire
  Capacity = 3
  Ministry = {"development", "war"}
  Resubmits = TRUE
SPECIFICATION Spec
SYMMETRY Alike
INVARIANTS GovernmentSound LeaderBacked
