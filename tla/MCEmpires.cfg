CONSTANTS
  ann = ann
  bob = bob
  cat = cat
  e1 = e1
  e2 = e2
  User = {ann, bob}
  FirstUser = ann
  NoUser = NoUser
  Home = {e1, e2}
  NoEmpire = NoEmpire
  Capacity = 2
  Ministry = {"war", "development"}
  Resubmits = FALSE
SPECIFICATION Spec
INVARIANT TagsAgree
PROPERTY TiesKeepTheLeader
