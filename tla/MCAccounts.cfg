SPECIFICATION Spec
CONSTANTS
  Name = {n1, n2, n3}
  None = None
  Empty = Empty
  MaxId = 3
SYMMETRY Alike
INVARIANTS
  AccountsKept
  NoStrangers
  RegistrationOpen
  LoginsUnique
