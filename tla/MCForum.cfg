SPECIFICATION Spec
CONSTANTS
  Post <- Lengths
  MaxSlots = 3
  MaxForums = 2
  MaxPosts = 4
INVARIANTS
  FilesSound
  CountsAgree
PROPERTY ImplementsBoard
CONSTRAINT InStep
