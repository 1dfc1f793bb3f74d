CONSTANTS
  Ops = {o1, o2}
  LOGSIZE = 4
  LOGBLOCKS = 4
  MAXOPBLOCKS = 2
  OpBlocks = 2
  Blocks = {a, b, c}
  Values = {0, 1}
  NoBlock = NoBlock
SPECIFICATION LogSpec
INVARIANTS LogTypeOK
PROPERTIES ImplementsAtomicDisk
