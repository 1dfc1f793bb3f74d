CONSTANTS
  Ops = {o1, o2}
  LOGSIZE = 30
  LOGBLOCKS = 30
  MAXOPBLOCKS = 10
  OpBlocks = 15
SPECIFICATION SpaceSpec
INVARIANTS NoPanic
CHECK_DEADLOCK FALSE
