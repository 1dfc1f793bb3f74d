CONSTANTS
  Ops = {o1, o2, o3}
  LOGSIZE = 6
  LOGBLOCKS = 6
  MAXOPBLOCKS = 3
  OpBlocks = 2
SPECIFICATION SpaceFairSpec
INVARIANTS SpaceTypeOK NoPanic LogInArea CommitAlone SleeperHasWaker
PROPERTIES SleeperWakes
