CONSTANTS
  NPROC = 3
  NCPU = 1
  TICKS = ticks
  Chans = {ticks}
  KillPids = {}
  MaxPid = 3
  Policy = "Q3"
  QUANTA = 1
  TickMod = 2
  MaxTicks = 2
  Calls = {"fork", "nice"}
SPECIFICATION FairSpec
INVARIANTS SchedTypeOK
PROPERTIES HigherFirst  LowerQueuesServed
CHECK_DEADLOCK FALSE
