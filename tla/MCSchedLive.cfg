CONSTANTS
  NPROC = 3
  NCPU = 1
  TICKS = ticks
  Chans = {ticks}
  KillPids = {}
  MaxPid = 3
  Policy = "FRR"
  QUANTA = 1
  TickMod = 2
  MaxTicks = 2
  Calls = {"fork", "exit", "wait"}
SPECIFICATION ReapingSpec
PROPERTIES  OrphansReaped
CHECK_DEADLOCK FALSE
