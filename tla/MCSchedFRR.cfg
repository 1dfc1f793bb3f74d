CONSTANTS
  NPROC = 5
  NCPU = 1
  TICKS = ticks
  Chans = {ticks}
  KillPids = {}
  MaxPid = 6
  Policy = "FRR"
  QUANTA = 0
  TickMod = 8
  MaxTicks = 2
  Calls = {"fork", "exit", "wait"}
SPECIFICATION SchedSpec
PROPERTIES ParentKept
CHECK_DEADLOCK FALSE
