CONSTANTS
  NPROC = 2
  NCPU = 2
  TICKS = ticks
  Chans = {ticks}
  KillPids = {2, 3}
  MaxPid = 3
  Policy = "RR"
  QUANTA = 0
  TickMod = 4
  MaxTicks = 2
  Calls = {"fork", "exit", "wait", "sleep", "kill", "fault"}
SPECIFICATION SchedSpec
INVARIANTS  ShareAtMostOne
 
CHECK_DEADLOCK FALSE
