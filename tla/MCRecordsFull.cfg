CONSTANTS
  NPROC = 2
  NCPU = 1
  TICKS = ticks
  Chans = {ticks}
  KillPids = {}
  MaxPid = 66
  Entries = 64
  Mixed = Mixed
SPECIFICATION RecordsSpec
INVARIANTS RecordsInBounds
CHECK_DEADLOCK FALSE
