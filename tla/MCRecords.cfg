CONSTANTS
  NPROC = 3
  NCPU = 1
  TICKS = ticks
  Chans = {ticks}
  KillPids = {}
  MaxPid = 7
  Entries = 3
  Mixed = Mixed
SPECIFICATION RecordsSpec
INVARIANTS RecordsMine
CHECK_DEADLOCK FALSE
