CONSTANTS
  NPROC = 3
  NCPU = 2
  TICKS = ticks
  Chans = {ticks}
  KillPids = {2, 3}
  MaxPid = 4
SPECIFICATION Spec
INVARIANTS TypeOK StackExclusive ParentAlive NoMissedExit UniquePid
PROPERTIES ZombieUntilReaped
CHECK_DEADLOCK FALSE
