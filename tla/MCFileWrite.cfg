CONSTANTS
  Writers = {w1, w2}
  BSIZE = 2
  NDIRECT = 3
  NINDIRECT = 6
  LOGSIZE = 8
  MaxBytes = 9
SPECIFICATION FileSpec
INVARIANTS FileTypeOK  OneCallFits
CHECK_DEADLOCK FALSE
