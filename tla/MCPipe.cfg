CONSTANTS
  Writers = {w1, w2}
  Readers = {r1}
  PIPESIZE = 2
  UintMod = 4
  Bytes = {0, 1}
  Killable = {r1}
  Sizes = {0, 1, 3}
  Nobody = Nobody
  Nothing = Nothing
  Eof = Eof
SPECIFICATION PipeFairSpec
INVARIANTS PipeTypeOK 
PROPERTIES ImplementsStream WriterProceeds
CHECK_DEADLOCK FALSE
