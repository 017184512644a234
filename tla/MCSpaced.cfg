SPECIFICATION Spec
CONSTANTS
  WIDTH = 5
  CHUNK = 2
  WordSize = 32
  CycleMax = 125
  TextWords = 30
  PageWords = 16
  InitSP = 16
  IO_CHAR_ADDR = 31
  CHECKPOINT_ADDR = 23
  Programs <- SpacedPrograms
  OutsideWords <- ZeroOnly
  DataMem <- MCDataMem
  InitMems <- MCInitMems
  IoInputs = {5, 6}
  alu <- MCAlu
  clear_chunk <- MCClear
INVARIANT SpacedMatchesIsa
