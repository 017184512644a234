SPECIFICATION Spec
CONSTANTS
  WIDTH = 5
  CHUNK = 2
  WordSize = 32
  CycleMax = 20
  TextWords = 12
  PageWords = 16
  InitSP = 16
  IO_CHAR_ADDR = 31
  CHECKPOINT_ADDR = 23
  Programs <- CallFoo
  OutsideWords <- ZeroOnly
  DataMem <- MCDataMem
  InitMems <- MCInitMems
  IoInputs = {5, 6}
  alu <- MCAlu
  clear_chunk <- MCClear
PROPERTY BranchLinkWritesX30
