SPECIFICATION Spec
CONSTANTS
  WIDTH = 5
  CHUNK = 2
  WordSize = 32
  CycleMax = 12
  TextWords = 5
  PageWords = 16
  InitSP = 16
  IO_CHAR_ADDR = 31
  CHECKPOINT_ADDR = 23
  Programs <- CorePrograms
  OutsideWords <- MCOutside
  DataMem <- MCDataMem
  InitMems <- MCInitMems
  IoInputs = {5, 6}
  alu <- MCAlu
  clear_chunk <- MCClear
INVARIANTS TypeOK NothingAfterHalt FaultRetiresNext
PROPERTIES HaltIsSticky HaltEndsRun
