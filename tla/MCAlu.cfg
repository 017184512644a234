SPECIFICATION AluSpec
CONSTANTS
  WIDTH = 6
  CHUNK = 2
  Instructions <- EdgeInstructions
CHECK_DEADLOCK FALSE
INVARIANTS UnsignedOrder AddFlags MovBuildsConstant LogicAgreesWithAdder DecodesAsAssembled ShiftsDecoded
