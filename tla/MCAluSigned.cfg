SPECIFICATION AluSpec
CONSTANTS
  WIDTH = 6
  CHUNK = 2
  Instructions <- EdgeInstructions
CHECK_DEADLOCK FALSE
INVARIANT SignedOrder
