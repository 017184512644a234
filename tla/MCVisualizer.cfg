SPECIFICATION Spec
CONSTANTS
  Cycles = 3
  Cut = {2}
  MaxForward = 4
  MaxQueue = 2
INVARIANTS TypeOK StatesAccountedFor KeysAccountedFor
PROPERTIES ForwardKeyMovesOn PageCatchesUp ClosedPageEndsRun
