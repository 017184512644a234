SPECIFICATION MCSpec
CONSTANTS
  AddrSpace = 12
  Bytes = {0, 1, 2}
  Widths = {2}
  Garbage = {4, 8}
  CycleVals = 1024
  DataStart = 4
  Argvs <- MCArgvs
  InitMem <- MCMem
  Accesses <- MCAccesses
  MaxCalls = 5
  Benches <- MCBenches
  Results <- MCResults
  CsimArgs <- MCCsimArgs
  Traces <- MCTraces
CHECK_DEADLOCK FALSE
INVARIANTS TypeOK GeometryAsGiven OutputAllOrNothing MissesCoverFills TraceAccounted PassesAreEarned
PROPERTIES DelayedMisses CacheIsTransparent StubsNeverServe
