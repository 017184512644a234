SPECIFICATION Spec
CONSTANTS
  AddrSpace = 36
  Bytes = {0, 1, 2}
  Widths = {2}
  PAGESIZE = 4
  HASHSIZE = 2
  hash <- MCHash
  prot_bits <- MCProt
  WordBytes = 2
  Images <- MCImages
  seg_starts <- MCStarts
  Accessed = {11, 20, 27, 30}
  MaxAccess = 2
INVARIANTS TypeOK SegmentsLoaded UninitializedIsZero LinesAreMemory CheckpointComplete
