SPECIFICATION Spec
CONSTANTS
  AddrSpace = 6
  Bytes = {0, 1}
  Widths = {2}
  PAGESIZE = 2
  HASHSIZE = 2
  hash <- MCHash
  prot_bits <- MCProt
INVARIANTS TypeOK OnePagePerNumber
PROPERTY FlatSpec
