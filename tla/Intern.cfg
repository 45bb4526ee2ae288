SPECIFICATION Spec
CONSTANTS
  Bits = 6
  Header = 6
  DefaultAlign = 4
  DefaultChunk = 8
  ChunkSizes = {0, 3, 14, 60}
  Requests <- SomeRequests
  MaxAllocs = 5
  Blocks = {4, 16, 36, 44}
  Strings <- Few
  Hash <- Hashes
  InitialCap = 2
  MaxCap = 8
INVARIANTS
  TypeOK
  AllocationsApart
PROPERTIES
  KeepsPromise
