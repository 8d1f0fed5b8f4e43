\* Every PDF of up to MaxBlocks blocks on two pages, and scans, sheets and others.
SPECIFICATION Spec
CONSTANTS
  Files <- AllFiles
  MaxBlocks = 3
  SamplePages = 2
  Scanned = 3
  Stray = 1
  MinUsable = 2
  MinChunk = 3
  Overlap = 3
  ChunkSize = 6
  MaxChunk = 8
INVARIANT ChunkingTypeOK
INVARIANT ContentIsKept
INVARIANT BoundariesHold
INVARIANT CitesItsPage
CHECK_DEADLOCK FALSE
