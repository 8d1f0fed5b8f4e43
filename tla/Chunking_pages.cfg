\* A cut text whose parts are on several pages.
SPECIFICATION Spec
CONSTANTS
  Files <- AllFiles
  MaxBlocks = 3
  SamplePages = 2
  Scanned = 3
  Stray = 1
  MinUsable = 2
  MinChunk = 3
  Overlap = 3
  ChunkSize = 6
  MaxChunk = 8
CHECK_DEADLOCK FALSE
INVARIANT PageIsItsOwn
