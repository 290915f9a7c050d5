\* A header is three units of alignment, as in the code; a page holds one
\* block of the larger size or two of the smaller ones, and the heap may grow
\* once before memory is exhausted.
SPECIFICATION FairSpec
CONSTANTS
  HEAP_START = 8
  HeaderSize = 6
  CHUNK_ALIGN = 2
  PageSize = 20
  SizeMod = 64
  MaxPages = 2
  Queries <- SmallQueries
INVARIANTS TypeOK Tiling LiveMatches
PROPERTIES BlocksStay GrowsOnlyIfFull AllocatorSpec CallsReturn
\* The process ends when it writes through MAP_FAILED.
CHECK_DEADLOCK FALSE
