CONSTANTS
  Last = 5
  MaxNeeded = 3
  Unique = 2
  Compression = 1
  Huge = 4
  BlackLimit = 1
  Suspect = {3}
  HeadersFail = FALSE
SPECIFICATION HeapSpec
INVARIANTS BlocksTileHeap
PROPERTIES AllocIsSound SearchEnds
