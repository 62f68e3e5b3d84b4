CONSTANTS
  Blocks = 2
  Objects = 3
  BlockOf <- MCBlockOf
  Roots = 1
  Numbers = {2}
  MaxRetries = 1
SPECIFICATION CollectorSpec
INVARIANTS HeapIsSound
PROPERTIES AllocEnds
