SPECIFICATION ClientsSpec
CONSTANTS
  WORD = 256
  ALIGNMENT = 2
  HEADER_SIZE = 6
  MIN_BLOCK_SIZE = 4
  heap_start = 4
  heap_max = 64
  Sizes = {1, 5, 10, 16}
  RegionSize = 16
  TestSize = 5
INVARIANTS
  HeapSound
  Coalesced
  Freeable
