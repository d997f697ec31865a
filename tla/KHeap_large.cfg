SPECIFICATION Spec
CONSTANTS
  WORD = 256
  ALIGNMENT = 2
  HEADER_SIZE = 6
  MIN_BLOCK_SIZE = 4
  heap_start = 4
  heap_max = 64
  Sizes = {1, 5, 130}
INVARIANT
  HeapWithinMax
