SPECIFICATION Spec
CONSTANTS
  PAGE_SIZE = 2
  AddressSpace = 64
  MAX_FRAMES = 12
  BITS = 4
  LowMemory = 2
  KernelStart = 2
  KernelEnd = 5
  InitialArea = 2
  HeapStart = 8
  HeapMax = 10
  Totals = {8, 10, 12}
  MemoryMaps <- MCMemoryMaps
  Counts = {2, 3}
INVARIANTS
  IndInv
  FreeExactly
