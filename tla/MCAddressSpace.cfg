SPECIFICATION Spec
CONSTANTS
  PAGE_DIR_ENTRIES = 4
  PAGE_TABLE_ENTRIES = 4
  PROCESS_MAX_COUNT = 3
  Frames = {1, 2, 3, 4, 5, 6}
  WORD = 32
  PAGE_SIZE = 2
  VMALLOC_START = 10
  VMALLOC_END = 16
  Sizes = {1, 3, 31}
  Increments <- MCIncrements
  MaxRegions = 3
  PROCESS_PAGE_REGION_BASE = 6
  PROCESS_VIRTUAL_STRIDE = 2
  ProcessPages = 2
  test_page = 13
  Reservations = {16}
INVARIANTS StateSound MappedExactly FramesAccounted ProcessesApart TLBCoherent
VIEW View
CONSTRAINT OneEmptyRegion
PROPERTY LostOnlyWhenShort
CHECK_DEADLOCK FALSE
