SPECIFICATION ProgramsFair
CONSTANTS
  PROCESS_MAX_COUNT = 4
  PROCESS_SIGNAL_QUEUE_CAPACITY = 2
  PROCESS_SOCKET_CAPACITY = 2
  Owners = {1}
  Signals = {9}
  Values = {5}
  ExitCodes = {0}
  MaxPid = 4
  MaxTicks = 1
  Limits = {1}
INVARIANTS
  ProgramsInv
  WordsOnce
PROPERTIES
  PairCompletes
  ProgramsEnd
