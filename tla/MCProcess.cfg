SPECIFICATION FairSpec
CONSTANTS
  PROCESS_MAX_COUNT = 3
  PROCESS_SIGNAL_QUEUE_CAPACITY = 2
  PROCESS_SOCKET_CAPACITY = 2
  Owners = {0}
  Signals = {9}
  Values = {5}
  ExitCodes = {0}
  MaxPid = 3
  MaxTicks = 1
INVARIANTS
  IndInv
  NoLostWakeup
PROPERTIES
  ZombieFinal
  NoStarvation
  FatalSignalKills
  ImplementsLifecycle
