SPECIFICATION Spec
CONSTANTS
  PROCESS_MAX_COUNT = 4
  PROCESS_SIGNAL_QUEUE_CAPACITY = 2
  PROCESS_SOCKET_CAPACITY = 2
  Owners = {}
  Signals = {}
  Values = {}
  ExitCodes = {0}
  MaxPid = 4
  MaxTicks = 1
INVARIANT
  ParentKnowsChild
