SPECIFICATION FairSpec
CONSTANTS
  KEYBOARD_BUFFER_SIZE = 3
  SIGNAL_QUEUE_CAPACITY = 3
  Scancodes = {"shift", "unshift", "E0", "letter", "arrow", "page", "release"}
  MaxInput = 6
INVARIANTS
  TypeOK
  FirstKeyReady
PROPERTIES
  ImplementsKeyQueue
  ImplementsSignalQueue
  InputDrained
