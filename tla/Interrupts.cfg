SPECIFICATION FairSpec
CONSTANTS
  Modulus = 3
  MaxTicks = {1, 2}
  MaxTotal = 3
  MaxKeys = 2
INVARIANTS IRQInv HandlersNeverNest HandlerReady TrialContained PanicContextTrue
PROPERTIES PanicFinal ImplementsTickCounter TicksServed KeysRead
CHECK_DEADLOCK FALSE
