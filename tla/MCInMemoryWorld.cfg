CONSTANTS
  WorldSize = 3
  GenerationLimit = 3
  Tags = {1}
  MaxFrames = 3
SPECIFICATION MCSpec
INVARIANTS NoLostWakeup GaplessFifo BlockedMeansAbsent
PROPERTIES ImplementsBarrier AllOrNothing EveryCallReturns ImplementsPointToPoint DisconnectIsFinal
CHECK_DEADLOCK FALSE
