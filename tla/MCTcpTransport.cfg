CONSTANTS
  WorldSize = 3
  Tags = {1}
  MaxFrames = 3
  MaxGeneration = 2
SPECIFICATION MCSpec
PROPERTIES ImplementsPointToPoint ImplementsBarrier
CHECK_DEADLOCK FALSE
