CONSTANTS
  WorldSize = 2
  Tags = {1}
  MaxFrames = 2
  MaxGeneration = 0
SPECIFICATION Spec
INVARIANT TruncatedFramesRejected
CHECK_DEADLOCK FALSE
