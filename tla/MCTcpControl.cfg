CONSTANTS
  WorldSize = 2
  Tags = {1}
  MaxFrames = 2
  MaxGeneration = 1
SPECIFICATION Spec
INVARIANT UnmatchedFramesRemain
CHECK_DEADLOCK FALSE
