CONSTANTS
  WorldSize = 2
  Programs <- MCBroadcastTwice
  Rooms = {1}
  Flaws = {"type"}
  LastSequence = 1
SPECIFICATION Spec
INVARIANT StaleTrafficIgnored
CHECK_DEADLOCK FALSE
