CONSTANTS
  WorldSize = 3
  Programs <- MCPrograms
  Rooms = {0, 1}
  Flaws = {"root", "axis", "wide", "long", "type"}
  LastSequence = 1
SPECIFICATION Spec
INVARIANTS ResultsCorrect NeverStuck
PROPERTIES RunnerReturns
CHECK_DEADLOCK FALSE
