CONSTANTS
  WorldSize = 3
  Vocab = {1, 2, 3}
  Eos = 3
  Prompts <- MCPrompts
  MaxContext = 4
  MaxRequested = 4
SPECIFICATION Spec
INVARIANTS TokenSeesWholeContext SuccessIsShared ControlClearOfBarrier NothingLeftOver NeverStuck
PROPERTIES ImplementsGeneration EveryRankEnds
CHECK_DEADLOCK FALSE
