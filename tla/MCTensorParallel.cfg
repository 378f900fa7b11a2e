CONSTANTS
  WorldSize = 3
  VocabSize = 3
  Layers = 2
  Eos = 2
  Prompts <- MCPrompts
  MaxContext = 4
  MaxRequested = 3
SPECIFICATION Spec
INVARIANTS ShardsFitTogether SuccessIsShared NothingRefused NeverStuck
PROPERTIES ImplementsGeneration EveryRankEnds
CHECK_DEADLOCK FALSE
