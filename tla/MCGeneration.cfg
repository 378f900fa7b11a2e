CONSTANTS
  Vocab = {1, 2, 3}
  Eos = 3
  Prompts <- MCPrompts
  MaxContext = 5
  MaxRequested = 5
SPECIFICATION GenerationSpec
INVARIANTS ContextFollows WithinCapacity LimitsExact
PROPERTY Terminates
CHECK_DEADLOCK FALSE
