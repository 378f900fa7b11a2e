CONSTANTS
  WorldSize = 3
  Procs = {0, 1, 2, 3}
  Configs <- MCDeployments
SPECIFICATION Spec
INVARIANTS TypeOK NoPartialTopology StreamsPairUp NeverStuck
PROPERTY EveryConnectReturns
CHECK_DEADLOCK FALSE
