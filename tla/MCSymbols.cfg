CONSTANTS
  Builds <- MCBuilds
  Worlds <- MCWorlds
  CallSites = {0, 1, 2, 4}
  GeneratedCode = {64}
  MaxEvents = 1
  MaxLoads = 2
SPECIFICATION Spec
INVARIANTS
  FrameIsOfCaller
  NothingIsMissed
  InlineChainIsExact
  VerdictIsOfOrigin
CHECK_DEADLOCK FALSE
