SPECIFICATION FairSpec
CONSTANTS
  Threads = {t1, t2}
  Main = t1
  EarlyThreads = {}
  Nobody = Nobody
  NoMutex = NoMutex
  MaxCalls = 1
  MaxReports = 0
  MaxSignals = 0
  Interruptible <- InProgramOrWrapper
  MaxForks = 1
  MayFault = FALSE
  ExitsFrom = {"program"}
CHECK_DEADLOCK FALSE
PROPERTIES
  ChildExitEnds
