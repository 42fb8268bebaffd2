SPECIFICATION FairSpec
CONSTANTS
  Threads = {t1, t2}
  Main = t1
  EarlyThreads = {}
  Nobody = Nobody
  NoMutex = NoMutex
  MaxCalls = 3
  MaxReports = 1
  MaxSignals = 1
  Interruptible <- InProgramOrWrapper
  MaxForks = 1
  MayFault = TRUE
  ExitsFrom = {"program"}
CHECK_DEADLOCK FALSE
INVARIANTS
  OneInside
  NoSelfDeadlock
  BypassIsRestored
  LoggingIsRestored
  ForkNeverLocks
PROPERTIES
  ExitEnds
  CallsReturn
