SPECIFICATION FairSpec
CONSTANTS
  CommandLines <- MCCommandLines
  Situations <- MCSituations
CHECK_DEADLOCK FALSE
INVARIANTS
  PreloadFailureIsReported
  SummaryReachesUser
  TempDirIsRemoved
PROPERTIES
  ReportsAreKept
  ScriptEnds
