SPECIFICATION FairSpec
CONSTANTS
  Options <- CommandOptions
  MaxArgs = 2
  FlagsSize = 4
  SpeedMin = 4
  SpeedMax = 60
  NotANumber = NotANumber
  None = None
INVARIANTS TypeOK Configured ResourcesOutliveUsers NothingLeft DaemonLeavesTerminal OnlyDaemonServes FailureReported
PROPERTIES Settles
