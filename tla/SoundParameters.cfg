SPECIFICATION Spec
CONSTANTS
  SpeedMin = 4
  SpeedMax = 60
  ToneMax = 4000
  VolumeMax = 100
  WeightingMax = 50
  Systems <- Available
  Requested <- Available
  Null = "null"
  Defaults <- AllDefaults
  Inputs <- Values
  Runs <- AnyRuns
  None = None
  Unstarted = Unstarted
INVARIANTS TypeOK LibcwMatches AudioFlag
PROPERTIES FallbackWorks
