SPECIFICATION FairSpec
CONSTANTS
  Datagrams <- SomeDatagrams
  MaxSent = 2
  SizeMax = 3
  IdleRounds = 3
  KeyEvents = 2
INVARIANTS TypeOK OncePerDatagram
PROPERTIES LongWaitMeansQuiet FootswitchFollowed DatagramsReceived
CHECK_DEADLOCK FALSE
