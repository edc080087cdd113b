SPECIFICATION FairSpec
CONSTANTS
  Clients = {c1}
  Requests <- AllRequests
  DefaultDelay = 1
  DelayMax = 2
  QueueSizeMax = 6
  RequestSizeMax = 5
  Capacity = 8
  HasFootswitch = FALSE
  Preemptive = TRUE
  MaxRequests = 4
  None = None
  Torn = Torn
INVARIANTS TypeOK RequestQueueIdle ZeroDelayNoPtt AbortSilences ReplyFits
PROPERTIES EchoConsumed
