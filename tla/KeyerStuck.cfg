SPECIFICATION FairSpec
CONSTANTS
  Clients = {c1}
  Requests <- NothingToPlay
  DefaultDelay = 1
  DelayMax = 2
  QueueSizeMax = 6
  RequestSizeMax = 5
  Capacity = 8
  HasFootswitch = FALSE
  Preemptive = FALSE
  MaxRequests = 1
  None = None
  Torn = Torn
PROPERTIES PttOffAfterText
