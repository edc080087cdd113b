SPECIFICATION FairSpec
CONSTANTS
  Clients = {c1, c2}
  Requests <- LiveRequests
  DefaultDelay = 1
  DelayMax = 2
  QueueSizeMax = 6
  RequestSizeMax = 5
  Capacity = 8
  HasFootswitch = TRUE
  Preemptive = FALSE
  MaxRequests = 6
  None = None
  Torn = Torn
PROPERTIES AutoPttReleased ReplyDelivered
