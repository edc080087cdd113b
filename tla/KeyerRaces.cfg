SPECIFICATION RaceSpec
CONSTANTS
  Clients = {c1}
  Requests <- AllRequests
  DefaultDelay = 1
  DelayMax = 2
  QueueSizeMax = 6
  RequestSizeMax = 5
  Capacity = 8
  HasFootswitch = TRUE
  Preemptive = TRUE
  MaxRequests = 4
  None = None
  Torn = Torn
INVARIANTS PttHeld PinMeansFlag
PROPERTIES ImplementsPttService
