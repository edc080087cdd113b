SPECIFICATION Spec
CONSTANTS
  Clients = {c1, c2}
  Requests <- AllRequests
  DefaultDelay = 1
  DelayMax = 2
  QueueSizeMax = 6
  RequestSizeMax = 5
  Capacity = 8
  HasFootswitch = FALSE
  Preemptive = FALSE
  MaxRequests = 6
  None = None
  Torn = Torn
SYMMETRY ClientSymmetry
INVARIANTS ReplyCorrect EchoAfterPlaying
PROPERTIES ImplementsReplyService
