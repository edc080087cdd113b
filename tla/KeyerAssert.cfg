SPECIFICATION Spec
CONSTANTS
  Clients = {c1, c2}
  Requests <- CaretTwice
  DefaultDelay = 1
  DelayMax = 2
  QueueSizeMax = 6
  RequestSizeMax = 5
  Capacity = 8
  HasFootswitch = FALSE
  Preemptive = TRUE
  MaxRequests = 2
  None = None
  Torn = Torn
SYMMETRY ClientSymmetry
INVARIANTS SendtoAssertion
