SPECIFICATION Spec
CONSTANTS
  Serial <- Sockets
  Parallel <- Printers
  Names <- Anything
  Requests <- Kinds
  Root = TRUE
  Forking = TRUE
  Preemptive = FALSE
  FilesMax = 2
  MaxArgs = 4
  MaxRequests = 4
  None = None
INVARIANTS OneFile UnusedPortsOff QuietPins
PROPERTIES DriverExits
