SPECIFICATION FairSpec
CONSTANTS
  Serial <- Sockets
  Parallel <- Printers
  Names <- AnyName
  Requests <- Kinds
  Root = FALSE
  Forking = TRUE
  Preemptive = TRUE
  FilesMax = 3
  MaxArgs = 2
  MaxRequests = 4
  None = None
INVARIANTS TypeOK OneFile KeyerAttached
PROPERTIES DriverExits PttReleased
