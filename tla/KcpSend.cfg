CONSTANTS
  Client = Client
  Server = Server
  Writers <- OneWay
  Stream = TRUE
  Mss = 2
  SendLens = {1, 2, 3, 5}
  MaxFrags = 2
  SndWnd = 2
  RcvWnd = 1
  WndRcv = 1
  ReadLens = {2}
  CanRefuse = FALSE
  MaxBytes = 5
  MaxFaults = 0
  NetCap <- OneEach
SPECIFICATION Spec
INVARIANTS Partition
PROPERTIES ImplementsStream
CHECK_DEADLOCK FALSE
