CONSTANTS
  Client = Client
  Server = Server
  Writers <- OneWay
  Stream = TRUE
  Mss = 1
  SendLens = {3}
  MaxFrags = 3
  SndWnd = 2
  RcvWnd = 2
  WndRcv = 1
  ReadLens = {2}
  CanRefuse = FALSE
  MaxBytes = 3
  MaxFaults = 1
  NetCap <- TwoEach
SPECIFICATION Spec
INVARIANTS InOrder NoEarlyRelease WindowBounds
PROPERTIES NeverBack
CHECK_DEADLOCK FALSE
