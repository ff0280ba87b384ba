CONSTANTS
  Client = Client
  Server = Server
  Writers <- OneWay
  Stream = TRUE
  Mss = 1
  SendLens = {4}
  MaxFrags = 4
  SndWnd = 2
  RcvWnd = 1
  WndRcv = 1
  ReadLens = {1}
  CanRefuse = TRUE
  MaxBytes = 4
  MaxFaults = 2
  NetCap <- OneEach
SPECIFICATION FairSpec
CHECK_DEADLOCK FALSE
INVARIANTS TwoWindows IInv
PROPERTIES EverythingArrives
