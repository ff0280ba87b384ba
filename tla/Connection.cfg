SPECIFICATION Spec
CONSTANTS
  a = a
  b = b
  Addr <- TwoAddr
  Num <- TwoNum
  Setups <- MCSetups
  MaxOut = 3
  MaxDown = 1
  MaxFaults = 2
INVARIANTS Framed Aligned SessionInv
PROPERTIES SessionKept Connects
CHECK_DEADLOCK FALSE
