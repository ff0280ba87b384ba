SPECIFICATION Spec
CONSTANTS
    c1 = c1
    c2 = c2
    r1 = r1
    r2 = r2
    Invalid = Invalid
    Callers <- MCCallers
    Requests <- MCRequests
    MaxParts = 1
    Setups <- MCSetups
INVARIANTS RequestsInv
PROPERTIES StopEnds ReceivingEnds
CHECK_DEADLOCK FALSE
