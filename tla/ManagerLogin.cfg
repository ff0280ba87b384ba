SPECIFICATION LoginSpec
CONSTANTS
    r1 = r1
    r2 = r2
    NoThread = NoThread
    RequestThreads <- TwoThreads
    Scenarios <- MCScenarios
INVARIANTS LoginInv Pending
PROPERTIES Reconnects
CHECK_DEADLOCK FALSE
