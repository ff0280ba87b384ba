SPECIFICATION Spec
CONSTANTS
    u1 = u1
    m1 = m1
    m2 = m2
    None = None
    Users <- OneUser
    Messages <- TwoMessages
    To <- ToOne
    Setups <- MCSetups
INVARIANTS MessagesInv Unasked
PROPERTIES FinalStays FlowEnds
CHECK_DEADLOCK FALSE
