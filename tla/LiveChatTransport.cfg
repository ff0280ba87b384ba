SPECIFICATION Spec
CONSTANT Setups <- MCSetups
INVARIANTS TransportInv Swept
PROPERTIES StopEnds LossNoticed DisconnectEnds
CHECK_DEADLOCK FALSE
