SPECIFICATION Spec
CONSTANTS
    Addresses = {a1}
    MaxSetups = 1
    MaxFlows = 1
    MaxCalls = 0
    MaxSockets = 4
    MaxFaults = 0
CHECK_DEADLOCK FALSE
INVARIANT
    ErrorsStayInside
