SPECIFICATION LiveSpec
CONSTANTS
    Addresses = {a1}
    MaxSetups = 2
    MaxFlows = 1
    MaxCalls = 1
    MaxSockets = 6
    MaxFaults = 1
CHECK_DEADLOCK FALSE
INVARIANTS
    TypeOK
    IsolatedGenerations
    NothingLeftBehind
    StreamsAreSeparate
PROPERTIES
    RequestsEnd
    LoadedIsServed
