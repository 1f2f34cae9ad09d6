SPECIFICATION Spec
CONSTANTS
    Tasks = {poll}
    Poll = poll
    MsgIds <- MCMsgIds
    SharedMillisecond = FALSE
    SuspectAfter = 3
    BaseCooldown = 2
    MaxCooldown = 60
    MaxExponent = 1023
    FailureBound = 1024
    MaxFaults = 1
    MaxAbandoned = 0
INVARIANTS
    ErrorsNeverPropagate
