SPECIFICATION LiveSpec
CONSTANTS
    Tasks = {poll, call}
    Poll = poll
    MsgIds <- MCMsgIds
    SharedMillisecond = FALSE
    SuspectAfter = 3
    BaseCooldown = 2
    MaxCooldown = 60
    MaxExponent = 1023
    FailureBound = 6
    MaxFaults = 2
    MaxAbandoned = 1
INVARIANTS
    TypeOK
    OneRequestAtATime
    OwnAnswer
PROPERTIES
    BackoffOnlyEscalates
    ImplementsChannel
    EveryRequestReturns
    ServiceResumes
