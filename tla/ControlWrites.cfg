SPECIFICATION LiveSpec
CONSTANTS
    MaxCalls = 2
    Requests <- MCRequests
    MaxCharge = 2
    MaxDischarge = 2
    Attempts = 2
    None = None
INVARIANTS
    TypeOK
    OneSequenceAtATime
    KeepaliveHasSetpoint
PROPERTIES
    WritesLandInIssueOrder
    CommitsInIssueOrder
    ImplementsWriter
    EveryCallReturns
    CommandedIsRestored
    UncontrolledIsFreed
