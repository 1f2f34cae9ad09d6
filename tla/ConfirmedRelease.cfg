SPECIFICATION Spec
CONSTANTS
    MaxCalls = 3
    Requests <- MCRequests
    MaxCharge = 2
    MaxDischarge = 2
    Attempts = 2
    None = None
INVARIANTS
    ConfirmedReleaseSticks
