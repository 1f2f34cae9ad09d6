SPECIFICATION LiveSpec
CONSTANTS
    Setpoints <- MCTrims
    OwnPowers <- MCOwnPowers
    AppLimit = 350
    HemsModes = {FALSE, TRUE}
    Charges = {"mid", "full"}
    Faults = {FALSE, TRUE}
    Grace = 2
    MinTicks = 2
    MinPolls = 3
    PollTicks = 1
    VerifyTicks = 1
    Settle = 1
    Disturbances = {"missed poll", "interference"}
    None = None
INVARIANTS
    TypeOK
    AlarmOnlyWhileControlling
PROPERTIES
    AlarmTakesPatience
    RefusalIsReported
    AlarmEnds
