SPECIFICATION Spec
CONSTANTS
    Setpoints <- MCTrims
    OwnPowers <- MCOwnPowers
    AppLimit = 350
    HemsModes = {FALSE}
    Charges = {"mid"}
    Faults = {FALSE}
    Grace = 4
    MinTicks = 4
    MinPolls = 3
    PollTicks = 2
    VerifyTicks = 1
    Settle = 4
    Disturbances = {}
    None = None
INVARIANTS
    NoFalseAlarm
