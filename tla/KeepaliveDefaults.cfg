SPECIFICATION Spec
CONSTANTS
    PollOption = 5
    KeepaliveOption = 30
    TimeoutOption = 90
    Response = 7
    Verify = 15
INVARIANTS
    TypeOK
    
