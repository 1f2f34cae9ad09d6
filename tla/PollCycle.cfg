SPECIFICATION Spec
CONSTANTS
    MaxCalls = 3
    Tolerance = 2
    None = None
INVARIANTS
    TypeOK
    ConfirmedBackupIsShown
    BlipsAreTolerated
PROPERTIES
    ImplementsWriter
    DeviceStateIsShown
