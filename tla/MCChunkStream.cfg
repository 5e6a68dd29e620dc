CONSTANTS
    Symbols <- MCSymbols
    SizeOf <- MCSizeOf
    Uploads <- MCUploads
    MaxAttempts = 2
SPECIFICATION Spec
INVARIANTS
    TypeOK
    ChainIntact
PROPERTIES
    ImplementsRelay
CHECK_DEADLOCK FALSE
