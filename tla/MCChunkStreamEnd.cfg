CONSTANTS
    Symbols <- MCSymbols
    SizeOf <- MCSizeOf
    Uploads <- MCUploads
    MaxAttempts = 1
SPECIFICATION Spec
INVARIANTS
    EndClosesUpload
CHECK_DEADLOCK FALSE
