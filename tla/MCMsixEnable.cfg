CONSTANTS
    MsixValues <- MCMsixValues
    Errors <- MCErrors
SPECIFICATION DriveSpec
INVARIANTS
    MsixEnableEnables
