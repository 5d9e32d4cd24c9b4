CONSTANTS
    MsixValues <- MCMsixValues
    Errors <- MCErrors
SPECIFICATION DriveSpec
INVARIANTS
    DriveTypeOK
    InitOutcome
    ExitLeavesDriveRunning
    IrqsFitTable
PROPERTIES
    EnableAfterSetup
    MsixStaysOn
