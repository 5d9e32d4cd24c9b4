CONSTANTS
    MsixValues <- MCMsixValues
    Errors <- MCErrors
    NAdmin <- MCNAdmin
    MaxLeft <- MCMaxLeft
SPECIFICATION FairSpec
PROPERTIES
    Termination
    StepsRunOut
CHECK_DEADLOCK FALSE
