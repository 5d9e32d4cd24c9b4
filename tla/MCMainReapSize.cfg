CONSTANTS
    MsixValues <- MCMsixValues
    Errors <- MCErrors
    NAdmin <- MCNAdmin
    MaxLeft <- MCMaxLeft
SPECIFICATION Spec
INVARIANTS
    ReapSizeIsBufferSize
CHECK_DEADLOCK FALSE
