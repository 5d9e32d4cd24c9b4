CONSTANTS
    MsixValues <- MCMsixValues
    Errors <- MCErrors
    NAdmin <- MCNAdmin
    MaxLeft <- MCMaxLeft
SPECIFICATION Spec
INVARIANTS
    MainTypeOK
    LeavesWhatItFinds
    CreateFollowsPrepare
    ReadAfterBatch
    ShownEntriesWereReaped
    AdminReapFits
    NothingStranded
PROPERTIES
    BatchAllOrNothing
    ImplementsLifecycle
CHECK_DEADLOCK FALSE
