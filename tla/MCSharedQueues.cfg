CONSTANTS
    p1 = p1
    p2 = p2
    c1 = c1
    c2 = c2
    c3 = c3
    Programs <- MCPrograms
    Commands <- MCCommands
    Elements = 2
    MaxResets = 1
SPECIFICATION SharedSpec
SYMMETRY Symmetry
INVARIANTS
    SharedTypeOK
    OwnCommandsShown
    ShortReapMeansInterference
    CompletionQueueHolds
PROPERTIES
    SharedImplementsLifecycle
