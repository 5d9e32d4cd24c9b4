CONSTANTS
    Samples <- MCSamples
SPECIFICATION FormatSpec
INVARIANTS
    FormatTypeOK
    RequestRecoverable
    StructMembersAgree
    PreparedAsCommanded
