CONSTANTS
    Samples <- MCSamples
SPECIFICATION FormatSpec
INVARIANTS
    ReservedStayZero
