CONSTANTS
    Samples <- MCSamples
SPECIFICATION FormatSpec
INVARIANTS
    NamedValuesInPlace
