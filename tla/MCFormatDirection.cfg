CONSTANTS
    Samples <- MCSamples
SPECIFICATION FormatSpec
INVARIANTS
    WriteGoesToDevice
