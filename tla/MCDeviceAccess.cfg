CONSTANTS
    iocq_buffer = iocq_buffer
    identify_buffer = identify_buffer
    Names <- MCNames
    Requests <- MCRequests
    Indices <- MCIndices
    MemorySize = 3
    Alignment = 2
    UintRange = 8
    Bytes = {0, 1}
    Descriptors = {3}
    Accesses <- MCAccesses
    TopByte = 1
SPECIFICATION DeviceSpec
SYMMETRY Symmetry
INVARIANTS
    DeviceTypeOK
    OnlyDevicesReturned
    AccessInBlock
    TransferFaithful
CHECK_DEADLOCK FALSE
