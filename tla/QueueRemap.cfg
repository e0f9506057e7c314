SPECIFICATION Spec
CONSTANTS
    Irps = {1, 2}
    Requests <- RemapRequests
    IsFilterDevice = TRUE
    DeviceUnits = 8
    MaxFragment = 3
    ItemCount = 1
    RequestCount = 2
    MaxReadAheadOffset = 0
    Faults = TRUE
    SystemRefusals = {}
    DataOffset = 0
    VirtualDeviceLength = 0
    DataUnitOffset = 3
    Protected = {}
    Header <- LoaderHeader
    Forbidden <- LoaderUnits
    AreaStart = 2
    AreaEnd = 3
    InitialEnd = 3
    RemapOffset = 3
    MaxPending = 2
    MaxHolds = 0
    Removable = FALSE
    Nobody = Nobody
INVARIANTS SuccessMeansWritten
CHECK_DEADLOCK FALSE
