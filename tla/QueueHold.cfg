SPECIFICATION Spec
CONSTANTS
    Irps = {1, 2}
    Requests <- HoldRequests
    IsFilterDevice = TRUE
    DeviceUnits = 4
    MaxFragment = 2
    ItemCount = 2
    RequestCount = 2
    MaxReadAheadOffset = 4
    Faults = FALSE
    SystemRefusals = {}
    DataOffset = 0
    VirtualDeviceLength = 0
    DataUnitOffset = 0
    Protected = {}
    Header <- HeaderUnits
    Forbidden = {}
    AreaStart = 1
    AreaEnd = 3
    InitialEnd = 1
    RemapOffset = 0
    MaxPending = 2
    MaxHolds = 1
    Removable = FALSE
    Nobody = Nobody
INVARIANTS QueueTransparent
PROPERTIES ImplementsGate
CHECK_DEADLOCK FALSE
