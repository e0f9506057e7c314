SPECIFICATION Spec
CONSTANTS
    Irps = {1, 2}
    Requests <- VolumeRequests
    IsFilterDevice = FALSE
    DeviceUnits = 4
    MaxFragment = 1
    ItemCount = 2
    RequestCount = 3
    MaxReadAheadOffset = 4
    Faults = TRUE
    SystemRefusals = {}
    DataOffset = 1
    VirtualDeviceLength = 3
    DataUnitOffset = 0
    Protected <- HiddenUnits
    Header = {}
    Forbidden = {}
    AreaStart = 0
    AreaEnd = 3
    InitialEnd = 3
    RemapOffset = 0
    MaxPending = 2
    MaxHolds = 0
    Removable = FALSE
    Nobody = Nobody
INVARIANTS TypeOK QueueTransparent IrpsOnce
CHECK_DEADLOCK FALSE
