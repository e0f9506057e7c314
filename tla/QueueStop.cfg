SPECIFICATION Spec
CONSTANTS
    Irps = {1, 2}
    Requests <- OddRequests
    IsFilterDevice = TRUE
    DeviceUnits = 4
    MaxFragment = 1
    ItemCount = 1
    RequestCount = 1
    MaxReadAheadOffset = 4
    Faults = TRUE
    SystemRefusals = {"cancelled", "noResources"}
    DataOffset = 0
    VirtualDeviceLength = 0
    DataUnitOffset = 0
    Protected = {}
    Header <- HeaderUnits
    Forbidden = {}
    AreaStart = 1
    AreaEnd = 3
    InitialEnd = 1
    RemapOffset = 0
    MaxPending = 2
    MaxHolds = 0
    Removable = TRUE
    Nobody = Nobody
INVARIANTS StopIsClean
CHECK_DEADLOCK FALSE
