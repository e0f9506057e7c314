SPECIFICATION FairSpec
CONSTANTS
    Irps = {1, 2}
    Requests <- LiveRequests
    IsFilterDevice = TRUE
    DeviceUnits = 3
    MaxFragment = 1
    ItemCount = 1
    RequestCount = 1
    MaxReadAheadOffset = 0
    Faults = FALSE
    SystemRefusals = {}
    DataOffset = 0
    VirtualDeviceLength = 0
    DataUnitOffset = 0
    Protected = {}
    Header <- HeaderUnits
    Forbidden = {}
    AreaStart = 1
    AreaEnd = 2
    InitialEnd = 2
    RemapOffset = 0
    MaxPending = 2
    MaxHolds = 1
    Removable = TRUE
    Nobody = Nobody
PROPERTIES QueueLive
CHECK_DEADLOCK FALSE
