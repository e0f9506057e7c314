SPECIFICATION StoredSpec
CONSTANTS
    Irps = {1, 2, 3}
    Requests <- HiddenSystemRequests
    IsFilterDevice = TRUE
    DeviceUnits = 8
    MaxFragment = 3
    ItemCount = 1
    RequestCount = 2
    MaxReadAheadOffset = 7
    Faults = FALSE
    SystemRefusals = {}
    DataOffset = 0
    VirtualDeviceLength = 0
    DataUnitOffset = 3
    Protected = {}
    Header <- LoaderHeader
    Forbidden <- LoaderUnits
    AreaStart = 2
    AreaEnd = 3
    InitialEnd = 3
    RemapOffset = 3
    MaxPending = 1
    MaxHolds = 0
    Removable = FALSE
    Nobody = Nobody
    MaxDiskSector = 5
    BdValues = {"a", "b"}
    MaxRequest = 3
    MaxMemory = 5
    TC_MAX_MEMORY_MAP_SIZE = 2
    DuUnits = 3
    MaxDuWrites = 1
    HeaderPasswords = {p, q}
    HeaderPasses = 2
    MaxHeaderOps = 3
    MaxTorn = 2
    PrfCount = 4
    KeyWorkers = {1, 2}
    KeyThreadCounts = {1, 2}
    RNG_POOL_SIZE = 4
    RANDMIX_BYTE_INTERVAL = 2
    EventBytes = 2
    FastPollBytes = 6
    SlowPollBytes = 3
    MouseEvents = {"m1", "m2", "m3"}
    KeyEvents = {"k"}
    MaxRequested = 2
    MaxRndCalls = 4
INVARIANTS QueueTransparent StoredSound KeysSound
PROPERTIES StoredSteps
CHECK_DEADLOCK FALSE
