SPECIFICATION LivenessSpec
CONSTANTS
    Drives = {1, 2}
    Hosts = {"disk", "file"}
    HostOn <- MCHostOn
    OuterPassword <- MCOuter
    HiddenPassword <- MCHidden
    MountRequests <- MCMounts
    MountUsers = {"u1"}
    VolIrps = {"i1"}
    CacheSize = 1
    MaxMounts = 2
    Letters = {1}
    Containers = {"a", "b"}
    DamagedHeaders = {"b"}
    ArrivalFavorites = {"a"}
    FavoriteLetter <- OneLetter
    WrongPwdLimit = 1
    DismountRetries = 2
    MaxVolumeIds = 2
    MaxEvents = 1
    ForceAutoDismount = TRUE
    UserOptions = {FALSE}
    IdleLetters = {1, 2}
    MaxVolumeIdleTime = 2
    IdleMounts = 2
    UxHosts = {1, 2}
    UxSlots = {1, 2}
    UxLoops = {1, 2}
    UxCascades = {2}
    MaxUxOps = 2
    MaxUxFaults = 1
    CsThreads = {1, 2}
    CacheCapacity = 1
    MaxCsCalls = 2
    MaxCsFaults = 1
    PrfCount = 2
    KeyWorkers = {1, 2}
    KeyThreadCounts = {1, 2}
    RNG_POOL_SIZE = 8
    RANDMIX_BYTE_INTERVAL = 4
    EventBytes = 2
    FastPollBytes = 6
    SlowPollBytes = 3
    MouseEvents = {"m1", "m2"}
    KeyEvents = {"k"}
    MaxRequested = 2
    MaxRndCalls = 3
PROPERTIES DriverLive ProgramsLive UnixLive KeysLive
CHECK_DEADLOCK FALSE
