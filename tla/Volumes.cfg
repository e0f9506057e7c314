SPECIFICATION VolumesSpec
CONSTANTS
    Drives = {1, 2}
    Hosts = {"disk", "file"}
    HostOn <- MCHostOn
    OuterPassword <- MCOuter
    HiddenPassword <- MCHidden
    MountRequests <- MCMounts
    MountUsers = {"u1", "u2"}
    VolIrps = {"i1"}
    CacheSize = 2
    MaxMounts = 2
    Letters = {1, 2}
    Containers = {"a", "b"}
    DamagedHeaders = {"b"}
    ArrivalFavorites = {"a"}
    FavoriteLetter <- OneLetter
    WrongPwdLimit = 1
    DismountRetries = 2
    MaxVolumeIds = 2
    MaxEvents = 2
    ForceAutoDismount = TRUE
    UserOptions = {FALSE}
    IdleLetters = {1, 2}
    MaxVolumeIdleTime = 2
    IdleMounts = 2
    UxHosts = {1, 2}
    UxSlots = {1, 2}
    UxLoops = {1, 2}
    UxCascades = {1, 2}
    MaxUxOps = 3
    MaxUxFaults = 1
    CsThreads = {1, 2}
    CacheCapacity = 2
    MaxCsCalls = 3
    MaxCsFaults = 1
    KfNames = {"f", "big", "empty", "gone", "dir", "hdir", "t"}
    KfListed = {"f"}
    MaxKeyLists = 5
    MaxListLength = 2
    MaxTokenObjects = 3
    HbPasses = 2
    MaxHbOps = 3
    MaxHbFaults = 2
INVARIANTS DriverVolumesSound  
PROPERTIES NestedFirst 
CHECK_DEADLOCK FALSE
