SPECIFICATION ProgressSpec
CONSTANTS
    DriveUnits = 5
    VolumeStart = 1
    VolumeEnd = 4
    BlockSize = 2
    Threshold = 3
    WipePasses = 1
    Values = {1}
    Zero = 0
    Junk = 9
    SetupRequests <- FaultRequests
    InitialLengths = {0, 3}
    HeaderFaults = TRUE
    MaxFaults = 1
    MaxCrashes = 1
    MaxSetups = 2
    SysUnits = 2
    MaxBoots = 2
    MaxSysFaults = 1
    PartUnits = 7
    HeadUnits = 1
    ChunkUnits = 2
    UpdateUnits = 4
    MaxPartCrashes = 1
    MaxPartFaults = 1
    MaxRuns = 2
INVARIANTS SetupLeavesNothing
PROPERTIES SetupLive EncryptionEnds
CHECK_DEADLOCK FALSE
