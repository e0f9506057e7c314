SPECIFICATION DriveSpec
CONSTANTS
    DriveUnits = 4
    VolumeStart = 1
    VolumeEnd = 3
    BlockSize = 1
    Threshold = 2
    WipePasses = 1
    Values = {1, 2}
    Zero = 0
    Junk = 9
    SetupRequests <- PlainRequests
    InitialLengths = {0, 2}
    HeaderFaults = FALSE
    MaxFaults = 0
    MaxCrashes = 1
    MaxSetups = 2
    MaxKeyGens = 2
    MaxFormats = 2
    SysUnits = 2
    MaxBoots = 3
    MaxSysFaults = 1
    PartUnits = 7
    HeadUnits = 1
    ChunkUnits = 2
    UpdateUnits = 4
    MaxPartCrashes = 1
    MaxPartFaults = 2
    MaxRuns = 3
    MaxInstalls = 2
    MaxSetupFaults = 2
    AreaUnits = 2
    DecoyWipePasses = 2
    MaxImages = 4
    MaxDevFaults = 1
INVARIANTS DriveTransparent HeaderTellsArea   
CHECK_DEADLOCK FALSE
