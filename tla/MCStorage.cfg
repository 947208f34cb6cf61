SPECIFICATION StorageSpec
CONSTANTS
    x = x
    y = y
    label = label
    Wild = Wild
    a = a
    b = b
    SectorBytes = 2
    NumSectors = 2
    Lbas = {0, 1, 2}
    Counts = {0, 2}
    ZeroCount = 3
    Bytes = {1, 2}
    IdentByte = 9
    MaxCommands = 3
    SecChunks = 2
    DiskSectors = 2
    Parts = {0, 1}
    MouseMax = 1
    Motions <- MCMotions
    NoName = NoName
    NoFile = NoFile
    Names <- MCNames
    Units <- MCUnits
    LastCluster = 4
    ClusterUnits = 2
    FatEntries = 3
    SlotCount = 2
    MaxFds = 3
    WithExt <- MCWithExt
    Images <- MCImages
    Faults <- MCFaults
    Seeks <- MCSeeks
    Payloads <- MCPayloads
    MaxMoves = 4
    OneWriter = TRUE
    SwapClosed = TRUE
INVARIANTS StorageTypeOK VolumeSound DriveExact FilesExact AlbireoExact
PROPERTY ImplementsStore
VIEW StateView
