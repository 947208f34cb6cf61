\* The parts that answer to the host, each on its own.
SPECIFICATION Spec
CONSTANTS
    Parts = {"serial", "run", "input", "web", "tape", "snapshot", "settings"}
    Room = 3
    ReplySize = 2
    LineMax = 2
    Faulty = TRUE
    MaxBytes = 3
    Addrs = {0, 1}
    Views = {"ram0", "rom7"}
    CyclesPerFrame = 4
    Times = {1, 3}
    FrameLen = 4
    PageRows = 2
    MaxItems = 2
    MaxEvents = 3
    Clients = {1, 2}
    Slots = {1}
    Requests <- WebRequests
    Small = 1
    Timeout = 1
    MaxTime = 1
    MaxRequests = 3
    MaxSessions = 2
    HoldFrames = 1
    GapFrames = 1
    SettleFrames = 1
    ClickFrames = 2
    TapFrames = {1, 2}
    Texts <- PastedTexts
    PtyMax = 2
    Script <- JoyScript
    MaxActs = 3
INVARIANTS SerialExact RunControlSound InputsSound WebSound TapeSound SnapshotSound SettingsSound
\* every part stops at the bound of its events
CHECK_DEADLOCK FALSE
