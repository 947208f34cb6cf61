\* Seven experiments on two drives of one-track images.
SPECIFICATION MCSpec
CONSTANTS
  i1 = i1
  i2 = i2
  d1 = d1
  d2 = d2
  Drives = {0, 1}
  Images = {i1, i2}
  NoImage = none
  Data = {d1, d2}
  Torn = torn
  TrackCount = 1
  MaxCyl = 1
  IdMod = 3
  TrackRoom = 2
  MaxSectors = 2
  ExecBuf = 2
  FormatDelay = 2
  Blank <- MCBlank
  WritesMayFail = TRUE
  OneDrivePerImage = TRUE
INVARIANTS FsmSound MirrorsFile PendingSeekTrue
PROPERTIES ProtectedFileUntouched WriteOkStored Served
