\* Interrupts with a counter of the code's proportions, two DMA channels and
\* two raster lines; memory, video, monitor and the V9990.
SPECIFICATION MachineSpec
CONSTANTS
  Parts = {"irq", "memory", "crtc", "beam", "v9990"}
  Period = 5
  Half = 3
  Channels = {0, 1}
  Lines = {1, 2}
  MaxSince = 5
  Models = {"464", "6128", "6128plus"}
  RamPages = {4, 8}
  GaBytes = {140, 184, 171, 194, 203, 255}
  RomSelects = {6, 133}
  RomSlots = {{6, 7}}
  Groups = {0, 1, 7}
  Highs = {0, 1, 3}
  PageSize = 2
  MaxMapEvents = 3
  Cartridges <- MCCartridges
  Ports <- MCPorts
  CardSets <- MCCardSets
  HMod = 6
  VMod = 4
  RMod = 4
  MaMod = 32
  HswMod = 4
  VswMod = 4
  Cutoff = 2
  MinVsyncHend = 2
  CrtcTypes = {1, 2}
  PowerOn <- MCPowerOn
  Writes <- MCWrites
  MaxWrites = 2
  MaxLoads = 1
  LineSources <- MCLineSources
  MinVhold = 5
  MinVsync = 8
  MaxVsync = 20
  Phases = {20}
  Settle = 470
  Watch = 60
  Tolerance = 1
  MaxDisturb = 1
  GuestPrograms <- MCGuestPrograms
INVARIANTS TypeOK LineIsRequest RequestHasSource MemorySound CrtcSound BeamSound V9990Sound
PROPERTIES VectorNamesAcknowledged RequestsApart
CONSTRAINT Recent
