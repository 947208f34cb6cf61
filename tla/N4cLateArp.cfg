\* A next hop that resolves after the first retry.
SPECIFICATION LinkFair
CONSTANTS
  SeqMod = 16
  Isns = {3}
  Mss = 2
  BufSize = 2
  RetxFrames = 1
  RetxMax = 1
  Segments = {}
  MaxBytes = 0
  WireCap = 2
  TxMayFail = FALSE
  WaitSendOk = TRUE
  Trials <- ArpTrials
  PeerIsn = 5
  MaxFins = 2
PROPERTIES SynResolves
\* a connection is followed until the stack drops it
CHECK_DEADLOCK FALSE
