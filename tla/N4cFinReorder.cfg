\* A FIN that overtakes lost data.
SPECIFICATION LinkSpec
CONSTANTS
  SeqMod = 16
  Isns = {3}
  Mss = 2
  BufSize = 2
  RetxFrames = 1
  RetxMax = 1
  Segments = {}
  MaxBytes = 0
  WireCap = 2
  TxMayFail = FALSE
  WaitSendOk = TRUE
  Trials <- FinTrials
  PeerIsn = 5
  MaxFins = 2
INVARIANTS AckedBytesDelivered
\* a connection is followed until the stack drops it
CHECK_DEADLOCK FALSE
