\* Safety over a faulty wire.
SPECIFICATION LinkSpec
CONSTANTS
  SeqMod = 16
  Isns = {3}
  Mss = 2
  BufSize = 2
  RetxFrames = 1
  RetxMax = 1
  Segments = {}
  MaxBytes = 2
  WireCap = 2
  TxMayFail = FALSE
  WaitSendOk = TRUE
  Trials <- SafetyTrials
  PeerIsn = 5
  MaxFins = 2
INVARIANTS AckedBytesDelivered EndsInStep
PROPERTIES ImplementsPipes
\* a connection is followed until the stack drops it
CHECK_DEADLOCK FALSE
