\* Retransmission, give-up and delivery.
SPECIFICATION LinkFair
CONSTANTS
  SeqMod = 16
  Isns = {3}
  Mss = 2
  BufSize = 2
  RetxFrames = 2
  RetxMax = 1
  Segments = {}
  MaxBytes = 2
  WireCap = 2
  TxMayFail = FALSE
  WaitSendOk = TRUE
  Trials <- LiveTrials
  PeerIsn = 5
  MaxFins = 2
PROPERTIES AttemptsResolve SentArrives
\* a connection is followed until the stack drops it
CHECK_DEADLOCK FALSE
