\* MR.RST under a live connection.
SPECIFICATION ResetSpec
CONSTANTS
  SeqMod = 2
  Isns = {1}
  Mss = 2
  BufSize = 2
  RetxFrames = 1
  RetxMax = 1
  Segments <- MCSegments
  MaxBytes = 2
  WireCap = 0
  TxMayFail = FALSE
  WaitSendOk = TRUE
PROPERTIES ClosedStaysClosed
