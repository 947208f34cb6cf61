\* Any segments, a TAP that may fail, a driver that waits for SEND_OK.
SPECIFICATION Spec
CONSTANTS
  SeqMod = 2
  Isns = {1}
  Mss = 2
  BufSize = 2
  RetxFrames = 1
  RetxMax = 1
  Segments <- MCSegments
  MaxBytes = 2
  WireCap = 0
  TxMayFail = TRUE
  WaitSendOk = TRUE
INVARIANTS TypeOK StatusMirrorsStack RxRingSound TxRingSound SendOkMeansAcked
PROPERTIES EstablishedByHandshake ClosedStaysClosed
