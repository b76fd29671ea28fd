SPECIFICATION Spec
CHECK_DEADLOCK FALSE
CONSTANTS
  Conn = {c1, c2}
  Loop = {l1, l2}
  Worker = {w1, w2}
  NoConn = NoConn
  kMaxLen = 2
  kTooLong = 6
  kMaxConnections = 1
  FileSizes = {0, 1, 3}
INVARIANTS
  FramesDelivered
  BroadcastComplete
  FileArrivesWhole
  AnsweredExactly
  RepliesMatch
