\* The instance of LogRecord.cfg: what formatSI's comment says of its length.
SPECIFICATION MCSpec
CHECK_DEADLOCK FALSE
CONSTANTS
  SIZE = 130
  kMaxNumericSize = 32
  Threads = {t1}
  Zones <- MCZones
  NoZone = NoZone
  UserPieces <- MCUserPieces
  MaxPieces = 2
  Seconds = {144000, 144001}
  MaxTid = 2
INVARIANTS
  AtMostFiveCharacters
