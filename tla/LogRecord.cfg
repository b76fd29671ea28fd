\* A line of up to two pieces may fill a buffer of 130 bytes or not; the
\* lengths meet its end in every way.  abort() ends the process and the
\* inputs of the conversions have no successors: no deadlock check.
SPECIFICATION MCSpec
CHECK_DEADLOCK FALSE
CONSTANTS
  SIZE = 130
  kMaxNumericSize = 32
  Threads = {t1}
  Zones <- MCZones
  NoZone = NoZone
  UserPieces <- MCUserPieces
  MaxPieces = 2
  Seconds = {144000, 144001}
  MaxTid = 2
INVARIANTS
  ConversionsExact
  ZoneInForce
  LineShape
  StampsTrue
