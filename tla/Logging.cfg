\* Six messages, and a backlog of more than three buffers (25 in the code) is
\* dropped. The logger stops when stop() has returned and no append() is left.
\* For the file: days of three seconds, a check every third line, and a clock
\* that is set back once.
SPECIFICATION MCSpec
CONSTANTS
  MaxBacklog = 3
  MaxAppends = 6
  rollSize = 3
  flushInterval = 1
  checkEveryN = 3
  Period = 3
  MaxLine = 2
  MaxTime = 8
  MaxSetbacks = 1
INVARIANTS BuffersRecycled OrderKept DropsAnnounced NamesDistinct LinesBounded
PROPERTIES MessagesReachFile StopTerminates
CHECK_DEADLOCK FALSE
