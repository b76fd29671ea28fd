\* A latch of two with two waiters and two counters. The system stops when
\* every thread has returned, so a final state is no deadlock.
SPECIFICATION LatchSpec
CONSTANTS
  Thread = {w1, w2, c1, c2}
  Waiters = {w1, w2}
  Counters = {c1, c2}
  Count = 2
  NoThread = none
INVARIANTS LatchHolds NobodyAsleepAtZero
PROPERTIES ImplementsMonitor WaitersReleased
CHECK_DEADLOCK FALSE
