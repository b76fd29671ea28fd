\* pthread_create fails for one of the threads. The system stops when stop() has returned or the process has died.
SPECIFICATION Spec
CONSTANTS
  c1 = c1
  c2 = c2
  a = a
  b = b
  c = c
  d = d
  e = e
  none = none
  MaxThreads = 2
  Callers = {c1, c2}
  Task <- MCTask
  NoTask = none
  Roots <- MCRoots
  Child <- MCChild
  Throwing = {c}
  MaxQueueSize = 1
INVARIANT JoinsOnlyStarted
CHECK_DEADLOCK FALSE
