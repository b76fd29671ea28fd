\* One Thread object, the thread that owns it and the thread it starts. The
\* system stops when the object is destroyed or the process has crashed.
SPECIFICATION Spec
CONSTANTS
  Parent = parent
  Child = child
  Thread = {parent, child}
  Waiters = {parent}
  Counters = {child}
  Count = 1
  NoThread = none
INVARIANTS LifetimesKept StartPublishesTid
PROPERTY StartTerminates
CHECK_DEADLOCK FALSE
