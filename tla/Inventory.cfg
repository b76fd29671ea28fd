\* Two workers and two printers. Copy() happens when a printer has or had the
\* current set object, so one object more than printers is enough.
SPECIFICATION Spec
CONSTANTS
  Workers = {w1, w2}
  Elem = {w1, w2}
  Printers = {p1, p2}
  Threads = {w1, w2, p1, p2}
  Lists = {l1, l2, l3}
  None = none
INVARIANT PrintsTheLiving
PROPERTIES ImplementsSharedSet EverybodyReturns
