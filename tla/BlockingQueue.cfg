\* Three consumers and two producers, so that several wakeups are on their way
\* at once, with drain() racing them.
SPECIFICATION Spec
CONSTANTS
  Producers = {p1, p2}
  Consumers = {c1, c2, c3}
  Drainers = {d1}
  Item = {a, b}
  MaxPending = 3
INVARIANT ConsumersNotStranded
PROPERTY ImplementsFifo
