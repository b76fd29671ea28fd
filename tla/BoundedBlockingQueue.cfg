\* Three producers and three consumers over two slots: more waiters than slots on
\* either side, so that a wakeup can be stolen by a newcomer or wasted.
SPECIFICATION Spec
CONSTANTS
  Producers = {p1, p2, p3}
  Consumers = {c1, c2, c3}
  Item = {a, b}
  Capacity = 2
INVARIANTS ConsumersNotStranded ProducersNotStranded
PROPERTY ImplementsFifo
