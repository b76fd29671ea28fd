SPECIFICATION MCSpec
CHECK_DEADLOCK FALSE
CONSTANTS
  Threads = {t1, t2, t3}
  Key = {k1, k2}
  MaxStocks = 4
  None = none
  Observer = {o1, o2, o3}
  Lists = {l1, l2, l3, l4}
  Customer = {"c", "d"}
  Entries = {1}
INVARIANTS
  OneStockPerKey
  DeletersInTime
  ObserversAlive
  SnapshotsKept
