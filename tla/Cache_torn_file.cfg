SPECIFICATION Spec
CONSTANTS
  Threads = {t1, t2}
  Payloads = {p1, p2, p3}
  Inodes = {i1, i2, i3, i4}
  MaxEntries = 2
  MaxDrains = 1
  MaxCrashes = 0
  MaxFaults = 0
SYMMETRY Symmetry
CHECK_DEADLOCK FALSE
INVARIANTS FileNeverPartial
