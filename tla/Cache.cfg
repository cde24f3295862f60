SPECIFICATION Spec
CONSTANTS
  Threads = {t1, t2}
  Payloads = {p1, p2, p3}
  Inodes = {i1, i2, i3, i4}
  MaxEntries = 1
  MaxDrains = 2
  MaxCrashes = 1
  MaxFaults = 1
SYMMETRY Symmetry
CHECK_DEADLOCK FALSE
INVARIANTS MirroredIfAlone NothingVanishesIfAlone OvershootBounded
