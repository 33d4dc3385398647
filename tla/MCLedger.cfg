CONSTANTS
  Key = {k1, k2}
  Val = {v1, v2}
  Absent = Absent
  NotIn = NotIn
  MaxVersion = 2
  MaxRevs = 2
  MaxMarks = 2
  MaxMemRevs = 1
  MaxMemMarks = 1
SPECIFICATION Spec
SYMMETRY Symmetry
INVARIANTS CacheCoherent BothSidesRestorable
PROPERTIES CheckSideFollows MutableImplementsStore
CHECK_DEADLOCK FALSE
