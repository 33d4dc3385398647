CONSTANTS
  Value = {b1, b2}
  Time = {t1, t2}
  Nil = Nil
  MaxVoteHeight = 2
  MaxRound = 1
  MaxSigned = 3
SPECIFICATION PVSpec
SYMMETRY Symmetry
INVARIANTS NoDoubleSign
PROPERTIES SavedStateAdvances
CHECK_DEADLOCK FALSE
