SPECIFICATION AppSpec
CONSTANTS
  MaxHeight = 3
  MaxCrashes = 2
  MaxStarts = 4
  GasLimits = {1, 2}
INVARIANTS ReportedStateIsExact TotalsNotOver
PROPERTIES RecoversWhenWhole 
CHECK_DEADLOCK FALSE
