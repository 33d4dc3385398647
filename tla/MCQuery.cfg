SPECIFICATION Spec
CONSTANTS
  NAddr = 2
  NProp = 1
  Params <- AllParams
  Genesis <- One
  Topics <- AllTopics
  MaxHeight = 2
  MaxTxs = 1
  MaxPower = 2
  MaxTold = 2
INVARIANTS AnswersStable AnswersAgree
CHECK_DEADLOCK FALSE
