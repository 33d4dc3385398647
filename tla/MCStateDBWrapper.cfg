SPECIFICATION Spec
CONSTANTS
  Addr = {"e", "c", "n"}
  Coinbase = "n"
  Genesis <- ThreeAccounts
  Amounts = {0, 1}
  MaxTxs = 2
  MaxDepth = 2
  MaxCalls = 2
  MaxSnaps = 6
INVARIANTS WarmIsLoaded
PROPERTIES ImplementsNestedCalls
CHECK_DEADLOCK FALSE
