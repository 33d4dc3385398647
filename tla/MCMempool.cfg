SPECIFICATION Spec
CONSTANTS
  Addr = {"a", "b", "c", "n", "p"}
  Contracts = {"c"}
  Genesis <- Accounts
  Txs <- AllTxs
  Prices = {1, 2}
  None = None
  IntrinsicGas = 1
  MaxPool = 3
  MaxBlocks = 3
INVARIANTS  CheckBelow 
CHECK_DEADLOCK FALSE
