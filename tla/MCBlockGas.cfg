SPECIFICATION GasSpec
CONSTANTS
  Limits = {7, 12}
  Gas = {1, 2, 5, 7}
  MinTrxGas = 2
  IntrinsicGas = 3
  RefundQuotient = 2
  MaxTxs = 3
  MaxBlocks = 2
INVARIANTS PoolExact
PROPERTIES PoolShrinks
