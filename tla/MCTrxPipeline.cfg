CONSTANTS
  a = a  b = b  n = n  k = k  z = z  v = v
  Addr <- MCAddr
  ZeroAddress = z
  Proposer = v
  DeadAddress = z
  NoAcct = NoAcct
  Nil = Nil
  GasPrice = 1
  MinTrxGas = 2
  Txs <- MCTxs
  Genesis <- MCGenesis
  NWorkers = 2
  ChanCap = 1
  GasLimit = 5
  TxFeeRewardRate = 30
  MaxTxs <- ThreeThenTwo
  MaxHeight = 2
SPECIFICATION Spec
INVARIANTS ContextsShareObjects EndBlockIsSafe NothingLost
PROPERTIES ValidatedTrxIsCharged ImplementsSerialBlock
CHECK_DEADLOCK FALSE
