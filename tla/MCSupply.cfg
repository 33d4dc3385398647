SPECIFICATION Spec
CONSTANTS
  Benefs <- ThreeBenefs
  GenesisPower <- ThreePowers
  GenesisBalance = 5
  Unit = 100
  Word = 1000
  Part1 <- Concave
  Fee = 1
  Cycles = {1, 2, 3}
  MaxSupplies = {40}
  ValRate = 30
  SlashRate = 50
  MinSignedBlocks = 0
  LazyUnbondingBlocks = 1
  Byzantine = {"v"}
  Absent = {"w"}
  MaxTxs = 1
  WithdrawAmts = {2, 5, 20}
  MaxHeight = 3
  MaxCrashes = 1
INVARIANTS  MintedFromPreviousBlock WithinMax
PROPERTIES BlocksEnd
CHECK_DEADLOCK FALSE
