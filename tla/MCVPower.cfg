SPECIFICATION Spec
CONSTANTS
  Addr = {1, 2, 3}
  GenesisPower <- TwoValidators
  GenesisBalance <- NoAccount
  Hash = {0, 1, 2}
  Power = {1, 2}
  Faulty = {1, 2}
  MaxTxs = 2
  MaxChecks = 1
  MaxValidatorCnts = {2}
  MinValidatorPower = 2
  MinDelegatorPower = 1
  MinSelfPowerRate = 50
  MaxUpdatablePowerRate = 33
  SlashRate = 50
  LazyUnbondingBlocks = 1
  InflationCycleBlocks = 3
  MinSignedBlocks = 1
  None = None
INVARIANTS PowersAgree ValueConserved EngineFollows MissesBounded AddedWithinLimit
CHECK_DEADLOCK FALSE
