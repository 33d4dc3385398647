SPECIFICATION GovSpec
CONSTANTS
  Prop = {1}
  Field = {"f", "g"}
  ValidatorSets <- Changing
  Payload <- Proposals
  Byzantine = {1, 3}
  MaxEvidence = 2
  InitParams <- Genesis
  SlashRate = 50
  MinVotingPeriodBlocks = 1
  MaxVotingPeriodBlocks = 2
  LazyApplyingBlocks = 1
  Nil = Nil
INVARIANTS Tallied DecidedByBallots
PROPERTIES ParamsChangeByVote ProposalsEnd
