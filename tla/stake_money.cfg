CONSTANTS
  p1 = p1
  p2 = p2
  p3 = p3
  k1 = k1
  NoKey = NoKey
  NoProposer = NoProposer
  Pool <- TwoPools
  Key = {k1}
  Amount <- Two
  Configs <- Rewarded
  GenesisSet <- FirstOnly
  GenesisStake <- LoneStake
  GenesisWallet <- SmallWallet
  GenesisCirculating = 1
  OtherShares <- TenPercent
  Inflation = FALSE
  CollectFees = TRUE
  MaxSetSize = 3
  MaxRemoved = 0
  MaxProposals = 0
  TicksPerSec = 1
  MaxTime = 2
SPECIFICATION Spec
INVARIANTS
  IncreaseWithinLimit
  VotingPowerIsSnapshot
  PoolsAreBacked
  SupplyIsConserved
PROPERTIES
  LockupIsRespected
