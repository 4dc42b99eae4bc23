CONSTANTS
  p1 = p1
  p2 = p2
  p3 = p3
  k1 = k1
  NoKey = NoKey
  NoProposer = NoProposer
  Pool <- ThreePools
  Key = {k1}
  Amount <- Nothing
  Configs <- RisingMinimum
  GenesisSet <- AllThree
  GenesisStake <- Stakes
  GenesisWallet <- Wallets
  GenesisCirculating = 0
  OtherShares <- NoShares
  Inflation = FALSE
  CollectFees = TRUE
  MaxSetSize = 3
  MaxRemoved = 2
  MaxProposals = 0
  TicksPerSec = 1
  MaxTime = 2
SPECIFICATION Spec
INVARIANTS
  QueuesDisjoint
  IndicesMatchPerformance
  TotalIsSumOfSnapshots
