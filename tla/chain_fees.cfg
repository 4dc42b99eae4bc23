CONSTANTS
  p1 = p1
  p2 = p2
  p3 = p3
  k1 = k1
  NoKey = NoKey
  NoProposer = NoProposer
  Pool <- TwoPools
  Key = {k1}
  Amount <- Nothing
  Configs <- Rewarded
  GenesisSet <- FirstTwo
  GenesisStake <- Stakes
  GenesisWallet <- Wallets
  GenesisCirculating = 4
  OtherShares <- NoShares
  Inflation = TRUE
  CollectFees = TRUE
  MaxSetSize = 3
  MaxRemoved = 1
  MaxProposals = 0
  TicksPerSec = 1
  MaxTime = 3
  FeeAmount <- Two
  EpochInterval = 2
  BurnPercentage <- HalfBurn
  RandomnessAtGenesis = FALSE
  NoConfig = NoConfig
  NoSession = NoSession
  ConfigsNow <- Nothing
  ConfigsNext <- Nothing
SPECIFICATION ChainSpec
\* Governance can remove the last validator: the chain stops.
CHECK_DEADLOCK FALSE
INVARIANTS
  FeesReachValidators
PROPERTIES
  InflationWithinRate
  Spec
