CONSTANTS
  p1 = p1
  p2 = p2
  p3 = p3
  k1 = k1
  NoKey = NoKey
  NoProposer = NoProposer
  Pool <- TwoPools
  Key = {k1}
  Amount <- Nothing
  Configs <- Unrewarded
  GenesisSet <- FirstTwo
  GenesisStake <- Stakes
  GenesisWallet <- Wallets
  GenesisCirculating = 0
  OtherShares <- NoShares
  Inflation = FALSE
  CollectFees = TRUE
  MaxSetSize = 3
  MaxRemoved = 0
  MaxProposals = 0
  TicksPerSec = 1
  MaxTime = 4
  FeeAmount <- Nothing
  EpochInterval = 2
  BurnPercentage <- NoBurn
  RandomnessAtGenesis = TRUE
  NoConfig = NoConfig
  NoSession = NoSession
  ConfigsNow <- Either
  ConfigsNext <- Either
SPECIFICATION ChainSpec
INVARIANTS
  LockedIffSession
  DealersAreCurrent
PROPERTIES
  ChangesWithEpoch
