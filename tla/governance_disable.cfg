CONSTANTS
  p1 = p1
  p2 = p2
  k1 = k1
  NoKey = NoKey
  NoProposer = NoProposer
  h1 = h1
  h2 = h2
  Pool <- OnePool
  Key = {k1}
  Amount <- Nothing
  Configs <- LongLockup
  GenesisSet <- FirstOnly
  GenesisStake <- LoneStake
  GenesisWallet <- Wallets
  GenesisCirculating = 0
  OtherShares <- NoShares
  Inflation = FALSE
  CollectFees = TRUE
  MaxSetSize = 3
  MaxRemoved = 0
  MaxProposals = 0
  TicksPerSec = 1
  MaxTime = 2
  Hash = {h1}
  NoHash = NoHash
  NoThreshold = NoThreshold
  NoTime = NoTime
  GovernanceConfigs <- ShortBallot
  VoteAmount <- Three
  TransferAmount <- Nothing
  PartialAtGenesis <- On
  FlagSettings <- Off
  Testnet = FALSE
  Steps <- SingleStep
  MaxBallots = 2
SPECIFICATION GovernanceSpec
INVARIANTS
  PowerIsUsedOnce
