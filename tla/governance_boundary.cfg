CONSTANTS
  p1 = p1
  p2 = p2
  k1 = k1
  NoKey = NoKey
  NoProposer = NoProposer
  h1 = h1
  h2 = h2
  Pool <- TwoPools
  Key = {k1}
  Amount <- Two
  Configs <- LongLockup
  GenesisSet <- FirstOnly
  GenesisStake <- LoneStake
  GenesisWallet <- JoinerWallet
  GenesisCirculating = 0
  OtherShares <- NoShares
  Inflation = FALSE
  CollectFees = TRUE
  MaxSetSize = 3
  MaxRemoved = 0
  MaxProposals = 0
  TicksPerSec = 1
  MaxTime = 2
  Hash = {h1}
  NoHash = NoHash
  NoThreshold = NoThreshold
  NoTime = NoTime
  GovernanceConfigs <- ShortBallot
  VoteAmount <- Nothing
  TransferAmount <- Nothing
  PartialAtGenesis <- On
  FlagSettings <- Nothing
  Testnet = FALSE
  Steps <- SingleStep
  MaxBallots = 1
SPECIFICATION GovernanceSpec
INVARIANTS
  UsedWithinPower
