CONSTANTS
  p1 = p1
  p2 = p2
  k1 = k1
  NoKey = NoKey
  NoProposer = NoProposer
  h1 = h1
  h2 = h2
  Pool <- OnePool
  Key = {k1}
  Amount <- Nothing
  Configs <- LongLockupRewarded
  GenesisSet <- FirstOnly
  GenesisStake <- LoneStake
  GenesisWallet <- Wallets
  GenesisCirculating = 0
  OtherShares <- NoShares
  Inflation = FALSE
  CollectFees = TRUE
  MaxSetSize = 3
  MaxRemoved = 0
  MaxProposals = 0
  TicksPerSec = 1
  MaxTime = 2
  Hash = {h1}
  NoHash = NoHash
  NoThreshold = NoThreshold
  NoTime = NoTime
  GovernanceConfigs <- ShortBallot
  VoteAmount <- Three
  TransferAmount <- Nothing
  PartialAtGenesis <- Either
  FlagSettings <- Either
  Testnet = TRUE
  Steps <- BothKinds
  MaxBallots = 1
  a1 = a1
  a2 = a2
  a3 = a3
  self = self
  Address <- Addresses
  Account = self
  OwnerLists <- Lists
  Payloads <- Changes
  NoChange = NoChange
  MaxTransactions = 2
SPECIFICATION ApprovalsSpec
\* When the last transaction of a multisig account is resolved nothing is left
\* to do.
CHECK_DEADLOCK FALSE
INVARIANTS
  ThresholdReachable
  StartedIsFinishable
  VotesAreBacked
  EarlyResolutionIsDefinitive
PROPERTIES
  ResolvedByOwners
  ChangesByApproval
