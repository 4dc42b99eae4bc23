CONSTANTS
  k1 = k1
  k2 = k2
  small = small
  large = large
  Key <- Keys
  Val <- Vals
  Missing = Missing
  NoTable = NoTable
  Size <- Sizes
  Gas <- Schedule
  PageSize = 2
  GasLimit = 7
  MaxSessions = 2
  MaxNew = 2
  short = short
  long = long
  MaxOf <- Largest
  Inputs = {1, 2}
  Texts <- Strings
  TextLength <- Lengths
  DerivedStringInputMaxLength = 1
  Nothing = Nothing
  NoBound = NoBound
  MaxOps = 3
  Library <- TheLibrary
  COMPLEXITY_BUDGET = 40
  Addr = {"A", "B"}
  CodeObject = {"B"}
  Exempted = {"0x1"}
  CoreModules <- Ids
  ModuleName = {"m", "n", "r"}
  Publication <- Publications
  Sources <- SomeSources
  Versions <- TwoVersions
  FeatureSets <- Rollout
  MaxUpgrades = 1
SPECIFICATION Spec
SYMMETRY Symmetry
\* When the last session of the bound on tables has committed nothing is left
\* to do.
CHECK_DEADLOCK FALSE
INVARIANTS
  TablesIInv
  LoadsArePaid
  PlainAgrees
  NoNeedlessFailure
  RegistryMatchesCode
  ImportsAreDeclared
  BuildsAreAccepted
  AttributesAreTrue
PROPERTIES
  ImplementsMaps
  CommitsAreSerial
  UpgradesKeepPromises
