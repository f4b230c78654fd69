CONSTANTS
  Values = {1, 2}
  LastBlock = 7
  Electorate <- TwoCouncillors
  TotalNouns = 14
  Leanings <- ForAndAgainst
  Sales <- AliceSells
  Buyers = {"bob"}
  VotingDelays = {2}
  QuorumShares = {400}
  QuorumParams <- SteepQuorum
  VotingPeriod = 1
  ThresholdBPS = 1000
  MaxMade = 2
  LastHeight = 5
  MaxChanges = 2
  Tasks = {"deploy-and-configure", "deploy-and-configure-short-times", "deploy-and-configure-short-times-daov1", "run-local", "deploy-ci", "deploy-descriptor-v2", "deploy-v2-logic"}
  Chains = {"Mainnet", "Rinkeby", "hardhat"}
  MaxForeign = 1
  MaxByte = 3
  Sizes <- ImageSizes
  Colors = {"a", "b"}
  MaxImages = 2
  Lots <- LotsForSale
  Rivals = {"rival"}
  MaxBids = 2
  MaxNow = 2
  MaxWire = 2
  MaxSent = 1
  Routes = {1, 9}
  Recipients = {"token buyer", "not an address"}
  Amounts = {1}
  MaxActions = 2
  MaxDrift = 1
  Filters = {"proposals"}
  MAX_BLOCKS_PER_CALL = 2
  MaxBlock = 5
  MaxListeners = 2
  Addresses = {"0xa", "0xb"}
  ENS <- ENSNames
  DeepLinks = {"none", "a.eth", "0xb"}
  MaxSends = 2
  Support = {"For", "Against"}
  MaxVotes = 2
  Supplies = {7, 19}
  Shares = {1000, 1429, 3631, 6000}
  Coefficients = {0, 1, 2, 5}
  One = 2
  FeedNouns = {1, 2, 9, 10, 11}
  Holders = {"a", "b"}
  VotingBlocks = 2
  LastTx = 5
  Art <- TwoKinds
  Pictures = {"p"}
  Garbage = {"x"}
  DefaultKind = "heads"
  MaxFiles = 3
  Counts = {7}
  InitialChunk = 2
  RangeChunk = 4
  RowLength = 3
  NewNouns = 1
  MaxAstray = 3
  SeedIds = {0, 7}
  ZeroSeeds = {0}

SPECIFICATION ClientsSpec

INVARIANT DelegatesToEntered

\* a task ends, a page may have shown everything
CHECK_DEADLOCK FALSE
