CONSTANTS
  alice = alice
  bob = bob
  Accounts <- MCAccounts
  Nobody = Nobody
  Governor = Governor
  Executor = Executor
  Vetoer = bob
  Payloads <- MCTwins
  MaxProposals = 2
  MaxBlock = 6
  MaxSupply = 10
  Intentions <- MCOnlyAlice
  Moves = {}
  InitialVotes <- MCInitialVotes
  InitialSupply = 10
  Heirs = {alice}
  InitialSettings <- MCInitialSettings
  InitialDelay = 1
  quorumVotesBPS = 1000
  NoBlock = NoBlock
  CoefficientOne = 1000
  MINIMUM_DELAY = 1
  MAXIMUM_DELAY = 2
  GRACE_PERIOD = 1
  MIN_VOTING_DELAY = 1
  MAX_VOTING_DELAY = 2
  MIN_VOTING_PERIOD = 1
  MAX_VOTING_PERIOD = 2
SPECIFICATION AppSpec
INVARIANTS
  QueuedIsCurrent
CHECK_DEADLOCK FALSE
