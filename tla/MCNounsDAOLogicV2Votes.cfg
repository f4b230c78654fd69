CONSTANTS
  alice = alice
  bob = bob
  Accounts <- MCAccounts
  Nobody = Nobody
  Governor = Governor
  Executor = Executor
  Vetoer = Nobody
  Payloads <- MCReforms
  MaxProposals = 2
  MaxBlock = 6
  MaxSupply = 11
  Intentions <- MCDivided
  Moves <- MCMoves
  InitialVotes <- MCInitialVotes
  InitialSupply = 10
  Heirs = {}
  InitialSettings <- MCInitialSettings
  InitialDelay = 1
  quorumVotesBPS = 1000
  NoBlock = NoBlock
  CoefficientOne = 1000
  MINIMUM_DELAY = 1
  MAXIMUM_DELAY = 2
  GRACE_PERIOD = 1
  MIN_VOTING_DELAY = 1
  MAX_VOTING_DELAY = 2
  MIN_VOTING_PERIOD = 1
  MAX_VOTING_PERIOD = 2
SPECIFICATION AppSpec
INVARIANTS
  VotesAreSnapshots
  IndexedQuorumIsGovernors
  DisplayedIsGovernors
CHECK_DEADLOCK FALSE
PROPERTIES
  ImplementsLifecycle
