CONSTANTS
  a1 = a1
  a2 = a2
  a3 = a3
  Zero = Zero
  Accounts <- MCAccounts
  Tokens <- MCTokens
  Approvees = {}
  Operators = {}
  Signatures = {}
  MaxBlock = 2
SPECIFICATION Spec
SYMMETRY MCSymmetry
INVARIANTS
  VotesMatchDelegation
  NothingFrozen
PROPERTIES
  ImplementsVotingPower
