CONSTANTS
  a1 = a1
  a2 = a2
  a3 = a3
  Zero = Zero
  Accounts <- MCTwoAccounts
  Tokens <- MCTokens
  Approvees <- MCApproved
  Operators <- MCApproved
  Signatures <- MCSignatures
  MaxBlock = 2
SPECIFICATION Spec
INVARIANTS
  VotesNeverExceedNouns
PROPERTIES
  PastVotesFinal
