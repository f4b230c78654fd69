CONSTANTS
  a1 = a1
  a2 = a2
  Zero = Zero
  NoDelegate = NoDelegate
  Creator = a1
  Accounts <- MCAccounts
  Tokens <- MCTokens
  Approvees = {}
  Operators = {}
  Signatures <- MCSignatures
  MaxBlock = 1
  MaxOdd = 1
  MaxCopies = 2
SPECIFICATION IndexSpec
INVARIANTS
  ListsEnumerate
  VotesIndexed
  AccountsIndexed
CHECK_DEADLOCK FALSE
