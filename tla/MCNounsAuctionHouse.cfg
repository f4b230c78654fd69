CONSTANTS
  Zero = Zero
  DAO = DAO
  Unounders = Unounders
  Unouncil = Unouncil
  House = House
  HallOfFame = HallOfFame
  NounsTreasury = NounsTreasury
  NotYet = NotYet
  b1 = b1
  b2 = b2
  otherMinter = otherMinter
  NewMinters <- MCNewMinters
  Nouns = {2, 3, 88, 89, 90}
  Bidders <- MCBidders
  RejectsETH <- MCRejectsETH
  StartIds = {2, 88}
  Budget = 2
  ShareTime = 3
  Duration = 1
  TimeBuffers = {2}
  ReservePrices = {1}
  Percentages = {0, 100}
SPECIFICATION FairSpec
INVARIANTS
  HouseHoldsLiveBid
  ProceedsForwarded
PROPERTIES
  HouseKeepsTheLot
  ImplementsEnglishAuction
  AuctionsGetSettled
