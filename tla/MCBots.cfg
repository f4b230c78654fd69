CONSTANTS
  NoBid = NoBid
  Ticks = {1, 2}
  MaxLot = 2
  Hashes = {1, 2}
  MaxIncidents = 1
  NoBlock = NoBlock
  quorumVotesBPS = 1000
  CoefficientOne = 1000
  Voters = {"voter"}
  Votes = {0, 1}
  Jobs = {1, 2}
  MaxMishaps = 1

SPECIFICATION BotsSpec

INVARIANTS
  AnnouncedOnce
  RepliesStayInThread
  CopyWasAnnounced
  NothingRepeated

PROPERTIES
  LatestIsAnnounced

\* everything may have been announced
CHECK_DEADLOCK FALSE
