SPECIFICATION PairSpec
CONSTANTS
  u1 = u1
  u2 = u2
  l1 = l1
  l2 = l2
  s1 = s1
  p1 = p1
  w1 = w1
  w2 = w2
  NoActor = NoActor
  Uploads <- OneUpload
  Lives <- TwoLives
  Summarizers <- None
  Posters <- None
  Workers <- OneWorker
  SessionRank <- TwoRanks
  Backend = "arq"
  MaxTries = 2
  DiscordOn = FALSE
  MaxFaults = 1
INVARIANTS TypeOK SummaryCoversJob
PROPERTIES AcceptedJobCompletes AcceptedSessionResolves
CHECK_DEADLOCK FALSE
