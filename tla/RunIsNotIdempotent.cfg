SPECIFICATION Spec
CONSTANTS
  u1 = u1
  u2 = u2
  l1 = l1
  l2 = l2
  s1 = s1
  p1 = p1
  w1 = w1
  w2 = w2
  NoActor = NoActor
  Uploads <- OneUpload
  Lives <- None
  Summarizers <- None
  Posters <- None
  Workers <- OneWorker
  SessionRank <- NoRank
  Backend = "arq"
  MaxTries = 3
  DiscordOn = TRUE
  MaxFaults = 1
INVARIANT OneSummaryPerVersion
CHECK_DEADLOCK FALSE
