SPECIFICATION EitherSpec
CONSTANTS
  u1 = u1
  u2 = u2
  l1 = l1
  l2 = l2
  s1 = s1
  p1 = p1
  w1 = w1
  w2 = w2
  NoActor = NoActor
  Uploads <- OneUpload
  Lives <- None
  Summarizers <- OneSummarizer
  Posters <- OnePoster
  Workers <- TwoWorkers
  SessionRank <- NoRank
  Backend = "arq"
  MaxTries = 2
  DiscordOn = TRUE
  MaxFaults = 2
INVARIANTS StatusEvidence SummariesBoundedByTries SucceededRunDelivered
PROPERTY MeetingSettles
CHECK_DEADLOCK FALSE
