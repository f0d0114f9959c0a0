SPECIFICATION Spec
CONSTANTS
  u1 = u1
  u2 = u2
  l1 = l1
  l2 = l2
  s1 = s1
  p1 = p1
  w1 = w1
  w2 = w2
  NoActor = NoActor
  Uploads <- OneUpload
  Lives <- OneLive
  Summarizers <- None
  Posters <- None
  Workers <- TwoWorkers
  SessionRank <- OneRank
  Backend = "inline"
  MaxTries = 1
  DiscordOn = FALSE
  MaxFaults = 1
SYMMETRY WorkerSymmetry
INVARIANTS AnsweredUploadIsProcessed
CHECK_DEADLOCK FALSE
