SPECIFICATION Spec
CONSTANTS
  me = me
  p1 = p1
  p2 = p2
  p3 = p3
  Self = me
  PubKeys <- AllKeys
  ValidatorSets <- AllSets
  Challenges = {1, 2}
  EventHeight <- ByHeight
  ExpiredHeight <- ExpiresSoon
  ObjectOf <- SameObject
  HasChallenger <- NoChallenger
  DbFaults = {"fail", "lost"}
  MaxHeight = 4
  MaxLag = 1
  MalformedBlocks = {4}
  RpcFaults = TRUE
  HeartbeatIntervals = {2}
  SlashCoolingOffPeriods = {1}
  SpAnswers = {"match", "mismatch", "unreadable", "error"}
  RtyAttemNum = 2
  LimiterWeight = 2
  VerifierCacheSize = 1
  LocalVoteCacheSize = 1
  PoolAtStart = {}
  TxFaults = {}
  MaxSubmitAttempts = 1
  EventHashCacheSize = 1
  MaxQueryCount = 1
  Running = {"heights", "monitor", "verifier", "broadcaster"}
  Crashes = TRUE
  PeerBatches = {}
  OthersAttest = FALSE
  Forgetful = FALSE
INVARIANTS
  TypeOK
  NoEquivocation
  NoGap
  NoMissedEvent
PROPERTIES
  ResultIsFinal
