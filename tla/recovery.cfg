SPECIFICATION RecoverySpec
CONSTANTS
  me = me
  p1 = p1
  p2 = p2
  p3 = p3
  Self = me
  PubKeys <- AllKeys
  ValidatorSets <- AllSets
  Challenges = {1}
  EventHeight <- OneHeight
  ExpiredHeight <- Expires2
  ObjectOf <- SameObject
  HasChallenger <- NoChallenger
  DbFaults = {"fail", "lost"}
  MaxHeight = 3
  MaxLag = 1
  MalformedBlocks = {3}
  RpcFaults = FALSE
  HeartbeatIntervals = {1}
  SlashCoolingOffPeriods = {2}
  SpAnswers = {"match"}
  RtyAttemNum = 1
  LimiterWeight = 2
  VerifierCacheSize = 1
  LocalVoteCacheSize = 1
  PoolAtStart = {}
  TxFaults = {}
  MaxSubmitAttempts = 1
  EventHashCacheSize = 1
  MaxQueryCount = 1
  Running = {"monitor", "verifier", "attestMonitor"}
  Crashes = TRUE
  PeerBatches = {}
  OthersAttest = TRUE
  Forgetful = TRUE
PROPERTIES
  EveryBlockIsSaved
  AttestedIsMarked
