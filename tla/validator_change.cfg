SPECIFICATION Spec
CONSTANTS
  me = me
  p1 = p1
  p2 = p2
  p3 = p3
  Self = me
  PubKeys <- AllKeys
  ValidatorSets <- RotatingValidators
  Challenges = {1}
  EventHeight <- OneHeight
  ExpiredHeight <- Expires2
  ObjectOf <- SameObject
  HasChallenger <- NoChallenger
  DbFaults = {}
  MaxHeight = 1
  MaxLag = 0
  MalformedBlocks = {}
  RpcFaults = FALSE
  HeartbeatIntervals = {5}
  SlashCoolingOffPeriods = {2}
  SpAnswers = {"mismatch"}
  RtyAttemNum = 2
  LimiterWeight = 2
  VerifierCacheSize = 1
  LocalVoteCacheSize = 1
  PoolAtStart = {}
  TxFaults = {}
  MaxSubmitAttempts = 1
  EventHashCacheSize = 1
  MaxQueryCount = 1
  Running = {"validators", "monitor", "verifier", "broadcaster", "collector", "collator"}
  Crashes = FALSE
  PeerBatches <- PeerVotes
  OthersAttest = FALSE
  Forgetful = FALSE
PROPERTIES
  CollatedByTwoThirds
