SPECIFICATION Spec
CONSTANTS
  me = me
  p1 = p1
  p2 = p2
  p3 = p3
  Self = me
  PubKeys <- AllKeys
  ValidatorSets <- AllSets
  Challenges = {1, 2, 3}
  EventHeight <- OneHeight
  ExpiredHeight <- Expires2
  ObjectOf <- SameObject
  HasChallenger <- NoChallenger
  DbFaults = {}
  MaxHeight = 1
  MaxLag = 0
  MalformedBlocks = {}
  RpcFaults = FALSE
  HeartbeatIntervals = {5}
  SlashCoolingOffPeriods = {1}
  SpAnswers = {"match", "mismatch"}
  RtyAttemNum = 2
  LimiterWeight = 2
  VerifierCacheSize = 1
  LocalVoteCacheSize = 1
  PoolAtStart = {}
  TxFaults = {}
  MaxSubmitAttempts = 1
  EventHashCacheSize = 1
  MaxQueryCount = 1
  Running = {"monitor", "verifier"}
  Crashes = FALSE
  PeerBatches = {}
  OthersAttest = FALSE
  Forgetful = FALSE
INVARIANTS
  NoNilDereference
