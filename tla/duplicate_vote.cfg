SPECIFICATION FairSpec
CONSTANTS
  me = me
  p1 = p1
  p2 = p2
  p3 = p3
  Self = me
  PubKeys <- AllKeys
  ValidatorSets <- TwoValidators
  Challenges = {1}
  EventHeight <- OneHeight
  ExpiredHeight <- Expires2
  ObjectOf <- SameObject
  HasChallenger <- NoChallenger
  DbFaults = {}
  MaxHeight = 1
  MaxLag = 0
  MalformedBlocks = {}
  RpcFaults = FALSE
  HeartbeatIntervals = {5}
  SlashCoolingOffPeriods = {2}
  SpAnswers = {"mismatch"}
  RtyAttemNum = 2
  LimiterWeight = 2
  VerifierCacheSize = 1
  LocalVoteCacheSize = 1
  PoolAtStart <- OwnVoteInPool
  TxFaults = {}
  MaxSubmitAttempts = 1
  EventHashCacheSize = 1
  MaxQueryCount = 1
  Running = {"monitor", "verifier", "broadcaster", "collector", "collator"}
  Crashes = FALSE
  PeerBatches = {}
  OthersAttest = FALSE
  Forgetful = FALSE
PROPERTIES
  SavedVoteIsCollated
