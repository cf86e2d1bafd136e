SPECIFICATION Spec
CONSTANTS
  me = me
  p1 = p1
  p2 = p2
  p3 = p3
  Self = me
  PubKeys <- AllKeys
  ValidatorSets <- TwoValidators
  Challenges = {1}
  EventHeight <- OneHeight
  ExpiredHeight <- Expires2
  ObjectOf <- SameObject
  HasChallenger <- NoChallenger
  DbFaults = {"fail", "lost"}
  MaxHeight = 1
  MaxLag = 0
  MalformedBlocks = {}
  RpcFaults = FALSE
  HeartbeatIntervals = {1}
  SlashCoolingOffPeriods = {2}
  SpAnswers = {"match", "mismatch"}
  RtyAttemNum = 1
  LimiterWeight = 2
  VerifierCacheSize = 1
  LocalVoteCacheSize = 1
  PoolAtStart = {}
  TxFaults = {"rejected", "lost", "duplicatedSlash"}
  MaxSubmitAttempts = 1
  EventHashCacheSize = 1
  MaxQueryCount = 1
  Running = {"monitor", "verifier", "broadcaster", "collector", "collator", "submitter", "attestMonitor"}
  Crashes = TRUE
  PeerBatches <- PeerVotes
  OthersAttest = TRUE
  Forgetful = TRUE
INVARIANTS
  SafetyInv
  EvidenceInv
  SavedBeforeBroadcast
  AttestedIsTruthful
PROPERTIES
  StatusAdvances
  KeepsContract
