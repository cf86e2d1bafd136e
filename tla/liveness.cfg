SPECIFICATION FairSpec
CONSTANTS
  me = me
  p1 = p1
  p2 = p2
  p3 = p3
  Self = me
  PubKeys <- AllKeys
  ValidatorSets <- TwoValidators
  Challenges = {1}
  EventHeight <- OneHeight
  ExpiredHeight <- Expires2
  ObjectOf <- SameObject
  HasChallenger <- NoChallenger
  DbFaults = {}
  MaxHeight = 1
  MaxLag = 0
  MalformedBlocks = {}
  RpcFaults = FALSE
  HeartbeatIntervals = {1, 2}
  SlashCoolingOffPeriods = {2}
  SpAnswers = {"match", "mismatch"}
  RtyAttemNum = 2
  LimiterWeight = 2
  VerifierCacheSize = 1
  LocalVoteCacheSize = 1
  PoolAtStart = {}
  TxFaults = {"rejected"}
  MaxSubmitAttempts = 1
  EventHashCacheSize = 1
  MaxQueryCount = 1
  Running = {"heartbeat", "monitor", "verifier", "broadcaster", "collector", "collator", "submitter"}
  Crashes = FALSE
  PeerBatches <- PeerVotes
  OthersAttest = FALSE
  Forgetful = FALSE
PROPERTIES
  SavedVoteIsBroadcast
  MismatchIsSubmitted
  HeartbeatIsVoted
