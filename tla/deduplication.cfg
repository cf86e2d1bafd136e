SPECIFICATION FairSpec
CONSTANTS
  me = me
  p1 = p1
  p2 = p2
  p3 = p3
  Self = me
  PubKeys <- AllKeys
  ValidatorSets <- AllSets
  Challenges = {1, 2, 3, 4}
  EventHeight <- TwoByTwo
  ExpiredHeight <- Expires9
  ObjectOf <- TwoObjects
  HasChallenger <- ThirdHasChallenger
  DbFaults = {"lost"}
  MaxHeight = 2
  MaxLag = 0
  MalformedBlocks = {}
  RpcFaults = FALSE
  HeartbeatIntervals = {5}
  SlashCoolingOffPeriods = {0, 1, 2}
  SpAnswers = {"match"}
  RtyAttemNum = 2
  LimiterWeight = 2
  VerifierCacheSize = 2
  LocalVoteCacheSize = 1
  PoolAtStart = {}
  TxFaults = {}
  MaxSubmitAttempts = 1
  EventHashCacheSize = 1
  MaxQueryCount = 1
  Running = {"monitor", "verifier"}
  Crashes = FALSE
  PeerBatches = {}
  OthersAttest = FALSE
  Forgetful = FALSE

  
PROPERTIES
  EveryEventIsProcessed
