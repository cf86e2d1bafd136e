------------------------------ MODULE Executor ------------------------------
(***************************************************************************)
(* The executor (executor/executor.go): the values it caches from the      *)
(* chain under its mutex, the loops that refresh them, and the getters     *)
(* the other goroutines call.  chainState is the chain's own,              *)
(* external to this repository.                                            *)
(***************************************************************************)
EXTENDS Tables

CONSTANTS
  MaxHeight,           \* bound: the chain stops at this height
  MaxLag,              \* how many blocks the answering RPC node may be behind
  RpcFaults,           \* TRUE: a remote call may return an error
  ValidatorSets,       \* the validator sets (as BLS keys) the chain may have
  HeartbeatIntervals   \* values of the chain parameter HeartbeatInterval

VARIABLES
  chainHeight,         \* external: height of the chain
  chainValidators,     \* external: current validator set
  chainHeartbeat,      \* external: current heartbeat interval
  height,              \* Executor.height, 0 until first queried
  validators,          \* Executor.validators, empty until first refreshed
  heartbeatInterval    \* Executor.heartbeatInterval, 0 until first refreshed

chainState == <<chainHeight, chainValidators, chainHeartbeat>>
allButHeight == <<chainState, validators, heartbeatInterval>>
executorVars == <<allButHeight, height>>

ASSUME ExecutorAssumption ==
  /\ MaxHeight \in Nat \ {0} /\ MaxLag \in Nat
  /\ RpcFaults \in BOOLEAN
  /\ HeartbeatIntervals # {} /\ HeartbeatIntervals \subseteq Nat \ {0}
  /\ ValidatorSets # {}
  /\ \A V \in ValidatorSets : V # {} /\ V \subseteq PubKeys /\ IsFiniteSet(V)

Heights == 1 .. MaxHeight

GetLatestBlockHeight(h) ==
  /\ h \in Heights
  /\ h <= chainHeight /\ chainHeight <= h + MaxLag
  /\ height' = h

GetCachedBlockHeight(h) ==
  \/ height # 0 /\ h = height /\ UNCHANGED height
  \/ height = 0 /\ GetLatestBlockHeight(h)

\* GetCachedBlockHeight returns an error.
HeightUnavailable == RpcFaults /\ height = 0 /\ UNCHANGED height

QueryCachedLatestValidators == IF validators # {} THEN validators
                               ELSE chainValidators

\* QueryCachedLatestValidators returns an error.
ValidatorsUnavailable == RpcFaults /\ validators = {}

QueryChallengeHeartbeatInterval == IF heartbeatInterval # 0 THEN heartbeatInterval
                                   ELSE chainHeartbeat

\* QueryChallengeHeartbeatInterval returns an error.
HeartbeatUnavailable == RpcFaults /\ heartbeatInterval = 0

IsHeartbeat(c) == c % QueryChallengeHeartbeatInterval = 0

\* GetBlockAndBlockResultAtHeight answers, or returns an error: the node does not
\* have the block yet, or a call fails.
GetBlockAndBlockResultAtHeight(h) == h <= chainHeight
BlockUnavailableAtHeight(h) == h + MaxLag > chainHeight \/ RpcFaults

GetHeightLoop ==
  /\ \E h \in Heights : GetLatestBlockHeight(h)
  /\ UNCHANGED <<tableVars, allButHeight>>

CacheValidatorsLoop ==
  /\ validators' = chainValidators
  /\ UNCHANGED <<tableVars, chainState, height, heartbeatInterval>>

\* Mutation of UpdateHeartbeatIntervalLoop: only the first answer is kept.
KeepFirstHeartbeatInterval ==
  /\ heartbeatInterval = 0 /\ heartbeatInterval' = chainHeartbeat
  /\ UNCHANGED <<tableVars, chainState, height, validators>>

UpdateHeartbeatIntervalLoop ==
  /\ heartbeatInterval' = chainHeartbeat
  /\ UNCHANGED <<tableVars, chainState, height, validators>>

\* External: the chain produces a block.
NewBlock ==
  /\ chainHeight < MaxHeight
  /\ chainHeight' = chainHeight + 1
  /\ UNCHANGED <<tableVars, chainValidators, chainHeartbeat, height, validators,
                 heartbeatInterval>>

\* External: staking changes the validator set.
ChangeValidators ==
  /\ chainValidators' \in ValidatorSets \ {chainValidators}
  /\ UNCHANGED <<tableVars, chainHeight, chainHeartbeat, height, validators,
                 heartbeatInterval>>

\* External: governance changes the heartbeat interval.
ChangeHeartbeat ==
  /\ chainHeartbeat' \in HeartbeatIntervals \ {chainHeartbeat}
  /\ UNCHANGED <<tableVars, chainHeight, chainValidators, height, validators,
                 heartbeatInterval>>

\* What a restart of the process leaves of the executor's caches.
ExecutorRestart == height' = 0 /\ validators' = {} /\ heartbeatInterval' = 0

ExecutorInit ==
  /\ chainHeight = 1
  /\ chainValidators \in ValidatorSets
  /\ chainHeartbeat \in HeartbeatIntervals
  /\ height = 0 /\ validators = {} /\ heartbeatInterval = 0

ExecutorTypeOK ==
  /\ chainHeight \in Heights
  /\ height \in Heights \cup {0}
  /\ chainValidators \in ValidatorSets
  /\ validators \in ValidatorSets \cup {{}}
  /\ chainHeartbeat \in HeartbeatIntervals
  /\ heartbeatInterval \in HeartbeatIntervals \cup {0}
=============================================================================
