-------------------------- MODULE ChallengerProofs --------------------------
(***************************************************************************)
(* Type correctness of Challenger, for every value of its constants.       *)
(***************************************************************************)
EXTENDS Challenger, TLAPS

\* An LRU cache holds the entry just added and otherwise only old entries.
LEMMA LruAddBounds ==
  ASSUME NEW S, NEW cache \in SUBSET S, NEW x \in S, NEW n \in Nat,
         NEW new \in LruAdd(cache, x, n)
  PROVE  new \in SUBSET S /\ x \in new
  BY DEF LruAdd

\* The initial states of Challenger are well typed.
LEMMA InitType == Init => TypeOK
<1> SUFFICES ASSUME Init PROVE TypeOK
  OBVIOUS
<1> USE DEF Init
<1>1. TablesTypeOK
  BY TablesAssumption DEF TablesInit, TablesTypeOK, VerifyResult
<1>2. ExecutorTypeOK
  BY ExecutorAssumption DEF ExecutorInit, ExecutorTypeOK, Heights
<1>3. MonitorTypeOK
  BY ExecutorAssumption DEF MonitorInit, MonitorTypeOK, TablesInit
<1>4. VerifierTypeOK
  BY VerifierAssumption
  DEF VerifierInit, VerifierTypeOK, FirstIntervals, VerLoop, VerErr, VerStage
<1>5. BroadcasterTypeOK /\ CollectorTypeOK /\ CollatorTypeOK /\ pool \subseteq Vote
  BY VoteUtilAssumption
  DEF BroadcasterInit, BroadcasterTypeOK, CollectorInit, CollectorTypeOK,
      CollatorInit, CollatorTypeOK
<1>6. SubmitterTypeOK
  <2>1. periodOver \in BOOLEAN
    BY DEF SubmitterInit
  <2>2. submittedAttempts \in 0 .. MaxSubmitAttempts + 1
    BY SubmitterAssumption DEF SubmitterInit
  <2> QED
    BY <2>1, <2>2 DEF SubmitterInit, SubmitterTypeOK, SubLoop
<1>7. AttestMonitorTypeOK
  BY AttestMonitorAssumption DEF AttestMonitorInit, AttestMonitorTypeOK
<1> QED
  BY <1>1, <1>2, <1>3, <1>4, <1>5, <1>6, <1>7 DEF TypeOK

\* A component whose variables do not change stays well typed.
LEMMA TypeFrame ==
  ASSUME TypeOK
  PROVE  /\ UNCHANGED tableVars => TablesTypeOK'
         /\ UNCHANGED executorVars => ExecutorTypeOK'
         /\ UNCHANGED <<monitorVars, blocks>> => MonitorTypeOK'
         /\ UNCHANGED verifierVars => VerifierTypeOK'
         /\ UNCHANGED pool => (pool \subseteq Vote)'
         /\ UNCHANGED broadcasterVars => BroadcasterTypeOK'
         /\ UNCHANGED collectorVars => CollectorTypeOK'
         /\ UNCHANGED collatorVars => CollatorTypeOK'
         /\ UNCHANGED <<txs, submitterVars>> => SubmitterTypeOK'
         /\ UNCHANGED <<attested, latestAttested, attestMonitorVars>> => AttestMonitorTypeOK'
<1> USE DEF TypeOK
<1>1. UNCHANGED tableVars => TablesTypeOK'
  BY DEF TablesTypeOK, tableVars, Vote, EventHashes
<1>2. UNCHANGED executorVars => ExecutorTypeOK'
  BY DEF ExecutorTypeOK, executorVars, allButHeight, chainState
<1>3. UNCHANGED <<monitorVars, blocks>> => MonitorTypeOK'
  BY DEF MonitorTypeOK, monitorVars
<1>4. UNCHANGED verifierVars => VerifierTypeOK'
  BY DEF VerifierTypeOK, verifierVars
<1>5. UNCHANGED pool => (pool \subseteq Vote)'
  OBVIOUS
<1>6. UNCHANGED broadcasterVars => BroadcasterTypeOK'
  BY DEF BroadcasterTypeOK, broadcasterVars
<1>7. UNCHANGED collectorVars => CollectorTypeOK'
  BY DEF CollectorTypeOK, collectorVars
<1>8. UNCHANGED collatorVars => CollatorTypeOK'
  BY DEF CollatorTypeOK, collatorVars
<1>9. UNCHANGED <<txs, submitterVars>> => SubmitterTypeOK'
  BY DEF SubmitterTypeOK, submitterVars
<1>10. UNCHANGED <<attested, latestAttested, attestMonitorVars>> => AttestMonitorTypeOK'
  BY DEF AttestMonitorTypeOK, attestMonitorVars
<1> QED
  BY <1>1, <1>2, <1>3, <1>4, <1>5, <1>6, <1>7, <1>8, <1>9, <1>10

-----------------------------------------------------------------------------

\* What a SELECT on events returns is a set of rows.
LEMMA FetchType ==
  ASSUME TypeOK, NEW h, NEW s
  PROVE  GetUnexpiredEventsByStatus(h, s) \subseteq EventRow
  BY DEF TypeOK, TablesTypeOK, GetUnexpiredEventsByStatus, Row, EventRow

\* The height cached by a getter is a height of the chain.
LEMMA HeightType ==
  ASSUME TypeOK, NEW h \in Heights,
         GetCachedBlockHeight(h) \/ HeightUnavailable \/ UNCHANGED height,
         UNCHANGED allButHeight
  PROVE  ExecutorTypeOK'
  BY DEF TypeOK, ExecutorTypeOK, GetCachedBlockHeight, GetLatestBlockHeight,
         HeightUnavailable, allButHeight, chainState

\* An update of the status column leaves the table well typed.
LEMMA UpdateStatusType ==
  ASSUME TypeOK, NEW c \in Challenges, NEW s \in EventStatus, NEW o,
         UpdateEventStatusByChallengeId(c, s, o),
         UNCHANGED <<blocks, verifyResult, votes>>
  PROVE  TablesTypeOK'
  BY DEF TypeOK, TablesTypeOK, UpdateEventStatusByChallengeId

\* Heights are those of the chain, validators one of its sets.
LEMMA ExecutorStepType == ASSUME TypeOK, ExecutorStep PROVE TypeOK'
<1>1. ExecutorTypeOK'
  BY DEF ExecutorStep, GetHeightLoop, CacheValidatorsLoop, UpdateHeartbeatIntervalLoop,
         GetLatestBlockHeight, TypeOK, ExecutorTypeOK, allButHeight, chainState
<1> QED
  BY <1>1, TypeFrame DEF TypeOK, ExecutorStep, GetHeightLoop, CacheValidatorsLoop,
     UpdateHeartbeatIntervalLoop, chainVars, tableVars

\* A poll asks for a height at most one above the chain's.
LEMMA MonitorStepType == ASSUME TypeOK, MonitorStep PROVE TypeOK'
<1> USE DEF MonitorStep, MonitorNext, tableVars
<1>1. CASE nextHeight = 0 /\ CalNextHeight /\ UNCHANGED tableVars
  <2>1. ExecutorTypeOK' /\ MonitorTypeOK'
    BY <1>1, ExecutorAssumption
    DEF CalNextHeight, GetLatestBlockHeight, GetCachedBlockHeight, TypeOK,
        ExecutorTypeOK, MonitorTypeOK, Heights, allButHeight, chainState
  <2> QED
    BY <1>1, <2>1, TypeFrame DEF TypeOK, chainVars
<1>2. CASE Poll
  <2>1. TablesTypeOK' /\ MonitorTypeOK'
    <3>1. CASE UNCHANGED tableVars
      BY <1>2, <3>1, ExecutorAssumption DEF Poll, TypeOK, TablesTypeOK, MonitorTypeOK
    <3>2. CASE BlockRetrieved /\ ~ParseFails(nextHeight)
      <4>1. PICK o \in Outcomes : SaveBlockAndEvents(nextHeight, ParseEvents(nextHeight), o)
        BY <3>2 DEF BlockRetrieved
      <4>2. nextHeight \in Heights
        BY <1>2, <3>2, ExecutorAssumption
        DEF Poll, BlockRetrieved, GetBlockAndBlockResultAtHeight, TypeOK, MonitorTypeOK,
            ExecutorTypeOK, Heights
      <4> QED
        BY <1>2, <3>2, <4>1, <4>2, ExecutorAssumption
        DEF Poll, BlockRetrieved, SaveBlockAndEvents, TypeOK, TablesTypeOK, MonitorTypeOK,
            Heights, EventStatus
    <3> QED
      BY <1>2, <3>1, <3>2 DEF Poll, BlockUnavailable, BlockRetrieved
  <2> QED
    BY <1>2, <2>1, TypeFrame DEF TypeOK, Poll, executorVars, chainVars
<1> QED
  BY <1>1, <1>2

\* The stages a goroutine of the verifier moves to, and the error it returns.
LEMMA TaskMoveType ==
  ASSUME TypeOK, NEW c \in Challenges, NEW stage \in VerStage, NEW e \in VerErr,
         Goto(c, stage) \/ Return(c, e) \/ RetryOr(c, stage),
         UNCHANGED <<loopVars, dedupVars>>
  PROVE  VerifierTypeOK'
<1>1. verTask' \in [Challenges -> VerStage] /\ verErr' \in VerErr
  BY DEF TypeOK, VerifierTypeOK, Goto, Return, RetryOr, VerStage
<1>2. verTries' \in [Challenges -> 0 .. RtyAttemNum - 1]
  BY VerifierAssumption DEF TypeOK, VerifierTypeOK, Goto, Return, RetryOr
<1> QED
  BY <1>1, <1>2 DEF TypeOK, VerifierTypeOK, loopVars, dedupVars

\* The range loop is at an event exactly while it may read err.
LEMMA VerifyHashLoopType ==
  ASSUME TypeOK, VerifierStep, VerifyHashLoop PROVE TypeOK'
<1>1. VerifierTypeOK' /\ ExecutorTypeOK'
  <2> USE DEF VerifierStep, VerifierNext, VerifyHashLoop, dedupVars
  <2>1. CASE FetchEventsForVerification
    <3>1. PICK h \in Heights :
             /\ GetCachedBlockHeight(h)
             /\ verEvents' = {e.id : e \in GetUnexpiredEventsByStatus(h, "Unprocessed")}
      BY <2>1 DEF FetchEventsForVerification
    <3>2. verEvents' \subseteq Challenges
      BY <3>1, FetchType DEF EventRow
    <3> QED
      BY <2>1, <3>1, <3>2, HeightType
      DEF FetchEventsForVerification, TypeOK, VerifierTypeOK, VerLoop
  <2>2. ASSUME NEW c \in verEvents, NextEvent(c)
        PROVE  VerifierTypeOK' /\ ExecutorTypeOK'
    BY <2>2, VerifierAssumption
    DEF NextEvent, SkipCachedEvent, SpawnVerification, TypeOK, VerifierTypeOK,
        ExecutorTypeOK, VerLoop, VerErr, VerStage, CallStage, allButHeight, chainState
  <2>3. CASE CheckErr
    <3>1. ASSUME CacheChallenge, verLoop \notin {"fetch", "next"}
          PROVE  cachedChallengeIds' \subseteq Challenges
      BY <3>1, LruAddBounds, VerifierAssumption DEF CacheChallenge, TypeOK, VerifierTypeOK
    <3> QED
      BY <2>3, <3>1, VerifierAssumption
      DEF CheckErr, CacheChallenge, TypeOK, VerifierTypeOK, ExecutorTypeOK, VerLoop,
          allButHeight, chainState
  <2>4. CASE WaitForGoroutines
    BY <2>4 DEF WaitForGoroutines, TypeOK, VerifierTypeOK, ExecutorTypeOK, VerLoop, VerErr,
                allButHeight, chainState
  <2> QED
    BY <2>1, <2>2, <2>3, <2>4
<1> QED
  BY <1>1, TypeFrame
  DEF TypeOK, VerifierStep, VerifierNext, VerifyHashLoop, chainVars, tableVars, dedupVars

\* A goroutine stops retrying before RtyAttemNum failures.
LEMMA VerifyForSingleEventType ==
  ASSUME TypeOK, VerifierStep, NEW c \in Challenges, VerifyForSingleEvent(c)
  PROVE  TypeOK'
<1> USE DEF VerifierStep, VerifierNext, VerifyForSingleEvent, VerErr, VerStage,
            CallStage, WriteStage, Results
<1>1. CASE StartVerification(c)
  <2>1. VerifierTypeOK'
    BY <1>1, TaskMoveType DEF StartVerification, preCheck
  <2>2. ExecutorTypeOK'
    BY <1>1, HeightType, ExecutorAssumption DEF StartVerification, Heights
  <2> QED
    BY <1>1, <2>1, <2>2, TypeFrame
    DEF StartVerification, TypeOK, tableVars, executorVars, chainVars
<1>2. CASE QueryChain(c)
  <2>1. VerifierTypeOK'
    BY <1>2, TaskMoveType DEF QueryChain, GetStorageProviderEndpoint, GetObjectInfoChecksums
  <2> QED
    BY <1>2, <2>1, TypeFrame DEF QueryChain, TypeOK, tableVars, executorVars, chainVars
<1>3. CASE QueryStorageProvider(c)
  <2>1. VerifierTypeOK'
    BY <1>3, TaskMoveType DEF QueryStorageProvider
  <2> QED
    BY <1>3, <2>1, TypeFrame
    DEF QueryStorageProvider, TypeOK, tableVars, executorVars, chainVars
<1>4. CASE SaveResult(c)
  <2>1. PICK o \in Outcomes : UpdateVerified(c, o)
    BY <1>4 DEF SaveResult
  <2>2. VerifierTypeOK'
    BY <2>1, TaskMoveType DEF UpdateVerified, ErrOf
  <2>3. TablesTypeOK'
    BY <2>1 DEF UpdateVerified, UpdateEventStatusByChallengeId, TypeOK, TablesTypeOK,
                UpdateEventStatusVerifyResultByChallengeId, EventStatus, VerifyResult
  <2> QED
    BY <1>4, <2>2, <2>3, TypeFrame DEF SaveResult, TypeOK, executorVars, chainVars
<1> QED
  BY <1>1, <1>2, <1>3, <1>4

\* All steps of the verifier keep the types.
LEMMA VerifierStepType == ASSUME TypeOK, VerifierStep PROVE TypeOK'
<1>1. CASE UpdateDeduplicationIntervalLoop
  <2>1. VerifierTypeOK'
    BY <1>1, VerifierAssumption
    DEF UpdateDeduplicationIntervalLoop, TypeOK, VerifierTypeOK, loopVars
  <2> QED
    BY <1>1, <2>1, TypeFrame
    DEF UpdateDeduplicationIntervalLoop, VerifierStep, VerifierNext, TypeOK,
        tableVars, executorVars, chainVars
<1> QED
  BY <1>1, VerifyHashLoopType, VerifyForSingleEventType DEF VerifierStep, VerifierNext

\* Our vote for a row is a vote.
LEMMA OwnVoteType ==
  ASSUME NEW e \in EventRow PROVE OwnVote(e) \in Vote
  BY BroadcasterAssumption
  DEF OwnVote, SignVote, CalculateEventHash, EventRow, Vote, EventHashes

\* The broadcaster holds rows, and sends and caches votes.
LEMMA BroadcasterStepType == ASSUME TypeOK, BroadcasterStep PROVE TypeOK'
<1> USE DEF BroadcasterStep, BroadcasterNext
<1>1. CASE FetchEventsForSelfVote
  <2>1. BroadcasterTypeOK' /\ ExecutorTypeOK'
    BY <1>1, FetchType, HeightType DEF FetchEventsForSelfVote, TypeOK, BroadcasterTypeOK
  <2> QED
    BY <1>1, <2>1, TypeFrame DEF FetchEventsForSelfVote, TypeOK, tableVars
<1>2. ASSUME NEW e \in bcEvents, VoteForEvent(e) PROVE TypeOK'
  <2>1. e \in EventRow /\ e.id \in Challenges /\ OwnVote(e) \in Vote
    BY OwnVoteType DEF TypeOK, BroadcasterTypeOK, EventRow
  <2>2. ASSUME CacheAndSend(OwnVote(e))
        PROVE  bcSending' \subseteq Vote /\ cachedLocalVote' \subseteq Vote
    BY <2>1, <2>2, LruAddBounds, BroadcasterAssumption
    DEF CacheAndSend, TypeOK, BroadcasterTypeOK
  <2>3. BroadcasterTypeOK'
    BY <1>2, <2>2 DEF VoteForEvent, UseCachedVote, ConstructVoteAndSign, TypeOK, BroadcasterTypeOK
  <2>4. TablesTypeOK'
    BY <1>2, <2>1
    DEF VoteForEvent, UseCachedVote, ConstructVoteAndSign, SaveVoteAndUpdateEventStatus,
        SaveVote, UpdateEventStatusByChallengeId, TypeOK, TablesTypeOK, EventStatus
  <2> QED
    BY <1>2, <2>3, <2>4, TypeFrame DEF VoteForEvent, TypeOK, executorVars
<1>3. ASSUME NEW v \in bcSending, BroadcastForSingleEvent(v) PROVE TypeOK'
  <2>1. BroadcasterTypeOK' /\ (pool \subseteq Vote)'
    BY <1>3 DEF BroadcastForSingleEvent, BroadcastVote, TypeOK, BroadcasterTypeOK
  <2>2. ExecutorTypeOK'
    BY <1>3, HeightType, ExecutorAssumption DEF BroadcastForSingleEvent, Heights
  <2> QED
    BY <1>3, <2>1, <2>2, TypeFrame DEF BroadcastForSingleEvent, TypeOK, tableVars
<1> QED
  BY <1>1, <1>2, <1>3

\* The collector handles votes of the pool.
LEMMA CollectorStepType == ASSUME TypeOK, CollectorStep PROVE TypeOK'
<1> USE DEF CollectorStep, CollectorNext
<1>1. CollectorTypeOK' /\ (votes \subseteq Vote)'
  <2>1. CASE QueryVotes
    BY <2>1 DEF QueryVotes, QueryCachedLatestValidators, TypeOK, CollectorTypeOK,
                ExecutorTypeOK, TablesTypeOK
  <2>2. ASSUME NEW v \in colVotes, CheckVote(v) PROVE CollectorTypeOK' /\ (votes \subseteq Vote)'
    BY <2>2 DEF CheckVote, SkipVote, TypeOK, CollectorTypeOK, TablesTypeOK
  <2>3. ASSUME NEW v \in colSaving, SaveCheckedVote(v)
        PROVE  CollectorTypeOK' /\ (votes \subseteq Vote)'
    BY <2>3 DEF SaveCheckedVote, SaveVote, TypeOK, CollectorTypeOK, TablesTypeOK
  <2> QED
    BY <2>1, <2>2, <2>3
<1>2. TablesTypeOK'
  BY <1>1 DEF TypeOK, TablesTypeOK
<1> QED
  BY <1>1, <1>2, TypeFrame DEF TypeOK

\* The collator holds rows.
LEMMA CollatorStepType == ASSUME TypeOK, CollatorStep PROVE TypeOK'
<1> USE DEF CollatorStep, CollatorNext
<1>1. CASE FetchEventsForCollate
  <2>1. CollatorTypeOK' /\ ExecutorTypeOK'
    BY <1>1, FetchType, HeightType DEF FetchEventsForCollate, TypeOK, CollatorTypeOK
  <2> QED
    BY <1>1, <2>1, TypeFrame DEF FetchEventsForCollate, TypeOK, chainVars, tableVars
<1>2. ASSUME NEW e \in clEvents, CollateForSingleEvent(e) PROVE TypeOK'
  <2>1. CollatorTypeOK'
    BY <1>2 DEF CollateForSingleEvent, TypeOK, CollatorTypeOK
  <2>2. ExecutorTypeOK'
    BY <1>2, HeightType, ExecutorAssumption DEF CollateForSingleEvent, Heights
  <2> QED
    BY <1>2, <2>1, <2>2, TypeFrame DEF CollateForSingleEvent, TypeOK, chainVars, tableVars
<1>3. ASSUME NEW e \in clEnough, UpdateEnoughVotesCollected(e) PROVE TypeOK'
  <2>1. TablesTypeOK' /\ CollatorTypeOK'
    BY <1>3, UpdateStatusType
    DEF UpdateEnoughVotesCollected, TypeOK, CollatorTypeOK, EventRow, EventStatus
  <2> QED
    BY <1>3, <2>1, TypeFrame DEF UpdateEnoughVotesCollected, TypeOK, executorVars, chainVars
<1> QED
  BY <1>1, <1>2, <1>3

\* The attestation built from a row and an event hash is one.
LEMMA AttestationType ==
  ASSUME TypeOK, NEW e \in EventRow, NEW hash \in EventHashes
  PROVE  AttestationOf(e, hash) \in Attestation
  BY DEF AttestationOf, Attestation, AggregatedKeys, ValidatorBitSet, EventRow,
         GetVotesByEventHash, Vote, TypeOK, TablesTypeOK

\* The submitter takes one of its rows and builds an attestation for it.
LEMMA SubmitForSingleEventType ==
  ASSUME TypeOK, NEW e \in subEvents, SubmitForSingleEvent(e)
  PROVE  SubmitterTypeOK'
<1>1. e \in EventRow /\ CalculateEventHash(e) \in EventHashes
  BY DEF TypeOK, SubmitterTypeOK, EventRow, CalculateEventHash, EventHashes
<1>2. HashesOf(e.id) \cup {CalculateEventHash(e)} \subseteq EventHashes
  BY <1>1 DEF HashesOf, TypeOK, SubmitterTypeOK
<1>3. ASSUME NEW hash \in EventHashes, GetEventHash(e, hash)
      PROVE  cachedEventHash' \subseteq EventHashes
  BY <1>3, LruAddBounds, SubmitterAssumption DEF GetEventHash, TypeOK, SubmitterTypeOK
<1>4. CASE GetSignatureAndBitSet(e)
  BY <1>1, <1>2, <1>3, <1>4, AttestationType, SubmitterAssumption
  DEF GetSignatureAndBitSet, SubmitForSingleEvent, TypeOK, SubmitterTypeOK, SubLoop
<1>5. CASE UNCHANGED <<subLoop, batchVars>>
  BY <1>5 DEF SubmitForSingleEvent, TypeOK, SubmitterTypeOK, batchVars
<1> QED
  BY <1>4, <1>5 DEF SubmitForSingleEvent

\* The submitter stops one failure above MaxSubmitAttempts.
LEMMA SubmitterStepType == ASSUME TypeOK, SubmitterStep PROVE TypeOK'
<1> USE DEF SubmitterStep, SubmitterNext
<1>1. SubmitterTypeOK'
  <2> USE DEF TypeOK, SubmitterTypeOK, SubLoop, batchVars
  <2>1. CASE QueryAttestPeriodLoop
    BY <2>1 DEF QueryAttestPeriodLoop
  <2>2. CASE AttestPeriodEnds
    BY <2>2 DEF AttestPeriodEnds
  <2>3. CASE FetchEventsForSubmit
    BY <2>3, FetchType DEF FetchEventsForSubmit
  <2>4. CASE LeaveEvents
    BY <2>4 DEF LeaveEvents
  <2>5. CASE GiveUp
    BY <2>5, SubmitterAssumption DEF GiveUp, ReturnToEvents
  <2>6. CASE AttestChallenge
    BY <2>6, SubmitterAssumption
    DEF AttestChallenge, AttestAnswers, AcceptAttestation, MaySubmit
  <2>7. ASSUME NEW e \in subEvent, MarkSubmitted(e) \/ MarkDuplicatedSlash(e)
        PROVE  SubmitterTypeOK'
    BY <2>7, SubmitterAssumption DEF MarkSubmitted, MarkDuplicatedSlash, ReturnToEvents
  <2> QED
    BY <2>1, <2>2, <2>3, <2>4, <2>5, <2>6, <2>7, SubmitForSingleEventType
<1>2. TablesTypeOK'
  <2>1. ASSUME NEW e \in subEvent, MarkSubmitted(e) \/ MarkDuplicatedSlash(e)
        PROVE  TablesTypeOK'
    BY <2>1, UpdateStatusType
    DEF MarkSubmitted, MarkDuplicatedSlash, TypeOK, SubmitterTypeOK, EventRow, EventStatus
  <2> QED
    BY <2>1, TypeFrame
    DEF tableVars, QueryAttestPeriodLoop, AttestPeriodEnds, FetchEventsForSubmit,
        LeaveEvents, SubmitForSingleEvent, GiveUp, AttestChallenge
<1>3. ExecutorTypeOK'
  BY HeightType, ExecutorAssumption
  DEF Heights, QueryAttestPeriodLoop, AttestPeriodEnds, FetchEventsForSubmit, LeaveEvents,
      SubmitForSingleEvent, GiveUp, AttestChallenge, MarkSubmitted, MarkDuplicatedSlash
<1> QED
  BY <1>1, <1>2, <1>3, TypeFrame DEF TypeOK

\* The attest monitor stops counting one above MaxQueryCount.
LEMMA AttestMonitorStepType == ASSUME TypeOK, AttestMonitorStep PROVE TypeOK'
<1> USE DEF AttestMonitorStep, AttestMonitorNext
<1>1. AttestMonitorTypeOK'
  BY AttestMonitorAssumption
  DEF TypeOK, AttestMonitorTypeOK, QueryLatestAttestedChallengeIds, ReadEvent,
      UpdateAttested, AttestStatusOf, Attests
<1>2. TablesTypeOK'
  BY UpdateStatusType, TypeFrame
  DEF tableVars, QueryLatestAttestedChallengeIds, ReadEvent, UpdateAttested,
      Attests, EventStatus
<1> QED
  BY <1>1, <1>2, TypeFrame DEF TypeOK

\* A restarted process is well typed.
LEMMA CrashType == ASSUME TypeOK, Crash PROVE TypeOK'
<1> USE DEF Crash, TypeOK
<1>1. ExecutorTypeOK' /\ MonitorTypeOK'
  BY ExecutorAssumption
  DEF ExecutorRestart, ExecutorTypeOK, MonitorRestart, MonitorTypeOK, tableVars,
      chainState
<1>2. VerifierTypeOK'
  BY VerifierAssumption
  DEF VerifierRestart, VerifierTypeOK, FirstIntervals, VerLoop, VerErr, VerStage
<1>3. BroadcasterTypeOK' /\ CollectorTypeOK' /\ CollatorTypeOK'
  BY DEF BroadcasterRestart, BroadcasterTypeOK, CollectorRestart, CollectorTypeOK,
         CollatorRestart, CollatorTypeOK
<1>4. SubmitterTypeOK'
  <2>1. periodOver' \in BOOLEAN
    BY DEF SubmitterRestart
  <2> QED
    BY <2>1, SubmitterAssumption DEF SubmitterRestart, SubmitterTypeOK, SubLoop, chainVars
<1>5. AttestMonitorTypeOK'
  BY AttestMonitorAssumption DEF AttestMonitorRestart, AttestMonitorTypeOK, chainVars
<1> QED
  BY <1>1, <1>2, <1>3, <1>4, <1>5, TypeFrame DEF chainVars

\* The chain keeps its own types.
LEMMA EnvironmentType == ASSUME TypeOK, Environment PROVE TypeOK'
<1>1. CASE ChainMoves
  <2>1. ExecutorTypeOK'
    BY <1>1, ExecutorAssumption DEF ChainMoves, NewBlock, ChangeValidators, ChangeHeartbeat, TypeOK,
        ExecutorTypeOK, Heights
  <2> QED
    BY <1>1, <2>1, TypeFrame
    DEF ChainMoves, NewBlock, ChangeValidators, ChangeHeartbeat, TypeOK, chainVars,
        tableVars
<1>2. CASE PeersVote
  <2>1. (pool \subseteq Vote)'
    BY <1>2, ChallengerAssumption DEF PeersVote, TypeOK
  <2> QED
    BY <1>2, <2>1, TypeFrame DEF PeersVote, TypeOK, tableVars, executorVars, allButHeight, volatileVars
<1>3. ASSUME NEW c \in Challenges, Attest(c) \/ ForgetAttested(c) PROVE TypeOK'
  <2>1. AttestMonitorTypeOK'
    BY <1>3 DEF Attest, ForgetAttested, TypeOK, AttestMonitorTypeOK, volatileVars,
                attestMonitorVars
  <2> QED
    BY <1>3, <2>1, TypeFrame
    DEF Attest, ForgetAttested, TypeOK, tableVars, executorVars, allButHeight, volatileVars
<1> QED
  BY <1>1, <1>2, <1>3 DEF Environment

\* Every step keeps the types, the steps that drop the process included.
LEMMA NextType == TypeOK /\ [Next]_vars => TypeOK'
<1> SUFFICES ASSUME TypeOK, [Next]_vars PROVE TypeOK'
  OBVIOUS
<1>1. CASE UNCHANGED vars
  BY <1>1, TypeFrame DEF vars, chainVars, tableVars, TypeOK
<1> QED
  BY <1>1, ExecutorStepType, MonitorStepType, VerifierStepType, BroadcasterStepType,
     CollectorStepType, CollatorStepType, SubmitterStepType, AttestMonitorStepType,
     CrashType, EnvironmentType
  DEF Next

-----------------------------------------------------------------------------

\* Every variable of the process, the tables and the chain stays in its type: in
\* particular no counter of attempts (retries of the verifier, submissions) runs
\* past its bound and no goroutine is left without a challenge to work on.
THEOREM TypeCorrectness == Spec => []TypeOK
  BY InitType, NextType, PTL DEF Spec
=============================================================================
