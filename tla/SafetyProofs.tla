---------------------------- MODULE SafetyProofs ----------------------------
(***************************************************************************)
(* SafetyInv is inductive, for every value of the constants, and the       *)
(* safety properties of Challenger that follow from it.                    *)
(***************************************************************************)
EXTENDS ChallengerProofs

\* What the parts of the invariant depend on.
heldVars == <<verEvents, verTask, bcEvents, clEvents, clEnough, subEvents, subEvent, subLoop>>
voteVars == <<votes, pool, bcSending, cachedLocalVote, colVotes, colSaving>>

\* Steps that leave the monitor alone and neither add nor remove rows.
LEMMA MonitorFrame ==
  ASSUME MonitorInv, UNCHANGED <<nextHeight, blocks>>,
         \A c \in Challenges : HasRow(c)' <=> HasRow(c)
  PROVE  MonitorInv'
  BY DEF MonitorInv, LatestBlock, NoGap, NoMissedEvent

\* Steps that only attest among the rows the verifier holds.
LEMMA VerifierFrame ==
  ASSUME VerifierInv, UNCHANGED <<verLoop, verEvents, verTask>>,
         \A c \in verEvents \cup Spawned :
           /\ verifyResult'[c] = verifyResult[c]
           /\ status'[c] = status[c] \/ status'[c] \in Attests
  PROVE  VerifierInv'
  BY DEF VerifierInv, Spawned

\* Steps that keep the verify results and move no row to a status that needs one.
LEMMA ResultFrame ==
  ASSUME ResultInv, UNCHANGED verifyResult,
         \A c \in Challenges :
           \/ status'[c] = status[c]
           \/ status'[c] \in Attests \cup {"Duplicated", "VerificationFailed"}
           \/ status'[c] \notin {"NoRow", "Unprocessed"} /\ verifyResult[c] \in Results
  PROVE  ResultInv'
  BY DEF ResultInv, Attests

\* Steps that only attest among the rows the other goroutines hold.
LEMMA RowsFrame ==
  ASSUME RowsInv, UNCHANGED <<bcEvents, clEvents, clEnough, subEvents, subEvent, subLoop>>,
         \A e \in bcEvents \cup clEvents \cup clEnough \cup subEvents \cup subEvent :
           /\ verifyResult'[e.id] = verifyResult[e.id]
           /\ status'[e.id] = status[e.id] \/ status'[e.id] \in Attests
  PROVE  RowsInv'
  BY DEF RowsInv, RowsAreHashable, Hashable

\* Steps that touch no vote and no result that votes can be about.
LEMMA VotesFrame ==
  ASSUME TypeOK, VotesInv, UNCHANGED voteVars,
         \A c \in Challenges :
           verifyResult[c] \in Results => verifyResult'[c] = verifyResult[c]
  PROVE  VotesInv'
<1>1. \A v \in votes \cup pool \cup bcSending \cup cachedLocalVote : ChallengeOf(v) \in Challenges
  BY DEF TypeOK, TablesTypeOK, BroadcasterTypeOK, Vote, EventHashes, ChallengeOf
<1>2. NoEquivocation'
  BY <1>1 DEF VotesInv, NoEquivocation, OwnVotes, voteVars, ChallengeOf
<1> QED
  BY <1>2 DEF VotesInv, OwnVotes, voteVars

\* Steps after which nobody holds a new row.
LEMMA StageFrame ==
  ASSUME OneStageAtATime,
         \A c \in Challenges : /\ VerifierHolds(c)' => VerifierHolds(c)
                               /\ BroadcasterHolds(c)' => BroadcasterHolds(c)
                               /\ CollatorHolds(c)' => CollatorHolds(c)
                               /\ SubmitterHolds(c)' => SubmitterHolds(c)
  PROVE  OneStageAtATime'
  BY DEF OneStageAtATime

\* A step whose only effect on the tables is new rows and attested ones.
LEMMA RowFrame ==
  ASSUME SafetyInv, TypeOK', MonitorInv',
         UNCHANGED <<verifyResult, verLoop, heldVars, voteVars>>,
         \A c \in Challenges : \/ status'[c] = status[c]
                               \/ status'[c] \in Attests
                               \/ status[c] = "NoRow" /\ status'[c] = "Unprocessed"
  PROVE  SafetyInv'
<1> USE DEF SafetyInv, heldVars
<1>1. VerifierInv'
  BY VerifierFrame DEF VerifierInv, Spawned, Attests, TypeOK, VerifierTypeOK
<1>2. ResultInv'
  BY DEF ResultInv, Attests
<1>3. RowsInv'
  BY RowsFrame
  DEF RowsInv, Attests, TypeOK, BroadcasterTypeOK, CollatorTypeOK, SubmitterTypeOK, EventRow
<1>4. VotesInv'
  BY VotesFrame
<1>5. OneStageAtATime'
  BY StageFrame
  DEF VerifierHolds, BroadcasterHolds, CollatorHolds, SubmitterHolds, Spawned
<1> QED
  BY <1>1, <1>2, <1>3, <1>4, <1>5

\* A step that changes none of the variables of SafetyInv but the types'.
LEMMA QuietFrame ==
  ASSUME SafetyInv, TypeOK', UNCHANGED <<tableVars, nextHeight, verLoop, heldVars, voteVars>>
  PROVE  SafetyInv'
<1>1. MonitorInv'
  BY MonitorFrame DEF SafetyInv, tableVars, HasRow
<1> QED
  BY <1>1, RowFrame DEF tableVars

\* The initial states satisfy the invariant: the tables are empty and nobody holds
\* a row; of the pool only the votes of before are known.
LEMMA InitSafety == Init => SafetyInv
<1> SUFFICES ASSUME Init PROVE SafetyInv
  OBVIOUS
<1> USE DEF Init
<1>1. TypeOK
  BY InitType
<1>2. MonitorInv
  BY DEF TablesInit, MonitorInit, MonitorInv, NoGap, NoMissedEvent, HasRow
<1>3. VerifierInv
  BY DEF VerifierInit, VerifierInv, Spawned
<1>4. ResultInv
  BY DEF TablesInit, ResultInv
<1>5. RowsInv
  BY DEF BroadcasterInit, CollatorInit, SubmitterInit, RowsInv, RowsAreHashable
<1>6. VotesInv
  BY DEF TablesInit, BroadcasterInit, CollectorInit, VotesInv, NoEquivocation, OwnVotes
<1>7. OneStageAtATime
  BY DEF VerifierInit, BroadcasterInit, CollatorInit, SubmitterInit, OneStageAtATime,
         VerifierHolds, BroadcasterHolds, CollatorHolds, SubmitterHolds, Spawned
<1> QED
  BY <1>1, <1>2, <1>3, <1>4, <1>5, <1>6, <1>7 DEF SafetyInv

\* Refreshing the executor's caches disturbs no part of the invariant.
LEMMA ExecutorStepSafety == ASSUME SafetyInv, ExecutorStep PROVE SafetyInv'
  BY ExecutorStepType, QuietFrame
  DEF SafetyInv, ExecutorStep, GetHeightLoop, CacheValidatorsLoop, UpdateHeartbeatIntervalLoop, tableVars, heldVars,
      voteVars, chainVars, monitorVars, verifierVars, broadcasterVars, collectorVars,
      collatorVars, submitterVars

\* The monitor saves the block after the last one, so it only inserts rows.
LEMMA MonitorStepSafety == ASSUME SafetyInv, MonitorStep PROVE SafetyInv'
<1> USE DEF SafetyInv, MonitorStep, MonitorNext
<1>1. TypeOK'
  BY MonitorStepType
<1>2. UNCHANGED <<verifyResult, verLoop, heldVars, voteVars>>
  BY DEF Poll, BlockUnavailable, BlockRetrieved, tableVars, heldVars, voteVars, chainVars,
         verifierVars, broadcasterVars, collectorVars, collatorVars, submitterVars
<1>3. CASE nextHeight = 0 /\ CalNextHeight /\ UNCHANGED tableVars
  <2>1. MonitorInv'
    BY <1>3 DEF CalNextHeight, MonitorInv, LatestBlock, NoGap, NoMissedEvent, HasRow,
                tableVars, TypeOK, MonitorTypeOK, Heights
  <2> QED
    BY <1>1, <1>2, <1>3, <2>1, RowFrame DEF tableVars
<1>4. CASE Poll /\ UNCHANGED tableVars
  <2>1. MonitorInv'
    BY <1>4 DEF Poll, MonitorInv, NoGap, NoMissedEvent, HasRow, tableVars
  <2> QED
    BY <1>1, <1>2, <1>4, <2>1, RowFrame DEF tableVars
<1>5. CASE Poll /\ BlockRetrieved /\ ~ParseFails(nextHeight)
  <2>1. PICK o \in Outcomes : SaveBlockAndEvents(nextHeight, ParseEvents(nextHeight), o)
    BY <1>5 DEF BlockRetrieved
  <2>2. nextHeight \notin blocks /\ nextHeight' = 0
    BY <1>5 DEF Poll, MonitorInv, LatestBlock, TypeOK, MonitorTypeOK, Heights
  <2>3. ASSUME NEW c \in Challenges, status'[c] # status[c]
        PROVE  /\ status[c] = "NoRow" /\ status'[c] = "Unprocessed"
               /\ EventHeight[c] = nextHeight /\ Committed(o)
    BY <2>1, <2>2, <2>3
    DEF SaveBlockAndEvents, ParseEvents, TypeOK, TablesTypeOK, MonitorInv, NoMissedEvent, HasRow
  <2>4. NoGap'
    <3> SUFFICES ASSUME NEW a \in blocks', NEW b \in blocks', NEW h \in a .. b
                 PROVE  h \in blocks'
      BY DEF NoGap
    <3>1. blocks' = blocks \/ blocks' = blocks \cup {nextHeight}
      BY <2>1 DEF SaveBlockAndEvents
    <3>2. blocks \subseteq Nat /\ nextHeight \in Nat /\ nextHeight # 0
      BY <1>5 DEF Poll, TypeOK, MonitorTypeOK, TablesTypeOK
    <3>3. CASE a \in blocks /\ b \in blocks
      BY <3>1, <3>3 DEF MonitorInv, NoGap
    <3>4. CASE a \in blocks /\ b \notin blocks
      <4>1. b = nextHeight /\ nextHeight - 1 \in blocks
        BY <3>1, <3>2, <3>4 DEF MonitorInv, LatestBlock
      <4>2. h = nextHeight \/ h \in a .. nextHeight - 1
        BY <4>1, <3>2
      <4> QED
        BY <3>1, <3>4, <4>1, <4>2 DEF MonitorInv, NoGap
    <3>5. CASE a \notin blocks
      <4>1. a = nextHeight /\ (b = nextHeight \/ b <= nextHeight - 1)
        BY <3>1, <3>2, <3>5 DEF MonitorInv, LatestBlock
      <4> QED
        BY <3>2, <3>5, <4>1
    <3> QED
      BY <3>3, <3>4, <3>5
  <2>5. NoMissedEvent'
    BY <2>1 DEF SaveBlockAndEvents, ParseEvents, MonitorInv, NoMissedEvent, HasRow, TypeOK, TablesTypeOK
  <2> QED
    BY <1>1, <1>2, <2>2, <2>3, <2>4, <2>5, RowFrame DEF MonitorInv
<1> QED
  BY <1>3, <1>4, <1>5 DEF Poll, BlockUnavailable, BlockRetrieved, tableVars

\* A row at a status that some goroutine selects is held by that goroutine only.
LEMMA SelectedRow ==
  ASSUME VerifierInv, RowsInv, NEW c \in Challenges
  PROVE  /\ status[c] = "Unprocessed" =>
              ~BroadcasterHolds(c) /\ ~CollatorHolds(c) /\ ~SubmitterHolds(c)
         /\ status[c] = "Verified" =>
              ~VerifierHolds(c) /\ ~CollatorHolds(c) /\ ~SubmitterHolds(c)
         /\ status[c] = "SelfVoted" =>
              ~VerifierHolds(c) /\ ~BroadcasterHolds(c) /\ ~SubmitterHolds(c)
         /\ status[c] = "EnoughVotesCollected" =>
              ~VerifierHolds(c) /\ ~BroadcasterHolds(c) /\ ~CollatorHolds(c)
  BY DEF VerifierInv, RowsInv, Attests, VerifierHolds, BroadcasterHolds, CollatorHolds,
         SubmitterHolds

\* A step of the verifier that only changes what it holds.
LEMMA VerifierTurn ==
  ASSUME SafetyInv, TypeOK', VerifierInv',
         UNCHANGED <<tableVars, nextHeight, bcEvents, clEvents, clEnough, subEvents,
                     subEvent, subLoop, voteVars>>,
         \A c \in Challenges : VerifierHolds(c)' =>
           VerifierHolds(c) \/ status[c] = "Unprocessed"
  PROVE  SafetyInv'
<1> USE DEF SafetyInv, tableVars
<1>1. MonitorInv' /\ ResultInv' /\ RowsInv' /\ VotesInv'
  BY MonitorFrame, ResultFrame, RowsFrame, VotesFrame DEF HasRow
<1>2. OneStageAtATime'
  BY SelectedRow DEF OneStageAtATime, BroadcasterHolds, CollatorHolds, SubmitterHolds
<1> QED
  BY <1>1, <1>2

\* The range loop of verifyHash fetches unprocessed rows, and only when the
\* goroutines of the batch before have returned; then it hands them on.
LEMMA VerifyHashLoopSafety ==
  ASSUME SafetyInv, VerifierStep, VerifyHashLoop
  PROVE  SafetyInv'
<1> USE DEF SafetyInv, VerifierStep
<1>1. TypeOK'
  BY VerifierStepType
<1>2. UNCHANGED <<tableVars, nextHeight, bcEvents, clEvents, clEnough, subEvents,
                  subEvent, subLoop, voteVars>>
  BY DEF VerifierNext, VerifyHashLoop, tableVars, voteVars, chainVars, monitorVars,
         broadcasterVars, collectorVars, collatorVars, submitterVars
<1>3. verEvents \subseteq Challenges /\ verTask \in [Challenges -> VerStage]
  BY DEF TypeOK, VerifierTypeOK
<1>4. CASE FetchEventsForVerification
  <2>1. \A c \in verEvents' : c \in Challenges /\ status[c] = "Unprocessed"
    BY <1>4 DEF FetchEventsForVerification, GetUnexpiredEventsByStatus, Row
  <2>2. Spawned = {} /\ Spawned' = {}
    BY <1>4 DEF FetchEventsForVerification, VerifierInv, Spawned
  <2>3. VerifierInv'
    BY <1>2, <1>4, <2>1, <2>2
    DEF FetchEventsForVerification, VerifierInv, ResultInv, tableVars
  <2>4. \A c \in Challenges : VerifierHolds(c)' => status[c] = "Unprocessed"
    BY <2>1, <2>2 DEF VerifierHolds
  <2> QED
    BY <1>1, <1>2, <2>3, <2>4, VerifierTurn
<1>5. ASSUME NEW c \in verEvents, NextEvent(c) PROVE SafetyInv'
  <2>1. verEvents' = verEvents \ {c} /\ Spawned' \subseteq Spawned \cup {c} /\ verLoop' # "fetch"
    BY <1>3, <1>5 DEF NextEvent, SkipCachedEvent, SpawnVerification, Spawned
  <2>2. VerifierInv'
    BY <1>2, <1>3, <2>1 DEF VerifierInv, tableVars
  <2>3. \A d \in Challenges : VerifierHolds(d)' => VerifierHolds(d)
    BY <2>1 DEF VerifierHolds
  <2> QED
    BY <1>1, <1>2, <2>2, <2>3, VerifierTurn
<1>6. CASE CheckErr \/ WaitForGoroutines
  <2>1. UNCHANGED <<verEvents, verTask>>
    BY <1>6 DEF CheckErr, WaitForGoroutines
  <2>2. VerifierInv'
    BY <1>2, <1>6, <2>1
    DEF CheckErr, CacheChallenge, WaitForGoroutines, VerifierInv, Spawned, tableVars
  <2>3. \A d \in Challenges : VerifierHolds(d)' => VerifierHolds(d)
    BY <2>1 DEF VerifierHolds, Spawned
  <2> QED
    BY <1>1, <1>2, <2>2, <2>3, VerifierTurn
<1> QED
  BY <1>4, <1>5, <1>6 DEF VerifyHashLoop

\* A goroutine of the verifier writes the row of its own event, which has no
\* result yet and which nobody else holds, and ends with that.
LEMMA SaveResultSafety ==
  ASSUME SafetyInv, VerifierStep, NEW c \in Challenges, SaveResult(c),
         UNCHANGED <<loopVars, dedupVars>>
  PROVE  SafetyInv'
<1> USE DEF SafetyInv, VerifierStep
<1>1. TypeOK'
  BY VerifierStepType
<1>2. UNCHANGED <<blocks, nextHeight, verLoop, verEvents, bcEvents, clEvents, clEnough,
                  subEvents, subEvent, subLoop, voteVars>>
  BY DEF VerifierNext, loopVars, voteVars, chainVars, monitorVars, broadcasterVars,
         collectorVars, collatorVars, submitterVars
<1>3. PICK o \in Outcomes : UpdateVerified(c, o)
  BY DEF SaveResult
<1>4. /\ verTask \in [Challenges -> VerStage]
      /\ status \in [Challenges -> EventStatus \cup {"NoRow"}]
      /\ verifyResult \in [Challenges -> VerifyResult]
  BY DEF TypeOK, VerifierTypeOK, TablesTypeOK
<1>5. c \in Spawned /\ Spawned' = Spawned \ {c}
  BY <1>3, <1>4 DEF UpdateVerified, Return, Spawned, Results
<1>6. /\ verifyResult[c] = "Unknown"
      /\ ~BroadcasterHolds(c) /\ ~CollatorHolds(c) /\ ~SubmitterHolds(c)
  BY <1>5 DEF VerifierInv, OneStageAtATime, VerifierHolds
<1>7. /\ \A d \in Challenges \ {c} : /\ status'[d] = status[d]
                                     /\ verifyResult'[d] = verifyResult[d]
      /\ \/ status'[c] = status[c] /\ verifyResult'[c] = verifyResult[c]
         \/ HasRow(c) /\ status'[c] \in {"Duplicated", "VerificationFailed"}
         \/ HasRow(c) /\ status'[c] = "Verified" /\ verifyResult'[c] \in Results
  BY <1>3, <1>4
  DEF UpdateVerified, UpdateEventStatusByChallengeId,
      UpdateEventStatusVerifyResultByChallengeId
<1>8. MonitorInv'
  BY <1>2, <1>7, MonitorFrame DEF HasRow
<1>9. VerifierInv'
  <2>1. verEvents \subseteq Challenges /\ Spawned \subseteq Challenges
    BY DEF TypeOK, VerifierTypeOK, Spawned
  <2> QED
    BY <1>2, <1>5, <1>7, <2>1 DEF VerifierInv
<1>10. ResultInv'
  BY <1>7 DEF ResultInv
<1>11. RowsInv'
  BY <1>2, <1>6, <1>7, RowsFrame
  DEF BroadcasterHolds, CollatorHolds, SubmitterHolds, TypeOK, BroadcasterTypeOK,
      CollatorTypeOK, SubmitterTypeOK, EventRow
<1>12. VotesInv'
  BY <1>2, <1>6, <1>7, VotesFrame DEF Results
<1>13. OneStageAtATime'
  BY <1>2, <1>5, StageFrame DEF VerifierHolds, BroadcasterHolds, CollatorHolds, SubmitterHolds
<1> QED
  BY <1>1, <1>8, <1>9, <1>10, <1>11, <1>12, <1>13

\* All steps of the verifier: its goroutines call out, write, or wait.
LEMMA VerifierStepSafety == ASSUME SafetyInv, VerifierStep PROVE SafetyInv'
<1> USE DEF SafetyInv
<1>1. TypeOK'
  BY VerifierStepType
<1>2. ASSUME NEW c \in Challenges, VerifyForSingleEvent(c) PROVE SafetyInv'
  <2>1. CASE SaveResult(c)
    BY <1>2, <2>1, SaveResultSafety DEF VerifyForSingleEvent
  <2>2. CASE StartVerification(c) \/ QueryChain(c) \/ QueryStorageProvider(c)
    <3>1. UNCHANGED <<tableVars, nextHeight, verLoop, verEvents, bcEvents, clEvents,
                      clEnough, subEvents, subEvent, subLoop, voteVars>>
      BY <1>2, <2>2
      DEF VerifierStep, VerifierNext, VerifyForSingleEvent, StartVerification, QueryChain,
          QueryStorageProvider, loopVars, tableVars, voteVars, chainVars, monitorVars,
          broadcasterVars, collectorVars, collatorVars, submitterVars
    <3>2. verTask[c] # "idle" /\ (verTask' = verTask \/ \E s : verTask' = [verTask EXCEPT ![c] = s])
      BY <2>2
      DEF StartVerification, QueryChain, GetStorageProviderEndpoint, GetObjectInfoChecksums,
          QueryStorageProvider, preCheck, Goto, Return, RetryOr
    <3>3. Spawned' \subseteq Spawned
      BY <3>2 DEF Spawned, TypeOK, VerifierTypeOK
    <3>4. VerifierInv'
      BY <3>1, <3>3 DEF VerifierInv, tableVars
    <3>5. \A d \in Challenges : VerifierHolds(d)' => VerifierHolds(d)
      BY <3>1, <3>3 DEF VerifierHolds
    <3> QED
      BY <1>1, <3>1, <3>4, <3>5, VerifierTurn
  <2> QED
    BY <1>2, <2>1, <2>2 DEF VerifyForSingleEvent
<1>3. CASE UpdateDeduplicationIntervalLoop
  BY <1>1, <1>3, QuietFrame
  DEF VerifierStep, VerifierNext, UpdateDeduplicationIntervalLoop, loopVars, tableVars,
      heldVars, voteVars, chainVars, monitorVars, broadcasterVars, collectorVars,
      collatorVars, submitterVars
<1> QED
  BY <1>2, <1>3, VerifyHashLoopSafety DEF VerifierStep, VerifierNext

\* What an update of one status leaves: the other rows, and which rows there are.
LEMMA StatusUpdate ==
  ASSUME TypeOK, NEW c \in Challenges, NEW s \in EventStatus, NEW o,
         UpdateEventStatusByChallengeId(c, s, o)
  PROVE  /\ \A d \in Challenges \ {c} : status'[d] = status[d]
         /\ status'[c] = status[c] \/ status'[c] = s
         /\ \A d \in Challenges : HasRow(d)' <=> HasRow(d)
  BY DEF UpdateEventStatusByChallengeId, HasRow, TypeOK, TablesTypeOK, EventStatus

\* The votes that a step of the broadcaster adds are for the results of their rows,
\* and saved when they are sent or cached.
LEMMA OwnVoteSafety ==
  ASSUME SafetyInv, NEW new \in SUBSET Vote, UNCHANGED <<verifyResult, colVotes, colSaving>>,
         pool' \subseteq pool \cup bcSending, pool \subseteq pool',
         votes' \subseteq votes \cup new, votes \subseteq votes',
         bcSending' \cup cachedLocalVote'
           \subseteq bcSending \cup cachedLocalVote \cup (votes' \cap new),
         \A v \in new : /\ v.signer = v.pubKey
                        /\ v.eventHash[2] = verifyResult[ChallengeOf(v)]
                        /\ v.eventHash[2] \in Results
  PROVE  VotesInv'
<1> USE DEF SafetyInv, VotesInv
<1>1. \A w \in votes' \cup colSaving' : w.signer = w.pubKey
  OBVIOUS
<1>2. OwnVotes(pool \cup bcSending \cup cachedLocalVote)' \subseteq votes'
  BY DEF OwnVotes
<1>3. NoEquivocation'
  BY DEF OwnVotes, NoEquivocation, ChallengeOf
<1> QED
  BY <1>1, <1>2, <1>3

\* The broadcaster fetches rows that only it selects.
LEMMA FetchForSelfVoteSafety ==
  ASSUME SafetyInv, BroadcasterStep, FetchEventsForSelfVote
  PROVE  SafetyInv'
<1> USE DEF SafetyInv, BroadcasterStep, BroadcasterNext, FetchEventsForSelfVote, tableVars
<1>1. TypeOK'
  BY BroadcasterStepType
<1>2. UNCHANGED <<tableVars, nextHeight, verLoop, verEvents, verTask, clEvents, clEnough,
                  subEvents, subEvent, subLoop, voteVars>>
  BY DEF voteVars, monitorVars, verifierVars, collectorVars, collatorVars, submitterVars
<1>3. \A e \in bcEvents' : /\ e.id \in Challenges /\ status[e.id] = "Verified"
                           /\ e.verifyResult = verifyResult[e.id]
                           /\ e.verifyResult \in Results
  BY DEF GetUnexpiredEventsByStatus, Row, ResultInv
<1>4. MonitorInv' /\ VerifierInv' /\ ResultInv' /\ VotesInv'
  BY <1>2, MonitorFrame, VerifierFrame, ResultFrame, VotesFrame DEF HasRow
<1>5. RowsInv'
  BY <1>2, <1>3 DEF RowsInv, RowsAreHashable, Hashable
<1>6. OneStageAtATime'
  BY <1>2, <1>3, SelectedRow
  DEF OneStageAtATime, VerifierHolds, BroadcasterHolds, CollatorHolds, SubmitterHolds,
      Spawned
<1> QED
  BY <1>1, <1>4, <1>5, <1>6

\* The broadcaster's vote is for the row it holds; a vote of our key that is
\* already saved is this very vote, since saved votes are genuine.
LEMMA VoteForEventSafety ==
  ASSUME SafetyInv, BroadcasterStep, NEW e \in bcEvents, VoteForEvent(e)
  PROVE  SafetyInv'
<1> USE DEF SafetyInv, BroadcasterStep, BroadcasterNext, VoteForEvent
<1>1. TypeOK'
  BY BroadcasterStepType
<1>2. UNCHANGED <<blocks, verifyResult, pool, nextHeight, verLoop, verEvents, verTask,
                  clEvents, clEnough, subEvents, subEvent, subLoop, colVotes, colSaving>>
  BY DEF monitorVars, verifierVars, collectorVars, collatorVars, submitterVars
<1>3. e \in EventRow /\ OwnVote(e) \in Vote
  BY OwnVoteType DEF TypeOK, BroadcasterTypeOK
<1>4. /\ e.id \in Challenges /\ BroadcasterHolds(e.id)
      /\ e.verifyResult = verifyResult[e.id] /\ e.verifyResult \in Results
      /\ ~VerifierHolds(e.id) /\ ~CollatorHolds(e.id) /\ ~SubmitterHolds(e.id)
  BY <1>3 DEF EventRow, RowsInv, RowsAreHashable, Hashable, BroadcasterHolds, OneStageAtATime
<1>5. \A f \in bcEvents' : f \in bcEvents /\ f.id \in Challenges \ {e.id}
  <2> SUFFICES ASSUME NEW f \in bcEvents, f # e PROVE f.id \in Challenges \ {e.id}
    OBVIOUS
  <2>1. f \in EventRow /\ f.verifyResult = verifyResult[f.id]
    BY DEF TypeOK, BroadcasterTypeOK, RowsInv, RowsAreHashable
  <2> QED
    BY <1>3, <1>4, <2>1 DEF EventRow
<1>6. IsVoteExists(CalculateEventHash(e), Self) => OwnVote(e) \in votes
  <2> SUFFICES ASSUME NEW v \in votes, v.eventHash = CalculateEventHash(e), v.pubKey = Self
               PROVE  v = OwnVote(e)
    BY DEF IsVoteExists
  <2>1. v \in Vote /\ v.signer = Self
    BY DEF TypeOK, TablesTypeOK, VotesInv
  <2> QED
    BY <2>1 DEF Vote, OwnVote, SignVote
<1>7. /\ votes' \subseteq votes \cup {OwnVote(e)} /\ votes \subseteq votes'
      /\ bcSending' \cup cachedLocalVote'
           \subseteq bcSending \cup cachedLocalVote \cup (votes' \cap {OwnVote(e)})
      /\ status' = status \/ \E o \in Outcomes : UpdateEventStatusByChallengeId(e.id, "SelfVoted", o)
  <2>1. CASE UseCachedVote(e)
    BY <2>1 DEF UseCachedVote
  <2>2. CASE IsVoteExists(CalculateEventHash(e), Self) /\ CacheAndSend(OwnVote(e))
             /\ UNCHANGED <<status, votes>>
    BY <1>6, <2>2 DEF CacheAndSend, LruAdd
  <2>3. CASE \E o \in Outcomes :
               /\ SaveVoteAndUpdateEventStatus(OwnVote(e), e.id, o)
               /\ IF o = "ok" THEN CacheAndSend(OwnVote(e))
                  ELSE bcSending' = {} /\ UNCHANGED cachedLocalVote
    BY <2>3
    DEF SaveVoteAndUpdateEventStatus, SaveVote, Committed, CacheAndSend, LruAdd
  <2> QED
    BY <2>1, <2>2, <2>3 DEF ConstructVoteAndSign
<1>8. /\ \A d \in Challenges \ {e.id} : status'[d] = status[d]
      /\ status'[e.id] = status[e.id] \/ status'[e.id] = "SelfVoted"
      /\ \A d \in Challenges : HasRow(d)' <=> HasRow(d)
  BY <1>4, <1>7, StatusUpdate DEF EventStatus, HasRow
<1>9. MonitorInv' /\ ResultInv'
  BY <1>2, <1>4, <1>8, MonitorFrame, ResultFrame
<1>10. VerifierInv'
  BY <1>2, <1>4, <1>8, VerifierFrame DEF VerifierHolds, Spawned, TypeOK, VerifierTypeOK
<1>11. RowsInv'
  BY <1>2, <1>4, <1>5, <1>8
  DEF RowsInv, RowsAreHashable, Hashable, CollatorHolds, SubmitterHolds, TypeOK,
      CollatorTypeOK, SubmitterTypeOK, EventRow
<1>12. VotesInv'
  <2>1. /\ OwnVote(e).signer = OwnVote(e).pubKey
        /\ OwnVote(e).eventHash[2] = verifyResult[ChallengeOf(OwnVote(e))]
        /\ OwnVote(e).eventHash[2] \in Results
    BY <1>4 DEF OwnVote, SignVote, CalculateEventHash, ChallengeOf
  <2> DEFINE new == {OwnVote(e)}
  <2>2. /\ new \in SUBSET Vote
        /\ \A v \in new : /\ v.signer = v.pubKey
                          /\ v.eventHash[2] = verifyResult[ChallengeOf(v)]
                          /\ v.eventHash[2] \in Results
    BY <1>3, <2>1
  <2>3. /\ votes' \subseteq votes \cup new /\ votes \subseteq votes'
        /\ bcSending' \cup cachedLocalVote'
             \subseteq bcSending \cup cachedLocalVote \cup (votes' \cap new)
    BY <1>7
  <2>4. UNCHANGED <<verifyResult, colVotes, colSaving>> /\ pool' = pool
    BY <1>2
  <2> HIDE DEF new
  <2> QED
    BY <2>2, <2>3, <2>4, OwnVoteSafety
<1>13. OneStageAtATime'
  BY <1>2, <1>5, StageFrame
  DEF VerifierHolds, BroadcasterHolds, CollatorHolds, SubmitterHolds, Spawned
<1> QED
  BY <1>1, <1>9, <1>10, <1>11, <1>12, <1>13

\* Sending a vote, or dropping an expired one, only moves votes that are saved.
LEMMA BroadcastVoteSafety ==
  ASSUME SafetyInv, BroadcasterStep, NEW v \in bcSending, BroadcastForSingleEvent(v)
  PROVE  SafetyInv'
<1> USE DEF SafetyInv, BroadcasterStep, BroadcasterNext, BroadcastForSingleEvent, BroadcastVote,
            tableVars
<1>1. TypeOK'
  BY BroadcasterStepType
<1>2. UNCHANGED <<tableVars, nextHeight, verLoop, heldVars, colVotes, colSaving>>
  BY DEF heldVars, monitorVars, verifierVars, collectorVars, collatorVars, submitterVars
<1>3. VotesInv'
  <2>1. /\ pool' \subseteq pool \cup bcSending /\ pool \subseteq pool'
        /\ bcSending' \cup cachedLocalVote' \subseteq bcSending \cup cachedLocalVote
    OBVIOUS
  <2> QED
    BY <1>2, <2>1, OwnVoteSafety
<1>4. MonitorInv' /\ VerifierInv' /\ ResultInv' /\ RowsInv'
  BY <1>2, MonitorFrame, VerifierFrame, ResultFrame, RowsFrame DEF HasRow, heldVars
<1>5. OneStageAtATime'
  BY <1>2, StageFrame
  DEF heldVars, VerifierHolds, BroadcasterHolds, CollatorHolds, SubmitterHolds, Spawned
<1> QED
  BY <1>1, <1>3, <1>4, <1>5

\* All steps of the broadcaster.
LEMMA BroadcasterStepSafety == ASSUME SafetyInv, BroadcasterStep PROVE SafetyInv'
  BY FetchForSelfVoteSafety, VoteForEventSafety, BroadcastVoteSafety
  DEF BroadcasterStep, BroadcasterNext

\* The collector saves genuine votes of the pool; a vote of our key among them is
\* one that this process has sent, hence saved, or one of before.
LEMMA CollectorStepSafety == ASSUME SafetyInv, CollectorStep PROVE SafetyInv'
<1> USE DEF SafetyInv, CollectorStep, CollectorNext
<1>1. TypeOK'
  BY CollectorStepType
<1>2. UNCHANGED <<blocks, status, verifyResult, pool, nextHeight, verLoop, heldVars,
                  bcSending, cachedLocalVote>>
  BY DEF heldVars, monitorVars, verifierVars, broadcasterVars, collatorVars, submitterVars
<1>3. /\ votes \subseteq votes' /\ votes' \subseteq votes \cup colSaving
      /\ colVotes' \subseteq colVotes \cup pool
      /\ \A v \in colSaving' : v \in colSaving \/ (v \in colVotes /\ v.signer = v.pubKey)
  <2>1. CASE QueryVotes
    BY <2>1 DEF QueryVotes
  <2>2. CASE \E v \in colVotes : CheckVote(v)
    BY <2>2 DEF CheckVote, SkipVote, AcceptVote, verifySignature
  <2>3. CASE \E v \in colSaving : SaveCheckedVote(v)
    BY <2>3 DEF SaveCheckedVote, SaveVote
  <2> QED
    BY <2>1, <2>2, <2>3
<1>4. VotesInv'
  <2>1. \A v \in votes' \cup colSaving' : v.signer = v.pubKey
    BY <1>3 DEF VotesInv
  <2>2. OwnVotes(votes') \subseteq OwnVotes(votes \cup pool)
    BY <1>3 DEF VotesInv, OwnVotes
  <2>3. NoEquivocation'
    BY <1>2, <2>2 DEF VotesInv, NoEquivocation, OwnVotes
  <2> QED
    BY <1>2, <1>3, <2>1, <2>3 DEF VotesInv, OwnVotes
<1>5. MonitorInv' /\ VerifierInv' /\ ResultInv' /\ RowsInv'
  BY <1>2, MonitorFrame, VerifierFrame, ResultFrame, RowsFrame DEF HasRow, heldVars
<1>6. OneStageAtATime'
  BY <1>2, StageFrame
  DEF heldVars, VerifierHolds, BroadcasterHolds, CollatorHolds, SubmitterHolds, Spawned
<1> QED
  BY <1>1, <1>4, <1>5, <1>6

\* The attest monitor marks rows as attested, or leaves them as they are.
LEMMA AttestMonitorStepSafety == ASSUME SafetyInv, AttestMonitorStep PROVE SafetyInv'
<1> USE DEF SafetyInv, AttestMonitorStep, AttestMonitorNext
<1>1. TypeOK'
  BY AttestMonitorStepType
<1>2. UNCHANGED <<blocks, verifyResult, nextHeight, verLoop, heldVars, voteVars>>
  BY DEF heldVars, voteVars, monitorVars, verifierVars, broadcasterVars, collectorVars,
         collatorVars, submitterVars
<1>3. /\ \A c \in Challenges : status'[c] = status[c] \/ status'[c] \in Attests
      /\ \A c \in Challenges : HasRow(c)' <=> HasRow(c)
  <2>1. CASE \E c \in Challenges : UpdateAttested(c)
    BY <2>1, StatusUpdate DEF UpdateAttested, Attests, EventStatus
  <2>2. CASE status' = status
    BY <2>2 DEF HasRow
  <2> QED
    BY <2>1, <2>2 DEF QueryLatestAttestedChallengeIds, ReadEvent
<1>4. MonitorInv'
  BY <1>2, <1>3, MonitorFrame
<1> QED
  BY <1>1, <1>2, <1>3, <1>4, RowFrame

\* Two rows that a goroutine holds for one challenge are the same row.
LEMMA HeldRows ==
  ASSUME SafetyInv, NEW e, NEW f,
         {e, f} \subseteq bcEvents \cup clEvents \cup clEnough \cup subEvents \cup subEvent
  PROVE  /\ e.id \in Challenges /\ (e.id = f.id => e = f)
         /\ e.verifyResult = verifyResult[e.id] /\ e.verifyResult \in Results
<1>1. e \in EventRow /\ f \in EventRow
  BY DEF SafetyInv, TypeOK, BroadcasterTypeOK, CollatorTypeOK, SubmitterTypeOK
<1>2. /\ e.verifyResult = verifyResult[e.id] /\ e.verifyResult \in Results
      /\ f.verifyResult = verifyResult[f.id]
  BY DEF SafetyInv, RowsInv, RowsAreHashable, Hashable
<1> QED
  BY <1>1, <1>2 DEF EventRow

\* The collator fetches rows that only it selects, sets one of them aside when it
\* has enough votes, and updates that one.
LEMMA CollatorStepSafety == ASSUME SafetyInv, CollatorStep PROVE SafetyInv'
<1> USE DEF SafetyInv, CollatorStep, CollatorNext
<1>1. TypeOK'
  BY CollatorStepType
<1>2. UNCHANGED <<blocks, verifyResult, nextHeight, verLoop, verEvents, verTask, bcEvents,
                  subEvents, subEvent, subLoop, voteVars>>
  BY DEF FetchEventsForCollate, CollateForSingleEvent, UpdateEnoughVotesCollected, tableVars,
         voteVars, chainVars, monitorVars, verifierVars, broadcasterVars, collectorVars,
         submitterVars
<1>3. CASE FetchEventsForCollate
  <2>1. \A e \in clEvents' : /\ e.id \in Challenges /\ status[e.id] = "SelfVoted"
                             /\ e.verifyResult = verifyResult[e.id]
                             /\ e.verifyResult \in Results
    BY <1>3 DEF FetchEventsForCollate, GetUnexpiredEventsByStatus, Row, ResultInv
  <2>2. clEnough = {} /\ clEnough' = {} /\ status' = status
    BY <1>3 DEF FetchEventsForCollate, tableVars
  <2>3. MonitorInv' /\ VerifierInv' /\ ResultInv' /\ VotesInv'
    BY <1>2, <2>2, MonitorFrame, VerifierFrame, ResultFrame, VotesFrame DEF HasRow
  <2>4. RowsInv'
    BY <1>2, <2>1, <2>2 DEF RowsInv, RowsAreHashable, Hashable
  <2>5. OneStageAtATime'
    BY <1>2, <2>1, <2>2, SelectedRow
    DEF OneStageAtATime, VerifierHolds, BroadcasterHolds, CollatorHolds, SubmitterHolds,
        Spawned
  <2> QED
    BY <1>1, <2>3, <2>4, <2>5
<1>4. ASSUME NEW e \in clEvents, CollateForSingleEvent(e) PROVE SafetyInv'
  <2>1. /\ clEvents' = clEvents \ {e} /\ clEnough' \subseteq {e} /\ clEnough = {}
        /\ status' = status
    BY <1>4 DEF CollateForSingleEvent, tableVars
  <2>2. MonitorInv' /\ VerifierInv' /\ ResultInv' /\ VotesInv'
    BY <1>2, <2>1, MonitorFrame, VerifierFrame, ResultFrame, VotesFrame DEF HasRow
  <2>3. RowsInv'
    BY <1>2, <2>1 DEF RowsInv, RowsAreHashable, Hashable
  <2>4. OneStageAtATime'
    BY <1>2, <2>1, StageFrame
    DEF VerifierHolds, BroadcasterHolds, CollatorHolds, SubmitterHolds, Spawned
  <2> QED
    BY <1>1, <2>2, <2>3, <2>4
<1>5. ASSUME NEW e \in clEnough, UpdateEnoughVotesCollected(e) PROVE SafetyInv'
  <2>1. /\ clEvents' = clEvents /\ clEnough' = {}
        /\ \E o \in Outcomes : UpdateEventStatusByChallengeId(e.id, "EnoughVotesCollected", o)
    BY <1>5 DEF UpdateEnoughVotesCollected
  <2>2. /\ e.id \in Challenges /\ verifyResult[e.id] \in Results
        /\ \A f \in clEvents : f.id \in Challenges \ {e.id}
    BY HeldRows DEF RowsInv
  <2>3. /\ \A d \in Challenges \ {e.id} : status'[d] = status[d]
        /\ status'[e.id] = status[e.id] \/ status'[e.id] = "EnoughVotesCollected"
        /\ \A d \in Challenges : HasRow(d)' <=> HasRow(d)
    BY <2>1, <2>2, StatusUpdate DEF EventStatus
  <2>4. ~VerifierHolds(e.id) /\ ~BroadcasterHolds(e.id) /\ ~SubmitterHolds(e.id)
    BY <2>2 DEF OneStageAtATime, CollatorHolds
  <2>5. MonitorInv' /\ ResultInv' /\ VotesInv'
    BY <1>2, <2>2, <2>3, MonitorFrame, ResultFrame, VotesFrame
  <2>6. VerifierInv'
    BY <1>2, <2>3, <2>4, VerifierFrame DEF VerifierHolds, Spawned, TypeOK, VerifierTypeOK
  <2>7. RowsInv'
    BY <1>2, <2>1, <2>2, <2>3, <2>4
    DEF RowsInv, RowsAreHashable, Hashable, BroadcasterHolds, SubmitterHolds, TypeOK,
        BroadcasterTypeOK, SubmitterTypeOK, EventRow
  <2>8. OneStageAtATime'
    BY <1>2, <2>1, StageFrame
    DEF VerifierHolds, BroadcasterHolds, CollatorHolds, SubmitterHolds, Spawned
  <2> QED
    BY <1>1, <2>5, <2>6, <2>7, <2>8
<1> QED
  BY <1>3, <1>4, <1>5

\* A write of the submitter to the row in its hands.
LEMMA MarkSafety ==
  ASSUME SafetyInv, SubmitterStep, NEW e \in subEvent,
         MarkSubmitted(e) \/ MarkDuplicatedSlash(e)
  PROVE  SafetyInv'
<1> USE DEF SafetyInv, SubmitterStep
<1>1. TypeOK'
  BY SubmitterStepType
<1>2. UNCHANGED <<blocks, verifyResult, nextHeight, verLoop, verEvents, verTask, bcEvents,
                  clEvents, clEnough, subEvents, voteVars>>
  BY DEF SubmitterNext, MarkSubmitted, MarkDuplicatedSlash, voteVars, monitorVars,
         verifierVars, broadcasterVars, collectorVars, collatorVars
<1>3. /\ subEvent' = {} \/ (subEvent' = subEvent /\ subLoop' = "submit")
      /\ \/ \E o \in Outcomes : UpdateEventStatusByChallengeId(e.id, "Submitted", o)
         \/ /\ subEvent' = {}
            /\ \E o \in Outcomes : UpdateEventStatusByChallengeId(e.id, "DuplicatedSlash", o)
  BY DEF MarkSubmitted, MarkDuplicatedSlash, ReturnToEvents
<1>4. /\ e.id \in Challenges /\ verifyResult[e.id] \in Results
      /\ \A f \in subEvents : f.id \in Challenges \ {e.id}
      /\ \A f \in subEvent : f = e
  BY HeldRows DEF RowsInv
<1>5. /\ \A d \in Challenges \ {e.id} : status'[d] = status[d]
      /\ \/ status'[e.id] \in {status[e.id], "Submitted"}
         \/ status'[e.id] = "DuplicatedSlash" /\ subEvent' = {}
      /\ \A d \in Challenges : HasRow(d)' <=> HasRow(d)
  <2>1. CASE \E o \in Outcomes : UpdateEventStatusByChallengeId(e.id, "Submitted", o)
    BY <1>4, <2>1, StatusUpdate DEF EventStatus
  <2>2. CASE /\ subEvent' = {}
             /\ \E o \in Outcomes : UpdateEventStatusByChallengeId(e.id, "DuplicatedSlash", o)
    BY <1>4, <2>2, StatusUpdate DEF EventStatus
  <2> QED
    BY <1>3, <2>1, <2>2
<1>6. ~VerifierHolds(e.id) /\ ~BroadcasterHolds(e.id) /\ ~CollatorHolds(e.id)
  BY <1>4 DEF OneStageAtATime, SubmitterHolds
<1>7. MonitorInv' /\ ResultInv' /\ VotesInv'
  BY <1>2, <1>4, <1>5, MonitorFrame, ResultFrame, VotesFrame
<1>8. VerifierInv'
  BY <1>2, <1>5, <1>6, VerifierFrame DEF VerifierHolds, Spawned, TypeOK, VerifierTypeOK
<1>9. RowsInv'
  BY <1>2, <1>3, <1>4, <1>5, <1>6
  DEF RowsInv, RowsAreHashable, Hashable, BroadcasterHolds, CollatorHolds, TypeOK,
      BroadcasterTypeOK, CollatorTypeOK, EventRow
<1>10. OneStageAtATime'
  BY <1>2, <1>3, StageFrame
  DEF VerifierHolds, BroadcasterHolds, CollatorHolds, SubmitterHolds, Spawned
<1> QED
  BY <1>1, <1>7, <1>8, <1>9, <1>10

\* All steps of the submitter: it fetches rows that only it selects, takes them one
\* by one and lets go of them when it has marked them or gives up.
LEMMA SubmitterStepSafety == ASSUME SafetyInv, SubmitterStep PROVE SafetyInv'
<1> USE DEF SafetyInv, SubmitterStep
<1>1. TypeOK'
  BY SubmitterStepType
<1>2. CASE \E e \in subEvent : MarkSubmitted(e) \/ MarkDuplicatedSlash(e)
  BY <1>2, MarkSafety
<1>3. CASE \/ QueryAttestPeriodLoop \/ AttestPeriodEnds \/ FetchEventsForSubmit
           \/ LeaveEvents \/ GiveUp \/ AttestChallenge
           \/ \E e \in subEvents : SubmitForSingleEvent(e)
  <2>1. UNCHANGED <<tableVars, nextHeight, verLoop, verEvents, verTask, bcEvents, clEvents,
                    clEnough, voteVars>>
    BY <1>3
    DEF SubmitterNext, QueryAttestPeriodLoop, AttestPeriodEnds, FetchEventsForSubmit,
        LeaveEvents, GiveUp, AttestChallenge, SubmitForSingleEvent, tableVars, voteVars,
        monitorVars, verifierVars, broadcasterVars, collectorVars, collatorVars
  <2>2. MonitorInv' /\ VerifierInv' /\ ResultInv' /\ VotesInv'
    BY <2>1, MonitorFrame, VerifierFrame, ResultFrame, VotesFrame DEF HasRow, tableVars
  <2>3. CASE FetchEventsForSubmit /\ subEvents' # subEvents
    <3>1. subEvent = {} /\ subEvent' = {}
      BY <2>3 DEF FetchEventsForSubmit, batchVars, RowsInv
    <3>2. \A e \in subEvents' : /\ e.id \in Challenges
                                /\ status[e.id] = "EnoughVotesCollected"
                                /\ e.verifyResult = verifyResult[e.id]
                                /\ e.verifyResult \in Results
      BY <2>3 DEF FetchEventsForSubmit, GetUnexpiredEventsByStatus, Row, ResultInv
    <3>3. RowsInv'
      BY <2>1, <3>1, <3>2 DEF RowsInv, RowsAreHashable, Hashable, tableVars
    <3>4. OneStageAtATime'
      BY <2>1, <3>1, <3>2, SelectedRow
      DEF OneStageAtATime, VerifierHolds, BroadcasterHolds, CollatorHolds, SubmitterHolds,
          Spawned, tableVars
    <3> QED
      BY <1>1, <2>2, <3>3, <3>4
  <2>4. CASE /\ subEvents' \cup subEvent' \subseteq subEvents \cup subEvent
             /\ subEvents' \cap subEvent' = {}
             /\ \A e, f \in subEvent' : e = f
             /\ subLoop' \in {"wait", "fetch", "events"} => subEvent' = {}
    <3>1. RowsInv'
      BY <2>1, <2>4 DEF RowsInv, RowsAreHashable, Hashable, tableVars
    <3>2. OneStageAtATime'
      BY <2>1, <2>4, StageFrame
      DEF VerifierHolds, BroadcasterHolds, CollatorHolds, SubmitterHolds, Spawned
    <3> QED
      BY <1>1, <2>2, <3>1, <3>2
  <2>5. CASE \E e \in subEvents : SubmitForSingleEvent(e)
    <3>1. PICK e \in subEvents : SubmitForSingleEvent(e)
      BY <2>5
    <3>2. subEvent = {} /\ subEvents' = subEvents \ {e}
      BY <3>1 DEF SubmitForSingleEvent, RowsInv
    <3>3. \/ subEvent' = subEvent
          \/ subEvent' = {e} /\ subLoop' = "submit"
      BY <3>1 DEF SubmitForSingleEvent, GetSignatureAndBitSet, batchVars
    <3> QED
      BY <2>4, <3>2, <3>3
  <2>6. CASE QueryAttestPeriodLoop \/ AttestPeriodEnds \/ LeaveEvents \/ GiveUp
             \/ AttestChallenge \/ (FetchEventsForSubmit /\ subEvents' = subEvents)
    BY <2>4, <2>6
    DEF QueryAttestPeriodLoop, AttestPeriodEnds, FetchEventsForSubmit, LeaveEvents, GiveUp,
        AttestChallenge, MaySubmit, ReturnToEvents, batchVars, RowsInv
  <2> QED
    BY <1>3, <2>3, <2>5, <2>6
<1> QED
  BY <1>2, <1>3 DEF SubmitterNext

\* A restart drops all that the goroutines hold and leaves the tables.
LEMMA CrashSafety == ASSUME SafetyInv, Crash PROVE SafetyInv'
<1> USE DEF SafetyInv, Crash, tableVars
<1>1. TypeOK'
  BY CrashType
<1>2. MonitorInv'
  BY DEF MonitorInv, MonitorRestart, NoGap, NoMissedEvent, HasRow
<1>3. VerifierInv'
  BY DEF VerifierRestart, VerifierInv, Spawned
<1>4. ResultInv'
  BY ResultFrame
<1>5. RowsInv'
  BY DEF BroadcasterRestart, CollatorRestart, SubmitterRestart, RowsInv, RowsAreHashable
<1>6. VotesInv'
  BY DEF BroadcasterRestart, CollectorRestart, VotesInv, NoEquivocation, OwnVotes, chainVars
<1>7. OneStageAtATime'
  BY DEF VerifierRestart, BroadcasterRestart, CollatorRestart, SubmitterRestart,
         OneStageAtATime, VerifierHolds, BroadcasterHolds, CollatorHolds, SubmitterHolds,
         Spawned
<1> QED
  BY <1>1, <1>2, <1>3, <1>4, <1>5, <1>6, <1>7

\* The chain changes nothing of the process; peers do not sign with our key.
LEMMA EnvironmentSafety == ASSUME SafetyInv, Environment PROVE SafetyInv'
<1> USE DEF SafetyInv, Environment
<1>1. TypeOK'
  BY EnvironmentType
<1>2. UNCHANGED <<tableVars, nextHeight, verLoop, heldVars, votes, bcSending,
                  cachedLocalVote, colVotes, colSaving>>
  BY DEF ChainMoves, NewBlock, ChangeValidators, ChangeHeartbeat, PeersVote, Attest, ForgetAttested, heldVars,
         tableVars, volatileVars, monitorVars, verifierVars, broadcasterVars, collectorVars,
         collatorVars, submitterVars
<1>3. CASE PeersVote
  <2>1. pool \subseteq pool' /\ OwnVotes(pool') = OwnVotes(pool)
    BY <1>3, ChallengerAssumption DEF PeersVote, OwnVotes
  <2>2. VotesInv'
    BY <1>2, <2>1 DEF VotesInv, NoEquivocation, OwnVotes, tableVars
  <2>3. MonitorInv' /\ VerifierInv' /\ ResultInv' /\ RowsInv'
    BY <1>2, MonitorFrame, VerifierFrame, ResultFrame, RowsFrame
    DEF HasRow, heldVars, tableVars
  <2>4. OneStageAtATime'
    BY <1>2, StageFrame
    DEF heldVars, VerifierHolds, BroadcasterHolds, CollatorHolds, SubmitterHolds, Spawned
  <2> QED
    BY <1>1, <2>2, <2>3, <2>4
<1>4. CASE pool' = pool
  BY <1>1, <1>2, <1>4, QuietFrame DEF voteVars
<1> QED
  BY <1>3, <1>4 DEF ChainMoves, Attest, ForgetAttested, chainVars

\* SafetyInv is inductive.
LEMMA NextSafety == SafetyInv /\ [Next]_vars => SafetyInv'
<1> SUFFICES ASSUME SafetyInv, [Next]_vars PROVE SafetyInv'
  OBVIOUS
<1>1. CASE UNCHANGED vars
  <2>1. TypeOK'
    BY <1>1, NextType DEF SafetyInv
  <2>2. UNCHANGED <<tableVars, nextHeight, verLoop, heldVars, voteVars>>
    BY <1>1
    DEF vars, tableVars, heldVars, voteVars, chainVars, monitorVars, verifierVars, broadcasterVars,
        collectorVars, collatorVars, submitterVars
  <2> QED
    BY <2>1, <2>2, QuietFrame
<1>2. CASE Next
  BY <1>2, ExecutorStepSafety, MonitorStepSafety, VerifierStepSafety, BroadcasterStepSafety,
     CollectorStepSafety, CollatorStepSafety, SubmitterStepSafety, AttestMonitorStepSafety,
     CrashSafety, EnvironmentSafety
  DEF Next
<1> QED
  BY <1>1, <1>2

\* The invariant holds in every reachable state, whatever the faults, the crashes
\* and the interleaving of the goroutines.
THEOREM Safety == Spec => []SafetyInv
  BY InitSafety, NextSafety, PTL DEF Spec

\* The monitor never skips a height (calNextHeight).
THEOREM NoHeightSkipped == Spec => []NoGap
<1>1. SafetyInv => NoGap
  BY DEF SafetyInv, MonitorInv
<1> QED
  BY <1>1, Safety, PTL

\* A challenge has a row exactly when its block is saved (SaveBlockAndEvents).
THEOREM NoEventMissed == Spec => []NoMissedEvent
<1>1. SafetyInv => NoMissedEvent
  BY DEF SafetyInv, MonitorInv
<1> QED
  BY <1>1, Safety, PTL

\* This challenger never signs two results for one challenge, through crashes, lost
\* answers of the database and evicted cache entries (constructVoteAndSign).
THEOREM NeverEquivocates == Spec => []NoEquivocation
<1>1. SafetyInv => NoEquivocation
  BY DEF SafetyInv, VotesInv
<1> QED
  BY <1>1, Safety, PTL

\* A vote of ours in the pool is saved in the table (constructVoteAndSign).
THEOREM SavedFirst == Spec => []SavedBeforeBroadcast
<1>1. SafetyInv => SavedBeforeBroadcast
  BY DEF SafetyInv, VotesInv, SavedBeforeBroadcast, OwnVotes
<1> QED
  BY <1>1, Safety, PTL

\* No two goroutines ever hold the same event.
THEOREM StagesAreExclusive == Spec => []OneStageAtATime
<1>1. SafetyInv => OneStageAtATime
  BY DEF SafetyInv
<1> QED
  BY <1>1, Safety, PTL

\* CalculateEventHash never panics on a row without result, and a held row's
\* result is that of the table.
THEOREM RowsStayHashable == Spec => []RowsAreHashable
<1>1. SafetyInv => RowsAreHashable
  BY DEF SafetyInv, RowsInv
<1> QED
  BY <1>1, Safety, PTL

\* Only a goroutine of the verifier writes a result, and only into a row without one.
LEMMA ResultStep ==
  ASSUME SafetyInv, [Next]_vars, NEW c \in Challenges, verifyResult[c] # "Unknown"
  PROVE  verifyResult'[c] = verifyResult[c]
<1>1. CASE VerifierStep
  <2>1. CASE verifyResult' = verifyResult
    BY <2>1
  <2>2. ASSUME NEW d \in Challenges, SaveResult(d) PROVE verifyResult'[c] = verifyResult[c]
    <3>1. PICK o \in Outcomes : UpdateVerified(d, o)
      BY <2>2 DEF SaveResult
    <3>2. d \in Spawned
      BY <3>1 DEF UpdateVerified, Spawned, Results
    <3>3. d # c
      BY <3>2 DEF SafetyInv, VerifierInv
    <3> QED
      BY <3>1, <3>3
      DEF UpdateVerified, UpdateEventStatusVerifyResultByChallengeId, SafetyInv, TypeOK,
          TablesTypeOK
  <2> QED
    BY <1>1, <2>1, <2>2
    DEF VerifierStep, VerifierNext, VerifyHashLoop, VerifyForSingleEvent, StartVerification,
        QueryChain, QueryStorageProvider, UpdateDeduplicationIntervalLoop
<1>2. CASE ExecutorStep \/ MonitorStep \/ CollectorStep \/ AttestMonitorStep \/ Crash
           \/ Environment \/ UNCHANGED vars
  BY <1>2
  DEF ExecutorStep, GetHeightLoop, CacheValidatorsLoop, UpdateHeartbeatIntervalLoop, MonitorStep, MonitorNext, Poll,
      BlockUnavailable, BlockRetrieved, CollectorStep, CollectorNext, AttestMonitorStep,
      AttestMonitorNext, Crash, Environment, ChainMoves, NewBlock, ChangeValidators, ChangeHeartbeat,
      PeersVote, Attest, ForgetAttested, vars, tableVars
<1>3. CASE BroadcasterStep \/ CollatorStep \/ SubmitterStep
  BY <1>3
  DEF BroadcasterStep, BroadcasterNext, FetchEventsForSelfVote, VoteForEvent,
      BroadcastForSingleEvent, CollatorStep, CollatorNext, FetchEventsForCollate,
      CollateForSingleEvent, UpdateEnoughVotesCollected, SubmitterStep, SubmitterNext,
      tableVars
<1> QED
  BY <1>1, <1>2, <1>3 DEF Next

\* A verify result, once written, never changes (compareHashAndUpdate).
THEOREM ResultsAreFinal == Spec => ResultIsFinal
<1>1. SafetyInv /\ [Next]_vars =>
        [\A c \in Challenges :
           verifyResult[c] # "Unknown" => verifyResult'[c] = verifyResult[c]]_vars
  BY ResultStep
<1> QED
  BY <1>1, Safety, PTL DEF Spec, ResultIsFinal

\* What StatusAdvances says of one row.
Advances(c) ==
  \/ status'[c] = status[c]
  \/ Rank[status[c]] < Rank[status'[c]]
  \/ status[c] \in Attests

\* The ranks, one by one.
LEMMA Ranks ==
  /\ Rank["NoRow"] = 0 /\ Rank["Unprocessed"] = 1
  /\ Rank["Verified"] = 2 /\ Rank["Duplicated"] = 2 /\ Rank["VerificationFailed"] = 2
  /\ Rank["SelfVoted"] = 3 /\ Rank["EnoughVotesCollected"] = 4
  /\ Rank["Submitted"] = 5 /\ Rank["DuplicatedSlash"] = 6
  /\ Rank["Attested"] = 7 /\ Rank["SelfAttested"] = 7
  BY DEF Rank, EventStatus, Attests

\* An update of one row advances the status if it does so for that row.
LEMMA UpdateAdvances ==
  ASSUME SafetyInv, NEW d \in Challenges, NEW s \in EventStatus, NEW o,
         UpdateEventStatusByChallengeId(d, s, o),
         status[d] = s \/ Rank[status[d]] < Rank[s] \/ status[d] \in Attests
  PROVE  \A c \in Challenges : Advances(c)
  BY StatusUpdate DEF Advances, SafetyInv

\* No step moves an event back, unless the attest monitor has marked it.
LEMMA StatusStep ==
  ASSUME SafetyInv, [Next]_vars
  PROVE  \A c \in Challenges : Advances(c)
<1> USE DEF SafetyInv
<1>1. CASE status' = status
  BY <1>1 DEF Advances
<1>2. ASSUME MonitorStep, status' # status PROVE \A c \in Challenges : Advances(c)
  <2>1. PICK o \in Outcomes : nextHeight # 0 /\ SaveBlockAndEvents(nextHeight, ParseEvents(nextHeight), o)
    BY <1>2 DEF MonitorStep, MonitorNext, Poll, BlockUnavailable, BlockRetrieved, tableVars
  <2>2. nextHeight \notin blocks
    BY <2>1 DEF MonitorInv, LatestBlock, TypeOK, MonitorTypeOK, Heights
  <2>3. \A c \in Challenges : \/ status'[c] = status[c]
                              \/ status[c] = "NoRow" /\ status'[c] = "Unprocessed"
    BY <2>1, <2>2
    DEF SaveBlockAndEvents, ParseEvents, MonitorInv, NoMissedEvent, HasRow, TypeOK, TablesTypeOK
  <2> QED
    BY <2>3, Ranks DEF Advances
<1>3. ASSUME VerifierStep, status' # status PROVE \A c \in Challenges : Advances(c)
  <2>1. PICK d \in Challenges : SaveResult(d)
    BY <1>3
    DEF VerifierStep, VerifierNext, VerifyHashLoop, VerifyForSingleEvent, StartVerification,
        QueryChain, QueryStorageProvider, UpdateDeduplicationIntervalLoop
  <2>2. PICK o \in Outcomes, s \in {"Duplicated", "VerificationFailed", "Verified"} :
          UpdateEventStatusByChallengeId(d, s, o)
    BY <2>1
    DEF SaveResult, UpdateVerified, UpdateEventStatusVerifyResultByChallengeId
  <2>3. d \in Spawned
    BY <2>1 DEF SaveResult, UpdateVerified, Spawned, Results
  <2>4. status[d] = "Unprocessed" \/ status[d] \in Attests
    BY <2>3 DEF VerifierInv
  <2> QED
    BY <2>2, <2>4, Ranks, UpdateAdvances DEF EventStatus
<1>4. ASSUME BroadcasterStep, status' # status PROVE \A c \in Challenges : Advances(c)
  <2>1. PICK e \in bcEvents, o \in Outcomes : UpdateEventStatusByChallengeId(e.id, "SelfVoted", o)
    BY <1>4
    DEF BroadcasterStep, BroadcasterNext, FetchEventsForSelfVote, VoteForEvent, UseCachedVote,
        ConstructVoteAndSign, SaveVoteAndUpdateEventStatus, BroadcastForSingleEvent, tableVars
  <2>2. e.id \in Challenges /\ (status[e.id] = "Verified" \/ status[e.id] \in Attests)
    BY HeldRows DEF RowsInv
  <2> QED
    BY <2>1, <2>2, Ranks, UpdateAdvances DEF EventStatus
<1>5. ASSUME CollatorStep, status' # status PROVE \A c \in Challenges : Advances(c)
  <2>1. PICK e \in clEnough, o \in Outcomes :
          UpdateEventStatusByChallengeId(e.id, "EnoughVotesCollected", o)
    BY <1>5
    DEF CollatorStep, CollatorNext, FetchEventsForCollate, CollateForSingleEvent,
        UpdateEnoughVotesCollected, tableVars
  <2>2. e.id \in Challenges /\ (status[e.id] = "SelfVoted" \/ status[e.id] \in Attests)
    BY HeldRows DEF RowsInv
  <2> QED
    BY <2>1, <2>2, Ranks, UpdateAdvances DEF EventStatus
<1>6. ASSUME SubmitterStep, status' # status PROVE \A c \in Challenges : Advances(c)
  <2>1. PICK e \in subEvent, o \in Outcomes, s \in {"Submitted", "DuplicatedSlash"} :
          UpdateEventStatusByChallengeId(e.id, s, o)
    BY <1>6
    DEF SubmitterStep, SubmitterNext, QueryAttestPeriodLoop, AttestPeriodEnds,
        FetchEventsForSubmit, LeaveEvents, SubmitForSingleEvent, GiveUp, AttestChallenge,
        MarkSubmitted, MarkDuplicatedSlash
  <2>2. /\ e.id \in Challenges
        /\ status[e.id] \in {"EnoughVotesCollected", "Submitted"} \cup Attests
    BY HeldRows DEF RowsInv
  <2> QED
    BY <2>1, <2>2, Ranks, UpdateAdvances DEF EventStatus
<1>7. ASSUME AttestMonitorStep, status' # status PROVE \A c \in Challenges : Advances(c)
  <2>1. PICK d \in Challenges, o \in Outcomes, s \in Attests :
          UpdateEventStatusByChallengeId(d, s, o)
    BY <1>7
    DEF AttestMonitorStep, AttestMonitorNext, QueryLatestAttestedChallengeIds, ReadEvent,
        UpdateAttested
  <2>2. status[d] \in EventStatus \cup {"NoRow"}
    BY DEF TypeOK, TablesTypeOK
  <2>3. status[d] = s \/ Rank[status[d]] < Rank[s] \/ status[d] \in Attests
    BY <2>2, Ranks DEF EventStatus, Attests
  <2> QED
    BY <2>1, <2>3, UpdateAdvances DEF EventStatus, Attests
<1> QED
  BY <1>1, <1>2, <1>3, <1>4, <1>5, <1>6, <1>7
  DEF Next, vars, tableVars, ExecutorStep, GetHeightLoop, CacheValidatorsLoop, UpdateHeartbeatIntervalLoop, CollectorStep,
      CollectorNext, Crash, Environment, ChainMoves, NewBlock, ChangeValidators, ChangeHeartbeat, PeersVote,
      Attest, ForgetAttested

\* The status column only advances; only an attested one is ever overwritten.
THEOREM StatusesAdvance == Spec => StatusAdvances
<1>1. SafetyInv /\ [Next]_vars =>
        [\A c \in Challenges : \/ status'[c] = status[c]
                               \/ Rank[status[c]] < Rank[status'[c]]
                               \/ status[c] \in Attests]_vars
  BY StatusStep DEF Advances
<1> QED
  BY <1>1, Safety, PTL DEF Spec, StatusAdvances
=============================================================================
