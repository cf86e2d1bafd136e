--------------------------- MODULE EvidenceProofs ---------------------------
(***************************************************************************)
(* EvidenceInv is inductive together with SafetyInv, for every value of    *)
(* the constants: every saved vote is genuine, every attestation signs the *)
(* result of its row, an attested mark is true and a duplicate has an      *)
(* original.  The argument is the same throughout: a goroutine acts on  *)
(* evidence it saw earlier, and evidence is never taken back.              *)
(***************************************************************************)
EXTENDS SafetyProofs, WellFoundedInduction

\* Nothing that is stored or on the chain is taken back: blocks, votes, the pool,
\* attestations, rows and results only grow.
LEMMA Grows ==
  ASSUME SafetyInv, [Next]_vars
  PROVE  /\ votes \subseteq votes' /\ pool \subseteq pool'
         /\ txs \subseteq txs' /\ attested \subseteq attested'
         /\ \A c \in Challenges :
              /\ HasRow(c) => HasRow(c)'
              /\ verifyResult[c] \in Results => verifyResult'[c] = verifyResult[c]
<1>1. CASE ExecutorStep \/ MonitorStep \/ VerifierStep \/ CollatorStep \/ Crash \/ Environment
           \/ AttestMonitorStep \/ UNCHANGED vars
  <2>1. votes' = votes /\ pool \subseteq pool' /\ txs' = txs /\ attested \subseteq attested'
        /\ blocks \subseteq blocks'
    BY <1>1
    DEF ExecutorStep, GetHeightLoop, CacheValidatorsLoop, UpdateHeartbeatIntervalLoop,
        MonitorStep, MonitorNext, Poll, BlockUnavailable, BlockRetrieved, SaveBlockAndEvents,
        VerifierStep, VerifierNext, CollatorStep, CollatorNext, FetchEventsForCollate,
        CollateForSingleEvent, UpdateEnoughVotesCollected, Crash, Environment, ChainMoves,
        NewBlock, ChangeValidators, ChangeHeartbeat, PeersVote, Attest, ForgetAttested,
        AttestMonitorStep, AttestMonitorNext, vars, tableVars, chainVars
  <2> QED
    BY <2>1, NextSafety, ResultStep DEF SafetyInv, MonitorInv, NoMissedEvent, Results
<1>2. CASE BroadcasterStep \/ CollectorStep \/ SubmitterStep
  <2>1. votes \subseteq votes' /\ pool \subseteq pool' /\ txs \subseteq txs'
        /\ attested' = attested /\ blocks' = blocks
    <3>1. CASE BroadcasterStep
      BY <3>1
      DEF BroadcasterStep, BroadcasterNext, FetchEventsForSelfVote, VoteForEvent, UseCachedVote,
          ConstructVoteAndSign, SaveVoteAndUpdateEventStatus, SaveVote,
          BroadcastForSingleEvent, BroadcastVote, tableVars
    <3>2. CASE CollectorStep
      BY <3>2
      DEF CollectorStep, CollectorNext, QueryVotes, CheckVote, SaveCheckedVote, SaveVote
    <3>3. CASE SubmitterStep
      BY <3>3
      DEF SubmitterStep, SubmitterNext, QueryAttestPeriodLoop, AttestPeriodEnds,
          FetchEventsForSubmit, LeaveEvents, SubmitForSingleEvent, GiveUp, AttestChallenge,
          AcceptAttestation, MarkSubmitted, MarkDuplicatedSlash
    <3> QED
      BY <1>2, <3>1, <3>2, <3>3
  <2> QED
    BY <2>1, NextSafety, ResultStep DEF SafetyInv, MonitorInv, NoMissedEvent, Results
<1> QED
  BY <1>1, <1>2 DEF Next

\* Who writes which status, and from what it holds: the only way a row changes.
LEMMA StatusWriters ==
  ASSUME SafetyInv, [Next]_vars, NEW c \in Challenges, status'[c] # status[c]
  PROVE  \/ status'[c] \in {"Unprocessed", "Verified", "VerificationFailed"}
         \/ status'[c] = "Duplicated" /\ verTask[c] = "Duplicated"
         \/ status'[c] = "SelfVoted" /\ OwnVoteSaved(c)'
         \/ status'[c] = "EnoughVotesCollected" /\ \E e \in clEnough : e.id = c
         \/ /\ \/ status'[c] = "Submitted" /\ subLoop = "mark"
               \/ status'[c] = "DuplicatedSlash"
            /\ \E e \in subEvent : e.id = c
         \/ status'[c] \in Attests /\ status'[c] = amTask[c]
<1> USE DEF SafetyInv
<1>1. CASE MonitorStep
  BY <1>1
  DEF MonitorStep, MonitorNext, Poll, BlockUnavailable, BlockRetrieved, SaveBlockAndEvents, tableVars
<1>2. CASE VerifierStep
  <2>1. PICK d \in Challenges : SaveResult(d)
    BY <1>2
    DEF VerifierStep, VerifierNext, VerifyHashLoop, VerifyForSingleEvent, StartVerification,
        QueryChain, QueryStorageProvider, UpdateDeduplicationIntervalLoop
  <2>2. PICK o \in Outcomes : UpdateVerified(d, o)
    BY <2>1 DEF SaveResult
  <2>3. status'[c] \in {"Verified", "VerificationFailed"}
        \/ (status'[c] = "Duplicated" /\ c = d /\ verTask[d] = "Duplicated")
    BY <2>2
    DEF UpdateVerified, UpdateEventStatusByChallengeId,
        UpdateEventStatusVerifyResultByChallengeId, TypeOK, TablesTypeOK
  <2> QED
    BY <2>3
<1>3. CASE BroadcasterStep
  <2>1. PICK e \in bcEvents, o \in Outcomes : SaveVoteAndUpdateEventStatus(OwnVote(e), e.id, o)
    BY <1>3
    DEF BroadcasterStep, BroadcasterNext, FetchEventsForSelfVote, VoteForEvent, UseCachedVote,
        ConstructVoteAndSign, BroadcastForSingleEvent, tableVars
  <2>2. verifyResult' = verifyResult
    BY <1>3
    DEF BroadcasterStep, BroadcasterNext, FetchEventsForSelfVote, VoteForEvent,
        BroadcastForSingleEvent, tableVars
  <2>3. e.id \in Challenges /\ e.verifyResult = verifyResult[e.id]
    BY HeldRows
  <2>4. Committed(o) /\ e.id = c /\ status'[c] = "SelfVoted"
    BY <2>1, <2>3
    DEF SaveVoteAndUpdateEventStatus, UpdateEventStatusByChallengeId, TypeOK, TablesTypeOK
  <2>5. OwnVote(e) \in votes'
    BY <2>1, <2>4 DEF SaveVoteAndUpdateEventStatus, SaveVote
  <2>6. OwnVote(e) = SignVote(Self, <<c, verifyResult'[c]>>)
    BY <2>2, <2>3, <2>4 DEF OwnVote, CalculateEventHash
  <2> QED
    BY <2>4, <2>5, <2>6 DEF OwnVoteSaved
<1>4. CASE CollatorStep
  <2>1. PICK e \in clEnough, o \in Outcomes :
          UpdateEventStatusByChallengeId(e.id, "EnoughVotesCollected", o)
    BY <1>4
    DEF CollatorStep, CollatorNext, FetchEventsForCollate, CollateForSingleEvent,
        UpdateEnoughVotesCollected, tableVars
  <2> QED
    BY <2>1 DEF UpdateEventStatusByChallengeId, TypeOK, TablesTypeOK
<1>5. CASE SubmitterStep
  <2>1. PICK e \in subEvent : MarkSubmitted(e) \/ MarkDuplicatedSlash(e)
    BY <1>5
    DEF SubmitterStep, SubmitterNext, QueryAttestPeriodLoop, AttestPeriodEnds,
        FetchEventsForSubmit, LeaveEvents, SubmitForSingleEvent, GiveUp, AttestChallenge
  <2>2. PICK o \in Outcomes :
          \/ subLoop = "mark" /\ UpdateEventStatusByChallengeId(e.id, "Submitted", o)
          \/ UpdateEventStatusByChallengeId(e.id, "DuplicatedSlash", o)
    BY <2>1 DEF MarkSubmitted, MarkDuplicatedSlash
  <2> QED
    BY <2>2 DEF UpdateEventStatusByChallengeId, TypeOK, TablesTypeOK
<1>6. CASE AttestMonitorStep
  <2>1. PICK d \in Challenges : UpdateAttested(d)
    BY <1>6
    DEF AttestMonitorStep, AttestMonitorNext, QueryLatestAttestedChallengeIds, ReadEvent
  <2>2. PICK o \in Outcomes : UpdateEventStatusByChallengeId(d, amTask[d], o)
    BY <2>1 DEF UpdateAttested
  <2> QED
    BY <2>1, <2>2 DEF UpdateAttested, UpdateEventStatusByChallengeId, TypeOK, TablesTypeOK
<1>7. CASE ExecutorStep \/ CollectorStep \/ Crash \/ Environment \/ UNCHANGED vars
  BY <1>7
  DEF vars, tableVars, ExecutorStep, GetHeightLoop, CacheValidatorsLoop,
      UpdateHeartbeatIntervalLoop, CollectorStep, CollectorNext, Crash, Environment, ChainMoves,
      NewBlock, ChangeValidators, ChangeHeartbeat, PeersVote, Attest, ForgetAttested
<1> QED
  BY <1>1, <1>2, <1>3, <1>4, <1>5, <1>6, <1>7 DEF Next

\* What the vote goroutines and the submitter hold: rows fetched by their status, or
\* handed on within the goroutine.
LEMMA HeldSources ==
  ASSUME SafetyInv, [Next]_vars
  PROVE  /\ \A e \in clEvents' : e \in clEvents \/ (e.id \in Challenges /\ status[e.id] = "SelfVoted")
         /\ \A e \in clEnough' : \/ e \in clEnough
                                 \/ /\ e \in clEvents /\ CollatorStep
                                    /\ PrepareEnoughValidVotesForEvent(e)
         /\ \A e \in subEvents' :
              e \in subEvents \/ (e.id \in Challenges /\ status[e.id] = "EnoughVotesCollected")
         /\ subEvent' \subseteq subEvent \cup subEvents
<1>1. CASE CollatorStep
  <2>1. UNCHANGED <<subEvents, subEvent>>
    BY <1>1 DEF CollatorStep, submitterVars
  <2>2. CASE FetchEventsForCollate
    BY <2>1, <2>2 DEF FetchEventsForCollate, GetUnexpiredEventsByStatus, Row
  <2>3. CASE \E e \in clEvents : CollateForSingleEvent(e)
    BY <1>1, <2>1, <2>3 DEF CollateForSingleEvent
  <2>4. CASE \E e \in clEnough : UpdateEnoughVotesCollected(e)
    BY <2>1, <2>4 DEF UpdateEnoughVotesCollected
  <2> QED
    BY <1>1, <2>2, <2>3, <2>4 DEF CollatorStep, CollatorNext
<1>2. CASE SubmitterStep
  <2>1. UNCHANGED <<clEvents, clEnough>>
    BY <1>2 DEF SubmitterStep, collatorVars
  <2>2. CASE FetchEventsForSubmit
    BY <2>1, <2>2 DEF FetchEventsForSubmit, GetUnexpiredEventsByStatus, Row, batchVars
  <2>3. CASE \E e \in subEvents : SubmitForSingleEvent(e)
    BY <2>1, <2>3 DEF SubmitForSingleEvent, GetSignatureAndBitSet, batchVars
  <2>4. CASE ~FetchEventsForSubmit /\ ~\E e \in subEvents : SubmitForSingleEvent(e)
    BY <1>2, <2>1, <2>4
    DEF SubmitterStep, SubmitterNext, QueryAttestPeriodLoop, AttestPeriodEnds, LeaveEvents, GiveUp,
        AttestChallenge, MarkSubmitted, MarkDuplicatedSlash, ReturnToEvents, batchVars
  <2> QED
    BY <2>2, <2>3, <2>4
<1>3. CASE Crash
  BY <1>3 DEF Crash, CollatorRestart, SubmitterRestart
<1>4. CASE ~CollatorStep /\ ~SubmitterStep /\ ~Crash
  BY <1>4
  DEF Next, vars, ExecutorStep, MonitorStep, VerifierStep, BroadcasterStep, CollectorStep,
      AttestMonitorStep, Environment, ChainMoves, PeersVote, Attest, ForgetAttested,
      volatileVars, collatorVars, submitterVars
<1> QED
  BY <1>1, <1>2, <1>3, <1>4

(***************************************************************************)
(* Genuine votes                                                           *)
(***************************************************************************)
\* The broadcaster saves votes of our key; the collector saves what it has found to
\* be a validator's, against a set of validators the chain has had.
LEMMA GenuineStep ==
  ASSUME SafetyInv, GenuineInv, [Next]_vars
  PROVE  GenuineInv'
<1>1. CASE BroadcasterStep
  <2>1. colSaving' = colSaving /\ (votes' = votes \/ \E e \in bcEvents : votes' = votes \cup {OwnVote(e)})
    BY <1>1
    DEF BroadcasterStep, BroadcasterNext, FetchEventsForSelfVote, VoteForEvent, UseCachedVote,
        ConstructVoteAndSign, SaveVoteAndUpdateEventStatus, SaveVote, BroadcastForSingleEvent,
        tableVars, collectorVars
  <2>2. \A e \in bcEvents : OwnVote(e).pubKey = Self
    BY DEF OwnVote, SignVote
  <2> QED
    BY <2>1, <2>2 DEF GenuineInv
<1>2. CASE CollectorStep
  <2>1. CASE \E v \in colVotes : CheckVote(v)
    BY <2>1
    DEF CheckVote, SkipVote, AcceptVote, isVotePubKeyValid, GenuineInv, SafetyInv, TypeOK,
        CollectorTypeOK
  <2>2. CASE QueryVotes \/ \E v \in colSaving : SaveCheckedVote(v)
    BY <2>2 DEF QueryVotes, SaveCheckedVote, SaveVote, GenuineInv
  <2> QED
    BY <1>2, <2>1, <2>2 DEF CollectorStep, CollectorNext
<1>3. CASE Crash
  BY <1>3 DEF Crash, CollectorRestart, tableVars, GenuineInv
<1>4. CASE ~BroadcasterStep /\ ~CollectorStep /\ ~Crash
  <2>1. UNCHANGED <<votes, colSaving>>
    BY <1>4
    DEF Next, vars, tableVars, ExecutorStep, GetHeightLoop, CacheValidatorsLoop,
        UpdateHeartbeatIntervalLoop, MonitorStep, MonitorNext, Poll, BlockUnavailable,
        BlockRetrieved, VerifierStep, VerifierNext, CollatorStep, CollatorNext,
        FetchEventsForCollate, CollateForSingleEvent, UpdateEnoughVotesCollected,
        SubmitterStep, SubmitterNext, AttestMonitorStep, AttestMonitorNext, Environment,
        ChainMoves, NewBlock, ChangeValidators, ChangeHeartbeat, PeersVote, Attest,
        ForgetAttested, volatileVars, collectorVars
  <2> QED
    BY <2>1 DEF GenuineInv
<1> QED
  BY <1>1, <1>2, <1>3, <1>4

(***************************************************************************)
(* Attestations sign the result                                            *)
(***************************************************************************)
\* Our saved vote for a result stays, and so does the result.
LEMMA OwnVoteStays ==
  ASSUME SafetyInv, [Next]_vars, NEW c \in Challenges, verifyResult[c] \in Results, OwnVoteSaved(c)
  PROVE  OwnVoteSaved(c)'
<1>1. votes \subseteq votes' /\ verifyResult'[c] = verifyResult[c]
  BY Grows
<1> QED
  BY <1>1 DEF OwnVoteSaved

\* What an attestation signs stays the result of its row.
LEMMA AttestationStays ==
  ASSUME SafetyInv, [Next]_vars, NEW t \in Attestation, SignsResult(t)
  PROVE  SignsResult(t)'
<1>1. votes \subseteq votes' /\ verifyResult'[t.id] = verifyResult[t.id]
  BY Grows DEF Attestation, SignsResult
<1> QED
  BY <1>1 DEF SignsResult

\* A genuine vote is what SignVote makes.
LEMMA GenuineVote ==
  ASSUME SafetyInv, NEW v \in votes
  PROVE  v = SignVote(v.pubKey, v.eventHash)
<1>1. v \in Vote /\ v.signer = v.pubKey
  BY DEF SafetyInv, TypeOK, TablesTypeOK, VotesInv
<1> QED
  BY <1>1 DEF Vote, SignVote

\* The hash that the submitter uses is that of the row, although it may come from
\* the cache, so the attestation built from it signs the row's result.
LEMMA AttestationIsSigned ==
  ASSUME SafetyInv, SignedInv, NEW e \in subEvents,
         NEW hash \in HashesOf(e.id) \cup {CalculateEventHash(e)}
  PROVE  /\ hash = <<e.id, verifyResult[e.id]>>
         /\ AttestationOf(e, hash).id = e.id
         /\ SignsResult(AttestationOf(e, hash))
<1>1. e.id \in Challenges /\ e.verifyResult = verifyResult[e.id] /\ e.verifyResult \in Results
  BY HeldRows
<1>2. hash = <<e.id, verifyResult[e.id]>>
  <2>1. CASE hash \in HashesOf(e.id)
    <3>1. hash \in EventHashes /\ hash[1] = e.id /\ hash[2] = verifyResult[e.id]
      BY <2>1 DEF HashesOf, SignedInv, SafetyInv, TypeOK, SubmitterTypeOK
    <3> QED
      BY <3>1 DEF EventHashes
  <2>2. CASE hash = CalculateEventHash(e)
    BY <1>1, <2>2 DEF CalculateEventHash
  <2> QED
    BY <2>1, <2>2
<1>3. SignVote(Self, hash) \in votes
  BY <1>2 DEF SignedInv, OwnVoteSaved
<1> DEFINE vs == GetVotesByEventHash(hash)
           t == AttestationOf(e, hash)
<1>4. /\ t.id = e.id /\ t.result = e.verifyResult /\ t.hash = hash
      /\ t.signers = {v.signer : v \in vs}
  BY DEF AttestationOf, AggregatedKeys
<1>5. Self \in t.signers
  <2>1. SignVote(Self, hash) \in vs /\ SignVote(Self, hash).signer = Self
    BY <1>3 DEF GetVotesByEventHash, SignVote
  <2> QED
    BY <1>4, <2>1
<1>6. ASSUME NEW k \in t.signers PROVE SignVote(k, hash) \in votes
  <2>1. PICK v \in vs : v.signer = k
    BY <1>4
  <2>2. v \in votes /\ v.eventHash = hash /\ v.pubKey = k
    BY <2>1 DEF GetVotesByEventHash, SafetyInv, VotesInv
  <2> QED
    BY <2>1, <2>2, GenuineVote
<1> HIDE DEF t
<1>7. SignsResult(t)
  BY <1>1, <1>2, <1>4, <1>5, <1>6 DEF SignsResult
<1> QED
  BY <1>2, <1>4, <1>7 DEF t

\* Where the submitter's cached hashes and attestations come from.
LEMMA AttestationSources ==
  ASSUME SafetyInv, [Next]_vars
  PROVE  /\ txs' \subseteq txs \cup subTx
         /\ \A x \in cachedEventHash' :
              x \in cachedEventHash \/ \E e \in subEvents : x = CalculateEventHash(e)
         /\ \/ UNCHANGED <<subEvent, subTx>>
            \/ subEvent' = {} /\ subTx' = {}
            \/ \E e \in subEvents : \E hash \in HashesOf(e.id) \cup {CalculateEventHash(e)} :
                 /\ subEvent' = {e} /\ subTx' = {AttestationOf(e, hash)}
                 /\ subLoop' = "submit" /\ SubmitterStep
         /\ subLoop' = "mark" =>
              subTx' = subTx /\ (subLoop = "mark" \/ txs' = txs \cup subTx)
<1>1. CASE SubmitterStep
  <2>1. CASE \E e \in subEvents : SubmitForSingleEvent(e)
    <3>1. PICK e \in subEvents : SubmitForSingleEvent(e)
      BY <2>1
    <3>2. txs' = txs /\ subLoop' # "mark"
      BY <3>1 DEF SubmitForSingleEvent, GetSignatureAndBitSet
    <3>3. \/ UNCHANGED batchVars
          \/ GetSignatureAndBitSet(e)
      BY <3>1 DEF SubmitForSingleEvent
    <3>4. CASE UNCHANGED batchVars
      BY <3>2, <3>4 DEF batchVars
    <3>5. CASE GetSignatureAndBitSet(e)
      <4>1. PICK hash \in HashesOf(e.id) \cup {CalculateEventHash(e)} :
              /\ GetEventHash(e, hash)
              /\ \/ subTx' = {AttestationOf(e, hash)} /\ subEvent' = {e} /\ subLoop' = "submit"
                 \/ UNCHANGED <<subTx, subEvent>>
        BY <3>5 DEF GetSignatureAndBitSet
      <4>2. \A x \in cachedEventHash' : x \in cachedEventHash \/ x = CalculateEventHash(e)
        BY <4>1 DEF GetEventHash, LruAdd
      <4> QED
        BY <1>1, <3>2, <4>1, <4>2
    <3> QED
      BY <3>3, <3>4, <3>5
  <2>2. CASE ~\E e \in subEvents : SubmitForSingleEvent(e)
    BY <1>1, <2>2
    DEF SubmitterStep, SubmitterNext, QueryAttestPeriodLoop, AttestPeriodEnds,
        FetchEventsForSubmit, LeaveEvents, GiveUp, AttestChallenge, AcceptAttestation,
        MarkSubmitted, MarkDuplicatedSlash, ReturnToEvents, batchVars
  <2> QED
    BY <2>1, <2>2
<1>2. CASE Crash
  BY <1>2 DEF Crash, SubmitterRestart, chainVars
<1>3. CASE ~SubmitterStep /\ ~Crash
  BY <1>3
  DEF Next, vars, ExecutorStep, MonitorStep, VerifierStep, BroadcasterStep, CollectorStep,
      CollatorStep, AttestMonitorStep, Environment, ChainMoves, PeersVote, Attest,
      ForgetAttested, volatileVars, chainVars, submitterVars
<1> QED
  BY <1>1, <1>2, <1>3

\* Every status from "SelfVoted" on is reached through the transaction that saves
\* our vote, and what is built on it signs that vote's result.
LEMMA SignedStep ==
  ASSUME SafetyInv, SignedInv, [Next]_vars
  PROVE  SignedInv'
<1> DEFINE Voted == {"SelfVoted", "EnoughVotesCollected", "Submitted", "DuplicatedSlash"}
           held == clEvents \cup clEnough \cup subEvents \cup subEvent
<1>1. PoolAtStart \subseteq pool'
  BY Grows DEF SignedInv
<1>2. ASSUME NEW c \in Challenges, status[c] \in Voted PROVE OwnVoteSaved(c)'
  BY <1>2, OwnVoteStays DEF SignedInv, SafetyInv, ResultInv
<1>3. ASSUME NEW e \in held PROVE e.id \in Challenges /\ OwnVoteSaved(e.id)'
  <2>1. e.id \in Challenges /\ verifyResult[e.id] \in Results
    BY HeldRows
  <2> QED
    BY <2>1, OwnVoteStays DEF SignedInv
<1>4. ASSUME NEW c \in Challenges, status'[c] \in Voted PROVE OwnVoteSaved(c)'
  <2>1. CASE status'[c] = status[c]
    BY <1>2, <1>4, <2>1
  <2>2. CASE status'[c] # status[c]
    <3>1. OwnVoteSaved(c)' \/ \E e \in held : e.id = c
      BY <1>4, <2>2, StatusWriters DEF Attests
    <3> QED
      BY <1>3, <3>1
  <2> QED
    BY <2>1, <2>2
<1>5. ASSUME NEW e \in held' PROVE OwnVoteSaved(e.id)'
  <2>1. e \in held \/ (e.id \in Challenges /\ status[e.id] \in Voted)
    BY HeldSources
  <2> QED
    BY <1>2, <1>3, <2>1
<1>6. ASSUME NEW x \in cachedEventHash' PROVE x[2] = verifyResult'[x[1]] /\ x[2] \in Results
  <2>1. x[1] \in Challenges /\ x[2] = verifyResult[x[1]] /\ x[2] \in Results
    <3>1. CASE x \in cachedEventHash
      BY <3>1 DEF SignedInv, SafetyInv, TypeOK, SubmitterTypeOK, EventHashes
    <3>2. CASE \E e \in subEvents : x = CalculateEventHash(e)
      BY <3>2, HeldRows DEF CalculateEventHash
    <3> QED
      BY <3>1, <3>2, AttestationSources
  <2> QED
    BY <2>1, Grows
<1>7. ASSUME NEW t \in subTx' \cup txs' PROVE SignsResult(t)'
  <2>1. CASE t \in subTx \cup txs
    <3>1. t \in Attestation /\ SignsResult(t)
      BY <2>1 DEF SignedInv, SafetyInv, TypeOK, SubmitterTypeOK
    <3> QED
      BY <3>1, AttestationStays
  <2>2. CASE t \notin subTx \cup txs
    <3>1. PICK e \in subEvents : \E hash \in HashesOf(e.id) \cup {CalculateEventHash(e)} :
                                 t = AttestationOf(e, hash)
      BY <2>2, AttestationSources
    <3>2. SignsResult(t)
      BY <3>1, AttestationIsSigned
    <3>3. t \in Attestation
      BY NextSafety DEF SafetyInv, TypeOK, SubmitterTypeOK
    <3> QED
      BY <3>2, <3>3, AttestationStays
  <2> QED
    BY <2>1, <2>2
<1> QED
  BY <1>1, <1>4, <1>5, <1>6, <1>7 DEF SignedInv

(***************************************************************************)
(* Attested marks                                                          *)
(***************************************************************************)
\* The attest monitor's goroutines work on ids the chain has attested, and decide
\* on "SelfAttested" by a status that only an accepted attestation leads to.
LEMMA AttestTask ==
  ASSUME SafetyInv, AttestedInv, [Next]_vars, NEW c \in Challenges
  PROVE  /\ amTask'[c] # "idle" => c \in attested
         /\ amTask'[c] = "SelfAttested" => SubmittedBySelf(c)
<1> USE DEF AttestedInv
<1>1. CASE AttestMonitorStep
  <2>1. CASE QueryLatestAttestedChallengeIds
    BY <2>1 DEF QueryLatestAttestedChallengeIds
  <2>2. CASE \E d \in Challenges : ReadEvent(d)
    BY <2>2
    DEF ReadEvent, AttestStatusOf, SafetyInv, TypeOK, AttestMonitorTypeOK
  <2>3. CASE \E d \in Challenges : UpdateAttested(d)
    BY <2>3 DEF UpdateAttested, SafetyInv, TypeOK, AttestMonitorTypeOK
  <2> QED
    BY <1>1, <2>1, <2>2, <2>3 DEF AttestMonitorStep, AttestMonitorNext
<1>2. CASE Crash
  BY <1>2 DEF Crash, AttestMonitorRestart
<1>3. CASE ~AttestMonitorStep /\ ~Crash
  <2>1. amTask' = amTask
    BY <1>3
    DEF Next, vars, ExecutorStep, MonitorStep, VerifierStep, BroadcasterStep, CollectorStep,
        CollatorStep, SubmitterStep, Environment, ChainMoves, PeersVote, Attest,
        ForgetAttested, volatileVars, attestMonitorVars
  <2> QED
    BY <2>1
<1> QED
  BY <1>1, <1>2, <1>3

\* An attested mark, and the mark of a submission, are true when written and stay so.
LEMMA AttestedStep ==
  ASSUME SafetyInv, AttestedInv, [Next]_vars
  PROVE  AttestedInv'
<1> USE DEF AttestedInv
<1>1. attested \subseteq attested' /\ \A c : SubmittedBySelf(c) => SubmittedBySelf(c)'
  BY Grows DEF SubmittedBySelf
<1>2. latestAttested' \subseteq attested'
  BY <1>1
  DEF Next, vars, ExecutorStep, MonitorStep, VerifierStep, BroadcasterStep, CollectorStep,
      CollatorStep, SubmitterStep, AttestMonitorStep, AttestMonitorNext, Crash, Environment,
      ChainMoves, PeersVote, Attest, ForgetAttested, chainVars
<1>3. ASSUME NEW c \in Challenges
      PROVE  /\ status'[c] \in Attests => c \in attested'
             /\ status'[c] \in {"Submitted", "SelfAttested"} => SubmittedBySelf(c)'
  <2>1. CASE status'[c] = status[c]
    BY <1>1, <2>1
  <2>2. CASE status'[c] # status[c] /\ status'[c] \in Attests
    BY <1>1, <2>2, StatusWriters DEF Attests
  <2>3. CASE status'[c] # status[c] /\ status'[c] = "Submitted"
    <3>1. subLoop = "mark" /\ \E e \in subEvent : e.id = c
      BY <2>3, StatusWriters DEF Attests
    <3>2. SubmittedBySelf(c)
      BY <3>1 DEF SubmittedBySelf
    <3> QED
      BY <1>1, <2>3, <3>2 DEF Attests
  <2> QED
    BY <2>1, <2>2, <2>3 DEF Attests
<1>4. \A c \in Challenges : /\ amTask'[c] # "idle" => c \in attested'
                            /\ amTask'[c] = "SelfAttested" => SubmittedBySelf(c)'
  BY <1>1, AttestTask
<1>5. /\ \A t \in subTx' : \E e \in subEvent' : t.id = e.id
      /\ \A e \in subEvent' : \E t \in subTx' : t.id = e.id
  <2>1. \A e, hash : AttestationOf(e, hash).id = e.id
    BY DEF AttestationOf
  <2> QED
    BY <2>1, AttestationSources
<1>6. subLoop' = "mark" => subTx' \subseteq txs'
  BY AttestationSources, Grows
<1> QED
  BY <1>2, <1>3, <1>4, <1>5, <1>6

(***************************************************************************)
(* Duplicates                                                              *)
(***************************************************************************)
\* preCheck finds a row of a lower id, and rows are never deleted: the predecessor
\* is still there when the duplicate is marked.
LEMMA DuplicateStep ==
  ASSUME SafetyInv, DuplicateInv, [Next]_vars
  PROVE  DuplicateInv'
<1> USE DEF DuplicateInv
<1>1. \A c \in Challenges : HasPredecessor(c) => HasPredecessor(c)'
  BY Grows DEF HasPredecessor
<1>2. \A c \in Challenges : status'[c] = "Duplicated" => "Duplicated" \in {status[c], verTask[c]}
  BY StatusWriters DEF Attests
<1>3. ASSUME NEW c \in Challenges, IsDuplicated(c) PROVE HasPredecessor(c)
  BY <1>3, TablesAssumption
  DEF IsDuplicated, IsEventExistsBetween, HasPredecessor
<1>4. ASSUME NEW c \in Challenges, verTask'[c] = "Duplicated" PROVE HasPredecessor(c)
  <2>1. CASE VerifierStep
    <3>1. verTask \in [Challenges -> VerStage]
      BY DEF SafetyInv, TypeOK, VerifierTypeOK
    <3>2. ASSUME NEW d \in Challenges, StartVerification(d) PROVE HasPredecessor(c)
      BY <1>3, <1>4, <3>1, <3>2 DEF StartVerification, preCheck, Goto, Return
    <3>3. ASSUME NEW d \in Challenges, QueryChain(d) \/ QueryStorageProvider(d) \/ SaveResult(d)
          PROVE  verTask[c] = "Duplicated"
      BY <1>4, <3>1, <3>3
      DEF QueryChain, GetStorageProviderEndpoint, GetObjectInfoChecksums, QueryStorageProvider,
          SaveResult, UpdateVerified, RetryOr, Goto, Return
    <3>4. CASE VerifyHashLoop \/ UpdateDeduplicationIntervalLoop
      BY <1>4, <3>1, <3>4
      DEF VerifyHashLoop, FetchEventsForVerification, NextEvent, SkipCachedEvent,
          SpawnVerification, CheckErr, WaitForGoroutines, UpdateDeduplicationIntervalLoop
    <3> QED
      BY <2>1, <3>2, <3>3, <3>4 DEF VerifierStep, VerifierNext, VerifyForSingleEvent
  <2>2. CASE Crash
    BY <1>4, <2>2 DEF Crash, VerifierRestart
  <2>3. CASE ~VerifierStep /\ ~Crash
    <3>1. verTask' = verTask
      BY <2>3
      DEF Next, vars, ExecutorStep, MonitorStep, BroadcasterStep, CollectorStep, CollatorStep,
          SubmitterStep, AttestMonitorStep, Environment, ChainMoves, PeersVote, Attest,
          ForgetAttested, volatileVars, verifierVars
    <3> QED
      BY <1>4, <3>1
  <2> QED
    BY <2>1, <2>2, <2>3
<1> QED
  BY <1>1, <1>2, <1>4

(***************************************************************************)
(* The invariant                                                           *)
(***************************************************************************)
\* No evidence is needed at the start: nothing is marked, cached or submitted.
LEMMA InitEvidence == Init => EvidenceInv
  BY DEF Init, TablesInit, VerifierInit, CollectorInit, CollatorInit, SubmitterInit,
         AttestMonitorInit, EvidenceInv, GenuineInv, SignedInv, AttestedInv, DuplicateInv, Attests

\* Every reachable state has its evidence.
THEOREM Evidence == Spec => []EvidenceInv
<1>1. EvidenceInv /\ SafetyInv /\ [Next]_vars => EvidenceInv'
  BY GenuineStep, SignedStep, AttestedStep, DuplicateStep DEF EvidenceInv
<1> QED
  BY <1>1, InitEvidence, Safety, PTL DEF Spec

\* Every saved vote is genuine and from a validator or this challenger
\* (collectVotes, constructVoteAndSign).
THEOREM VotesAreGenuine == Spec => []SavedVotesAreGenuine
<1>1. SafetyInv /\ EvidenceInv => SavedVotesAreGenuine
  BY DEF SafetyInv, VotesInv, EvidenceInv, GenuineInv, SavedVotesAreGenuine
<1> QED
  BY <1>1, Safety, Evidence, PTL

\* Every attestation signs the final result of its row, with saved genuine votes,
\* ours among them, although the event hash comes from a cache
\* (getSignatureAndBitSet).
THEOREM ResultsAreAttested == Spec => []AttestationsSignResult
<1>1. EvidenceInv => AttestationsSignResult
  BY DEF EvidenceInv, SignedInv, AttestationsSignResult
<1> QED
  BY <1>1, Evidence, PTL

\* An event is marked as attested only when it is, and as self attested only when
\* this challenger has submitted it (updateEventStatus of the attest monitor).
THEOREM MarksAreTruthful == Spec => []AttestedIsTruthful
<1>1. EvidenceInv => AttestedIsTruthful
  BY DEF EvidenceInv, AttestedInv, AttestedIsTruthful, SubmittedBySelf
<1> QED
  BY <1>1, Evidence, PTL

\* A set of numbers that is not empty has a least element.
LEMMA LeastNumber ==
  ASSUME NEW T \in SUBSET Nat, T # {}
  PROVE  \E x \in T : \A y \in T : ~(y < x)
<1> DEFINE R == OpToRel(<, Nat)
<1>1. PICK x \in T : \A y \in T : ~(<<y, x>> \in R)
  <2>1. IsWellFoundedOn(R, Nat)
    BY NatLessThanWellFounded
  <2> HIDE DEF R
  <2> QED
    BY <2>1, WFMin
<1>2. \A y \in T : y < x => <<y, x>> \in R
  BY DEF OpToRel
<1> QED
  BY <1>1, <1>2

\* Behind every challenge that is dismissed as a duplicate there is an earlier one of
\* its object that is not dismissed: the least one has no predecessor (preCheck).
THEOREM DuplicatesHaveOriginals == Spec => []DuplicateHasOriginal
<1>1. ASSUME DuplicateInv PROVE DuplicateHasOriginal
  <2> SUFFICES ASSUME NEW c \in Challenges, status[c] = "Duplicated"
               PROVE  \E d \in Challenges : /\ d < c /\ ObjectOf[d] = ObjectOf[c]
                                            /\ status[d] \notin {"NoRow", "Duplicated"}
    BY DEF DuplicateHasOriginal
  <2> DEFINE T == {d \in Challenges : d < c /\ HasRow(d) /\ ObjectOf[d] = ObjectOf[c]}
  <2>1. T \in SUBSET Nat /\ T # {}
    BY <1>1, TablesAssumption DEF DuplicateInv, HasPredecessor
  <2>2. PICK d \in T : \A e \in T : ~(e < d)
    BY <2>1, LeastNumber
  <2>3. status[d] # "Duplicated"
    <3> SUFFICES ASSUME HasPredecessor(d) PROVE FALSE
      BY <1>1 DEF DuplicateInv
    <3>1. PICK e \in Challenges : e < d /\ HasRow(e) /\ ObjectOf[e] = ObjectOf[d]
      BY DEF HasPredecessor
    <3>2. e \in T
      BY <3>1, TablesAssumption
    <3> QED
      BY <2>2, <3>1, <3>2
  <2> QED
    BY <2>3 DEF HasRow
<1> QED
  BY <1>1, Evidence, PTL DEF EvidenceInv
=============================================================================
