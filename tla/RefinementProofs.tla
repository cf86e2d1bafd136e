-------------------------- MODULE RefinementProofs --------------------------
(***************************************************************************)
(* Challenger implements Contract under the mapping of Promise: a step of  *)
(* the process is one step of the contract or leaves its variables alone.  *)
(***************************************************************************)
EXTENDS EvidenceProofs

\* The theorems of ContractProofs under the mapping of Promise.
PromiseProofs == INSTANCE ContractProofs WITH
  result <- verifyResult, saved <- OwnHashes(votes), sent <- OwnHashes(pool),
  submitted <- {<<t.id, t.result>> : t \in txs}, Before <- OwnHashes(PoolAtStart)

\* The initial states map to initial states: only votes of before are in the pool.
LEMMA InitContract == Init => Promise!Init
  BY DEF Init, TablesInit, Promise!Init, OwnHashes

\* A step that changes no variable of the contract.
LEMMA ContractStutters ==
  ASSUME UNCHANGED <<verifyResult, txs>>, OwnHashes(votes)' = OwnHashes(votes),
         OwnHashes(pool)' = OwnHashes(pool)
  PROVE  UNCHANGED Promise!contractVars
  BY DEF Promise!contractVars

\* A goroutine of the verifier finds the one result of a challenge.
LEMMA VerifierContract ==
  ASSUME SafetyInv, VerifierStep
  PROVE  [Promise!Next]_(Promise!contractVars)
<1>1. UNCHANGED <<votes, pool, txs>>
  BY DEF VerifierStep, VerifierNext, chainVars
<1>2. CASE verifyResult' = verifyResult
  BY <1>1, <1>2, ContractStutters DEF OwnHashes
<1>3. CASE verifyResult' # verifyResult
  <2>1. PICK c \in Challenges, o \in Outcomes : UpdateVerified(c, o)
    BY <1>3
    DEF VerifierStep, VerifierNext, VerifyHashLoop, VerifyForSingleEvent, StartVerification,
        QueryChain, QueryStorageProvider, SaveResult, UpdateDeduplicationIntervalLoop
  <2>2. verTask[c] \in Results /\ verifyResult' = [verifyResult EXCEPT ![c] = verTask[c]]
    BY <1>3, <2>1 DEF UpdateVerified, UpdateEventStatusVerifyResultByChallengeId
  <2>3. verifyResult[c] = "Unknown"
    BY <2>2 DEF SafetyInv, VerifierInv, Spawned, Results
  <2>4. Promise!Verify(c, verTask[c])
    BY <1>1, <2>2, <2>3 DEF Promise!Verify, OwnHashes
  <2> QED
    BY <2>2, <2>4 DEF Promise!Next
<1> QED
  BY <1>2, <1>3

\* The broadcaster saves our vote for the row's result, and sends what is saved.
LEMMA BroadcasterContract ==
  ASSUME SafetyInv, EvidenceInv, BroadcasterStep
  PROVE  [Promise!Next]_(Promise!contractVars)
<1>1. UNCHANGED <<verifyResult, txs>>
  BY DEF BroadcasterStep, BroadcasterNext, FetchEventsForSelfVote, VoteForEvent,
         BroadcastForSingleEvent, tableVars
<1>2. CASE UNCHANGED <<votes, pool>>
  BY <1>1, <1>2, ContractStutters DEF OwnHashes
<1>3. ASSUME NEW e \in bcEvents, votes' = votes \cup {OwnVote(e)}, pool' = pool
      PROVE  [Promise!Next]_(Promise!contractVars)
  <2>1. e.id \in Challenges /\ e.verifyResult = verifyResult[e.id] /\ e.verifyResult \in Results
    BY HeldRows
  <2>2. OwnVote(e).signer = Self /\ OwnVote(e).eventHash = <<e.id, verifyResult[e.id]>>
    BY <2>1 DEF OwnVote, SignVote, CalculateEventHash
  <2>3. OwnHashes(votes)' = OwnHashes(votes) \cup {<<e.id, verifyResult[e.id]>>}
    BY <1>3, <2>2 DEF OwnHashes
  <2>4. Promise!SaveOwn(e.id)
    BY <1>1, <1>3, <2>1, <2>3 DEF Promise!SaveOwn, Promise!VoteFor, OwnHashes
  <2> QED
    BY <2>1, <2>4 DEF Promise!Next
<1>4. ASSUME NEW v \in bcSending, pool' = pool \cup {v}, votes' = votes
      PROVE  [Promise!Next]_(Promise!contractVars)
  <2>1. CASE v.signer # Self \/ v \in PoolAtStart
    <3>1. OwnHashes(pool)' = OwnHashes(pool)
      BY <1>4, <2>1 DEF OwnHashes, EvidenceInv, SignedInv
    <3> QED
      BY <1>1, <1>4, <3>1, ContractStutters DEF OwnHashes
  <2>2. CASE v.signer = Self /\ v \notin PoolAtStart
    <3>1. v \in OwnVotes(pool \cup bcSending \cup cachedLocalVote) /\ v \in Vote
      BY <2>2 DEF OwnVotes, SafetyInv, TypeOK, BroadcasterTypeOK
    <3>2. v \in votes
      BY <3>1 DEF SafetyInv, VotesInv
    <3>3. /\ v.eventHash[2] = verifyResult[v.eventHash[1]] /\ v.eventHash[1] \in Challenges
          /\ v.eventHash[2] \in Results
      BY <3>1 DEF SafetyInv, VotesInv, NoEquivocation, OwnVotes, ChallengeOf, Vote, EventHashes
    <3>4. PICK c \in Challenges : v.eventHash = <<c, verifyResult[c]>> /\ verifyResult[c] \in Results
      BY <3>1, <3>3 DEF Vote, EventHashes
    <3>5. /\ OwnHashes(pool)' = OwnHashes(pool) \cup {<<c, verifyResult[c]>>}
          /\ <<c, verifyResult[c]>> \in OwnHashes(votes)
      BY <1>4, <2>2, <3>2, <3>4 DEF OwnHashes
    <3>6. Promise!Send(c)
      BY <1>1, <1>4, <3>4, <3>5 DEF Promise!Send, Promise!VoteFor, OwnHashes
    <3> QED
      BY <3>6 DEF Promise!Next
  <2> QED
    BY <2>1, <2>2
<1> QED
  BY <1>2, <1>3, <1>4
  DEF BroadcasterStep, BroadcasterNext, FetchEventsForSelfVote, VoteForEvent, UseCachedVote,
      ConstructVoteAndSign, SaveVoteAndUpdateEventStatus, SaveVote, BroadcastForSingleEvent,
      BroadcastVote, tableVars

\* A vote of our key that the collector saves is saved already, or one of before.
LEMMA CollectorContract ==
  ASSUME SafetyInv, CollectorStep
  PROVE  [Promise!Next]_(Promise!contractVars)
<1>1. UNCHANGED <<verifyResult, txs, pool>>
  BY DEF CollectorStep, CollectorNext
<1>2. CASE votes' = votes
  BY <1>1, <1>2, ContractStutters DEF OwnHashes
<1>3. ASSUME NEW v \in colSaving, votes' = votes \cup {v}
      PROVE  [Promise!Next]_(Promise!contractVars)
  <2>1. v \in pool
    BY DEF SafetyInv, VotesInv
  <2>2. CASE v.signer = Self /\ v \in PoolAtStart
    <3>1. /\ v.eventHash \in OwnHashes(PoolAtStart)
          /\ OwnHashes(votes)' = OwnHashes(votes) \cup {v.eventHash}
      BY <1>3, <2>2 DEF OwnHashes
    <3>2. Promise!Adopt(v.eventHash)
      BY <1>1, <3>1 DEF Promise!Adopt, OwnHashes
    <3> QED
      BY <3>1, <3>2 DEF Promise!Next
  <2>3. CASE v.signer # Self \/ v \notin PoolAtStart
    <3>1. v.signer # Self \/ v \in votes
      BY <2>1, <2>3 DEF SafetyInv, VotesInv, OwnVotes
    <3>2. OwnHashes(votes)' = OwnHashes(votes)
      BY <1>3, <3>1 DEF OwnHashes
    <3> QED
      BY <1>1, <3>2, ContractStutters DEF OwnHashes
  <2> QED
    BY <2>2, <2>3
<1> QED
  BY <1>2, <1>3
  DEF CollectorStep, CollectorNext, QueryVotes, CheckVote, SaveCheckedVote, SaveVote

\* What the submitter sends is for a result whose vote of ours is saved.
LEMMA SubmitterContract ==
  ASSUME SafetyInv, EvidenceInv, SubmitterStep
  PROVE  [Promise!Next]_(Promise!contractVars)
<1>1. UNCHANGED <<verifyResult, votes, pool>>
  BY DEF SubmitterStep, SubmitterNext
<1>2. txs' = txs \/ txs' = txs \cup subTx
  BY DEF SubmitterStep, SubmitterNext, QueryAttestPeriodLoop, AttestPeriodEnds,
         FetchEventsForSubmit, LeaveEvents, SubmitForSingleEvent, GiveUp, AttestChallenge,
         AcceptAttestation, MarkSubmitted, MarkDuplicatedSlash
<1>3. CASE txs' = txs
  BY <1>1, <1>3, ContractStutters DEF OwnHashes
<1>4. ASSUME txs' = txs \cup subTx, NEW u \in subTx
      PROVE  [Promise!Next]_(Promise!contractVars)
  <2>1. PICK e \in subEvent : u.id = e.id
    BY DEF EvidenceInv, AttestedInv
  <2>2. \A t \in subTx : t.id = e.id /\ t.result = verifyResult[e.id]
    BY DEF EvidenceInv, AttestedInv, SignedInv, SignsResult, SafetyInv, RowsInv
  <2>3. e.id \in Challenges /\ verifyResult[e.id] \in Results
    BY HeldRows
  <2>4. {<<t.id, t.result>> : t \in txs}' =
          {<<t.id, t.result>> : t \in txs} \cup {<<e.id, verifyResult[e.id]>>}
    BY <1>4, <2>2
  <2>5. SignVote(Self, <<e.id, verifyResult[e.id]>>) \in votes
    BY <2>2 DEF EvidenceInv, SignedInv, SignsResult
  <2>6. <<e.id, verifyResult[e.id]>> \in OwnHashes(votes)
    BY <2>5 DEF OwnHashes, SignVote
  <2>7. Promise!Submit(e.id)
    BY <1>1, <2>3, <2>4, <2>6 DEF Promise!Submit, Promise!VoteFor, OwnHashes
  <2> QED
    BY <2>3, <2>7 DEF Promise!Next
<1> QED
  BY <1>2, <1>3, <1>4

\* The other steps leave results, votes and attestations alone; votes that peers
\* add to the pool are not signed with our key.
LEMMA OtherContract ==
  ASSUME \/ ExecutorStep \/ MonitorStep \/ CollatorStep \/ AttestMonitorStep \/ Crash
         \/ Environment \/ UNCHANGED vars
  PROVE  UNCHANGED Promise!contractVars
<1>1. UNCHANGED <<verifyResult, votes, txs>>
  BY DEF ExecutorStep, GetHeightLoop, CacheValidatorsLoop, UpdateHeartbeatIntervalLoop,
         MonitorStep, MonitorNext, Poll, BlockUnavailable, BlockRetrieved, CollatorStep,
         CollatorNext, FetchEventsForCollate, CollateForSingleEvent, UpdateEnoughVotesCollected,
         AttestMonitorStep, AttestMonitorNext, Crash, Environment, ChainMoves, NewBlock,
         ChangeValidators, ChangeHeartbeat, PeersVote, Attest, ForgetAttested, vars,
         tableVars, chainVars
<1>2. pool' = pool \/ \E b \in PeerBatches : pool' = pool \cup b
  BY DEF ExecutorStep, MonitorStep, CollatorStep, AttestMonitorStep, Crash, Environment,
         ChainMoves, PeersVote, Attest, ForgetAttested, vars, chainVars
<1>3. OwnHashes(pool)' = OwnHashes(pool)
  BY <1>2, ChallengerAssumption DEF OwnHashes
<1> QED
  BY <1>1, <1>3, ContractStutters DEF OwnHashes

\* With all its goroutines, faults and restarts the process keeps the contract.
THEOREM Contracted == Spec => KeepsContract
<1>1. SafetyInv /\ EvidenceInv /\ [Next]_vars => [Promise!Next]_(Promise!contractVars)
  BY VerifierContract, BroadcasterContract, CollectorContract, SubmitterContract, OtherContract
  DEF Next
<1> QED
  BY <1>1, InitContract, Safety, Evidence, PTL DEF Spec, KeepsContract, Promise!Spec

\* Hence the process is honest: whatever it has submitted it has voted for and saved, and its
\* votes and submissions are of the one result it found, before and after every crash.
THEOREM HonestChallenger == Spec => []Promise!Honest
<1>1. "Unknown" \notin Results
  BY DEF Results
<1>2. PromiseProofs!Spec => []PromiseProofs!Honest
  BY <1>1, PromiseProofs!ContractIsHonest
<1>3. Promise!Init => PromiseProofs!Init
  BY DEF Promise!Init, PromiseProofs!Init
<1>4. [Promise!Next]_(Promise!contractVars) => [PromiseProofs!Next]_(PromiseProofs!contractVars)
  BY DEF Promise!Next, PromiseProofs!Next, Promise!contractVars, PromiseProofs!contractVars,
         Promise!Verify, PromiseProofs!Verify, Promise!SaveOwn, PromiseProofs!SaveOwn,
         Promise!Send, PromiseProofs!Send, Promise!Submit, PromiseProofs!Submit,
         Promise!Adopt, PromiseProofs!Adopt, Promise!VoteFor, PromiseProofs!VoteFor
<1>5. PromiseProofs!Honest => Promise!Honest
  BY DEF Promise!Honest, PromiseProofs!Honest, Promise!VoteFor, PromiseProofs!VoteFor
<1> QED
  BY <1>2, <1>3, <1>4, <1>5, Contracted, PTL
  DEF KeepsContract, Promise!Spec, PromiseProofs!Spec
=============================================================================
