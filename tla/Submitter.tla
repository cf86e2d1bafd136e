------------------------------ MODULE Submitter ------------------------------
(***************************************************************************)
(* The TxSubmitter (submitter/tx_submitter.go): when it is this            *)
(* challenger's turn it aggregates the votes of each event with enough of  *)
(* them and sends the attestation until the node accepts it, its turn ends *)
(* or it has failed too often.                                             *)
(***************************************************************************)
EXTENDS VoteUtil

CONSTANTS
  TxFaults,            \* answers of AttestChallenge besides "accepted": a
                       \* subset of {"rejected", "lost", "duplicatedSlash"}
  MaxSubmitAttempts,   \* common.MaxSubmitAttempts
  EventHashCacheSize   \* size of cachedEventHash

VARIABLES
  txs,                 \* external: attestations of ours that a node accepted
  subLoop,             \* where the loop is, see SubLoop
  periodOver,          \* the clock has passed attestPeriodEnd
  subEvents,           \* rows fetched that the range loop has not reached
  subEvent,            \* the row being submitted
  subTx,               \* the attestation built for it
  submittedAttempts,
  cachedEventHash      \* LRU cache of event hashes, keyed by the challenge id

submitterVars == <<subLoop, periodOver, subEvents, subEvent, subTx,
                   submittedAttempts, cachedEventHash>>

ASSUME SubmitterAssumption ==
  /\ TxFaults \subseteq {"rejected", "lost", "duplicatedSlash"}
  /\ MaxSubmitAttempts \in Nat
  /\ EventHashCacheSize \in Nat \ {0}

SubLoop == {"wait", "fetch", "events", "submit", "mark", "slash"}

\* hash is what the aggregated signature signs; result is the vote result sent.
Attestation == [id : Challenges, result : VerifyResult, hash : EventHashes,
                signers : SUBSET PubKeys, bits : SUBSET PubKeys]

batchVars == <<subEvent, subTx, submittedAttempts, cachedEventHash>>

\* Mutation of QueryAttestPeriodLoop: the end of the period is never refreshed.
QueryAttestPeriodOnce ==
  /\ subLoop = "wait" /\ subLoop' = "fetch"
  /\ UNCHANGED <<periodOver, subEvents, batchVars, txs, status, height>>

\* queryAttestPeriodLoop returns: the chain says that it is our turn.
QueryAttestPeriodLoop ==
  /\ subLoop = "wait" /\ subLoop' = "fetch"
  /\ periodOver' = FALSE
  /\ UNCHANGED <<subEvents, batchVars, txs, status, height>>

\* The clock passes the end of the period.
AttestPeriodEnds ==
  /\ ~periodOver /\ subLoop # "wait"
  /\ periodOver' = TRUE
  /\ UNCHANGED <<subLoop, subEvents, batchVars, txs, status, height>>

FetchEventsForSubmit ==
  /\ subLoop = "fetch"
  /\ \/ \E h \in Heights :
          /\ GetCachedBlockHeight(h)
          /\ \/ subEvents' = GetUnexpiredEventsByStatus(h, "EnoughVotesCollected")
             \/ "fail" \in DbFaults /\ subEvents' = {}
     \/ HeightUnavailable /\ subEvents' = {}
  /\ subLoop' = IF subEvents' = {} THEN "wait" ELSE "events"
  /\ UNCHANGED <<periodOver, batchVars, txs, status>>

\* The range loop is done, or the turn has ended.
LeaveEvents ==
  /\ subLoop = "events" /\ (subEvents = {} \/ periodOver)
  /\ subLoop' = "wait" /\ subEvents' = {}
  /\ UNCHANGED <<periodOver, batchVars, txs, status, height>>

HashesOf(c) == {x \in cachedEventHash : x[1] = c}

GetEventHash(e, hash) ==
  \/ /\ hash \in HashesOf(e.id)
     /\ UNCHANGED cachedEventHash
  \/ /\ HashesOf(e.id) = {}
     /\ hash = CalculateEventHash(e)
     /\ cachedEventHash' \in LruAdd(cachedEventHash, hash, EventHashCacheSize)

AttestationOf(e, hash) ==
  LET vs == GetVotesByEventHash(hash) IN
    [id |-> e.id, result |-> e.verifyResult, hash |-> hash,
     signers |-> AggregatedKeys(vs),
     bits |-> ValidatorBitSet(vs, QueryCachedLatestValidators)]

GetSignatureAndBitSet(e) ==
  \/ \E hash \in HashesOf(e.id) \cup {CalculateEventHash(e)} :
       /\ GetEventHash(e, hash)
       /\ subTx' = {AttestationOf(e, hash)}
       /\ subEvent' = {e} /\ submittedAttempts' = 0 /\ subLoop' = "submit"
  \/ /\ ValidatorsUnavailable \/ "fail" \in DbFaults
     /\ \E hash \in HashesOf(e.id) \cup {CalculateEventHash(e)} : GetEventHash(e, hash)
     /\ UNCHANGED <<subTx, subEvent, submittedAttempts, subLoop>>

\* submitForSingleEvent up to submitTransactionLoop.
SubmitForSingleEvent(e) ==
  /\ subLoop = "events" /\ ~periodOver /\ InOrder(e, subEvents)
  /\ \/ \E h \in Heights :
          /\ GetCachedBlockHeight(h)
          /\ IF ExpiredHeight[e.id] < h THEN UNCHANGED <<subLoop, batchVars>>
             ELSE GetSignatureAndBitSet(e)
     \/ HeightUnavailable /\ UNCHANGED <<subLoop, batchVars>>
  /\ subEvents' = subEvents \ {e}
  /\ UNCHANGED <<periodOver, txs, status>>

\* submitTransactionLoop returns, with or without an error.
ReturnToEvents ==
  /\ subLoop' = "events" /\ subEvent' = {} /\ subTx' = {} /\ submittedAttempts' = 0

GiveUp ==
  /\ subLoop = "submit"
  /\ periodOver \/ submittedAttempts > MaxSubmitAttempts
  /\ ReturnToEvents
  /\ UNCHANGED <<periodOver, subEvents, cachedEventHash, txs, status, height>>

MaySubmit ==
  subLoop = "submit" /\ ~periodOver /\ submittedAttempts <= MaxSubmitAttempts

\* The executor's AttestChallenge: true; false or an error; the error of a
\* duplicated slash; or an error although the node has accepted the attestation.
AttestAnswers == {"accepted"} \cup TxFaults
AcceptAttestation(answer) ==
  txs' = IF answer \in {"accepted", "lost"} THEN txs \cup subTx ELSE txs

\* Mutation of AttestChallenge: the answer is not looked at.
MarkWhateverTheAnswer ==
  /\ MaySubmit
  /\ \E answer \in AttestAnswers : AcceptAttestation(answer)
  /\ subLoop' = "mark"
  /\ UNCHANGED <<periodOver, subEvents, subEvent, subTx, submittedAttempts,
                 cachedEventHash, status, height>>

\* One attempt.
AttestChallenge ==
  /\ MaySubmit
  /\ \E answer \in AttestAnswers :
       /\ AcceptAttestation(answer)
       /\ CASE answer = "accepted" ->
                 subLoop' = "mark" /\ UNCHANGED submittedAttempts
            [] answer = "duplicatedSlash" ->
                 subLoop' = "slash" /\ UNCHANGED submittedAttempts
            [] OTHER ->
                 submittedAttempts' = submittedAttempts + 1 /\ UNCHANGED subLoop
  /\ UNCHANGED <<periodOver, subEvents, subEvent, subTx, cachedEventHash, status, height>>

\* A failed update is answered by submitting the attestation again.
MarkSubmitted(e) ==
  /\ subLoop = "mark"
  /\ \E o \in Outcomes :
       /\ UpdateEventStatusByChallengeId(e.id, "Submitted", o)
       /\ \/ o = "ok" /\ ReturnToEvents
          \/ o # "ok" /\ subLoop' = "submit" /\ UNCHANGED <<subEvent, subTx, submittedAttempts>>
  /\ UNCHANGED <<periodOver, subEvents, cachedEventHash, txs, height>>

\* Mutation of MarkDuplicatedSlash: the wrong status.
CollateAgain(e) ==
  /\ subLoop = "slash"
  /\ \E o \in Outcomes : UpdateEventStatusByChallengeId(e.id, "SelfVoted", o)
  /\ ReturnToEvents
  /\ UNCHANGED <<periodOver, subEvents, cachedEventHash, txs, height>>

MarkDuplicatedSlash(e) ==
  /\ subLoop = "slash"
  /\ \E o \in Outcomes : UpdateEventStatusByChallengeId(e.id, "DuplicatedSlash", o)
  /\ ReturnToEvents
  /\ UNCHANGED <<periodOver, subEvents, cachedEventHash, txs, height>>

SubmitterNext ==
  /\ \/ QueryAttestPeriodLoop
     \/ AttestPeriodEnds
     \/ FetchEventsForSubmit
     \/ LeaveEvents
     \/ \E e \in subEvents : SubmitForSingleEvent(e)
     \/ GiveUp
     \/ AttestChallenge
     \/ \E e \in subEvent : MarkSubmitted(e) \/ MarkDuplicatedSlash(e)
  /\ UNCHANGED <<blocks, verifyResult, votes, allButHeight>>

SubmitterInit ==
  /\ subLoop = "wait" /\ periodOver = FALSE
  /\ subEvents = {} /\ subEvent = {} /\ subTx = {} /\ submittedAttempts = 0
  /\ cachedEventHash = {}

SubmitterRestart ==
  /\ subLoop' = "wait" /\ periodOver' = FALSE
  /\ subEvents' = {} /\ subEvent' = {} /\ subTx' = {} /\ submittedAttempts' = 0
  /\ cachedEventHash' = {}

SubmitterTypeOK ==
  /\ txs \subseteq Attestation
  /\ subLoop \in SubLoop
  /\ periodOver \in BOOLEAN
  /\ subEvents \subseteq EventRow
  /\ subEvent \subseteq EventRow
  /\ subTx \subseteq Attestation
  /\ submittedAttempts \in 0 .. MaxSubmitAttempts + 1
  /\ cachedEventHash \subseteq EventHashes
=============================================================================
