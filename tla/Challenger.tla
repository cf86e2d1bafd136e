----------------------------- MODULE Challenger -----------------------------
(***************************************************************************)
(* One challenger process: the goroutines that App.Start runs (app/app.go) *)
(* over the shared tables and executor, a crash that leaves only the       *)
(* database, and the chain, its validators and their votes as environment. *)
(***************************************************************************)
EXTENDS Monitor, Verifier, Broadcaster, Collector, Collator, Submitter, AttestMonitor

CONSTANTS
  Running,        \* the goroutines that are scheduled, a subset of Goroutines
  Crashes,        \* TRUE: the process may stop at any step and be restarted
  PeerBatches,    \* sets of votes that reach the pool together
  OthersAttest,   \* TRUE: other challengers submit attestations too
  Forgetful       \* TRUE: the chain's query drops older attested challenges

chainVars == <<pool, txs, attested, latestAttested>>

volatileVars == <<height, validators, heartbeatInterval, monitorVars, verifierVars,
                  broadcasterVars, collectorVars, collatorVars, submitterVars,
                  attestMonitorVars>>

vars == <<tableVars, executorVars, chainVars, monitorVars, verifierVars,
          broadcasterVars, collectorVars, collatorVars, submitterVars,
          attestMonitorVars>>

Goroutines == {"heartbeat", "heights", "validators", "monitor", "verifier",
               "broadcaster", "collector", "collator", "submitter", "attestMonitor"}

ASSUME ChallengerAssumption ==
  /\ Running \subseteq Goroutines
  /\ {Crashes, OthersAttest, Forgetful} \subseteq BOOLEAN
  /\ PeerBatches \subseteq SUBSET {v \in Vote : v.signer # Self}

(***************************************************************************)
(* The goroutines                                                          *)
(***************************************************************************)
ExecutorStep ==
  /\ \/ "heights" \in Running /\ GetHeightLoop
     \/ "validators" \in Running /\ CacheValidatorsLoop
     \/ "heartbeat" \in Running /\ UpdateHeartbeatIntervalLoop
  /\ UNCHANGED <<chainVars, monitorVars, verifierVars, broadcasterVars,
                 collectorVars, collatorVars, submitterVars, attestMonitorVars>>

MonitorStep ==
  /\ "monitor" \in Running /\ MonitorNext
  /\ UNCHANGED <<chainVars, verifierVars, broadcasterVars, collectorVars,
                 collatorVars, submitterVars, attestMonitorVars>>

VerifierStep ==
  /\ "verifier" \in Running /\ VerifierNext
  /\ UNCHANGED <<chainVars, monitorVars, broadcasterVars, collectorVars,
                 collatorVars, submitterVars, attestMonitorVars>>

BroadcasterStep ==
  /\ "broadcaster" \in Running /\ BroadcasterNext
  /\ UNCHANGED <<txs, attested, latestAttested, monitorVars, verifierVars,
                 collectorVars, collatorVars, submitterVars, attestMonitorVars>>

CollectorStep ==
  /\ "collector" \in Running /\ CollectorNext
  /\ UNCHANGED <<txs, attested, latestAttested, monitorVars, verifierVars,
                 broadcasterVars, collatorVars, submitterVars, attestMonitorVars>>

CollatorStep ==
  /\ "collator" \in Running /\ CollatorNext
  /\ UNCHANGED <<chainVars, monitorVars, verifierVars, broadcasterVars,
                 collectorVars, submitterVars, attestMonitorVars>>

SubmitterStep ==
  /\ "submitter" \in Running /\ SubmitterNext
  /\ UNCHANGED <<pool, attested, latestAttested, monitorVars, verifierVars,
                 broadcasterVars, collectorVars, collatorVars, attestMonitorVars>>

AttestMonitorStep ==
  /\ "attestMonitor" \in Running /\ AttestMonitorNext
  /\ UNCHANGED <<pool, txs, monitorVars, verifierVars, broadcasterVars,
                 collectorVars, collatorVars, submitterVars>>

\* The process is killed, or panics on a nil error, and is started again: all
\* but the tables is built anew by NewApp.
Crash ==
  /\ Crashes \/ NilDereference
  /\ ExecutorRestart /\ MonitorRestart /\ VerifierRestart /\ BroadcasterRestart
  /\ CollectorRestart /\ CollatorRestart /\ SubmitterRestart /\ AttestMonitorRestart
  /\ UNCHANGED <<tableVars, chainState, chainVars>>

(***************************************************************************)
(* The chain, external                                                     *)
(***************************************************************************)
ChainMoves ==
  /\ NewBlock \/ ChangeValidators \/ ChangeHeartbeat
  /\ UNCHANGED <<chainVars, monitorVars, verifierVars, broadcasterVars,
                 collectorVars, collatorVars, submitterVars, attestMonitorVars>>

PeersVote ==
  /\ \E b \in PeerBatches : pool' = pool \cup b
  /\ UNCHANGED <<tableVars, chainState, txs, attested, latestAttested, volatileVars>>

MayBeAttested(c) == /\ c \notin attested /\ EventHeight[c] <= chainHeight
                    /\ chainHeight <= ExpiredHeight[c]

\* The chain's check of an attestation: the aggregate must verify against the
\* keys of the bitset, and these must be more than two thirds.
ValidAttestation(t) ==
  /\ t.signers = t.bits /\ t.bits \subseteq chainValidators
  /\ 3 * Cardinality(t.bits) > 2 * Cardinality(chainValidators)

Attest(c) ==
  /\ MayBeAttested(c)
  /\ OthersAttest \/ \E t \in txs : t.id = c /\ ValidAttestation(t)
  /\ attested' = attested \cup {c} /\ latestAttested' = latestAttested \cup {c}
  /\ UNCHANGED <<tableVars, chainState, pool, txs, volatileVars>>

ForgetAttested(c) ==
  /\ Forgetful /\ c \in latestAttested
  /\ latestAttested' = latestAttested \ {c}
  /\ UNCHANGED <<tableVars, chainState, pool, txs, attested, volatileVars>>

Environment ==
  \/ ChainMoves
  \/ PeersVote
  \/ \E c \in Challenges : Attest(c) \/ ForgetAttested(c)

Next ==
  \/ ExecutorStep
  \/ MonitorStep
  \/ VerifierStep
  \/ BroadcasterStep
  \/ CollectorStep
  \/ CollatorStep
  \/ SubmitterStep
  \/ AttestMonitorStep
  \/ Crash
  \/ Environment

Init ==
  /\ TablesInit /\ ExecutorInit /\ MonitorInit /\ VerifierInit /\ BroadcasterInit
  /\ CollectorInit /\ CollatorInit /\ SubmitterInit /\ AttestMonitorInit
  /\ pool = PoolAtStart /\ txs = {}
  /\ attested = {} /\ latestAttested = {}

Spec == Init /\ [][Next]_vars

TypeOK ==
  /\ TablesTypeOK /\ ExecutorTypeOK /\ MonitorTypeOK /\ VerifierTypeOK
  /\ pool \subseteq Vote
  /\ BroadcasterTypeOK /\ CollectorTypeOK /\ CollatorTypeOK
  /\ SubmitterTypeOK /\ AttestMonitorTypeOK

(***************************************************************************)
(* Safety                                                                  *)
(***************************************************************************)
\* The votes among vs that this process has signed.
OwnVotes(vs) == {v \in vs : v.signer = Self} \ PoolAtStart

\* The event hashes that votes of vs with our signature are for.
OwnHashes(vs) == {v.eventHash : v \in {w \in vs : w.signer = Self}}

Promise == INSTANCE Contract WITH
  result <- verifyResult, saved <- OwnHashes(votes), sent <- OwnHashes(pool),
  submitted <- {<<t.id, t.result>> : t \in txs}, Before <- OwnHashes(PoolAtStart)

\* With all its goroutines, faults and restarts the process keeps the contract: one
\* result per challenge, a vote for it saved and only then sent, and no attestation
\* of anything else.
KeepsContract == Promise!Spec

\* A verify result is written once: no later verification, whether after a
\* restart, a lost answer of the database or an evicted cache entry, changes the
\* result that votes and attestations are built on (compareHashAndUpdate).
ResultIsFinal ==
  [][\A c \in Challenges :
       verifyResult[c] # "Unknown" => verifyResult'[c] = verifyResult[c]]_vars

\* This challenger never signs two results for one challenge: every vote of its
\* own, saved, cached or sent, is for the verify result of the row.
NoEquivocation ==
  \A v \in OwnVotes(votes \cup pool \cup bcSending \cup cachedLocalVote) :
    v.eventHash[2] = verifyResult[ChallengeOf(v)] /\ v.eventHash[2] \in Results

\* A vote is sent only after it is saved (constructVoteAndSign), whatever the
\* transaction's outcome and wherever the process stops.
SavedBeforeBroadcast == OwnVotes(pool) \subseteq votes

\* The goroutines that hold a row of c, fetched or being worked on.
VerifierHolds(c) == c \in verEvents \cup Spawned
BroadcasterHolds(c) == \E e \in bcEvents : e.id = c
CollatorHolds(c) == \E e \in clEvents \cup clEnough : e.id = c
SubmitterHolds(c) == \E e \in subEvents \cup subEvent : e.id = c

\* The status column hands an event from one goroutine to the next: although
\* each works on a batch it has fetched earlier and writes without looking at the
\* row again, no two of them ever hold the same event.
OneStageAtATime ==
  \A c \in Challenges :
    /\ VerifierHolds(c) => ~BroadcasterHolds(c) /\ ~CollatorHolds(c) /\ ~SubmitterHolds(c)
    /\ BroadcasterHolds(c) => ~CollatorHolds(c) /\ ~SubmitterHolds(c)
    /\ CollatorHolds(c) => ~SubmitterHolds(c)

Rank == [s \in EventStatus \cup {"NoRow"} |->
  CASE s = "NoRow" -> 0
    [] s = "Unprocessed" -> 1
    [] s \in {"Verified", "Duplicated", "VerificationFailed"} -> 2
    [] s = "SelfVoted" -> 3
    [] s = "EnoughVotesCollected" -> 4
    [] s = "Submitted" -> 5
    [] s = "DuplicatedSlash" -> 6
    [] s \in Attests -> 7]

\* Status only advances; the one exception is a goroutine that had fetched the
\* row before the attest monitor marked it and then writes its own status over it.
StatusAdvances ==
  [][\A c \in Challenges :
       \/ status'[c] = status[c]
       \/ Rank[status[c]] < Rank[status'[c]]
       \/ status[c] \in Attests]_vars

\* CalculateEventHash never meets a row without result (it would panic): the rows
\* held by the broadcaster, the collator and the submitter all have one.
RowsAreHashable ==
  \A e \in bcEvents \cup clEvents \cup clEnough \cup subEvents \cup subEvent :
    Hashable(e) /\ e.verifyResult = verifyResult[e.id]

\* The validators whose genuine vote for the row's result is saved.
Voters(c) ==
  {k \in chainValidators : \E v \in votes :
     v.pubKey = k /\ v.signer = k /\ v.eventHash = <<c, verifyResult[c]>>}

TwoThirdsVoted(c) == 3 * Cardinality(Voters(c)) > 2 * Cardinality(chainValidators)

\* An event with enough votes has been voted for by more than two thirds of the
\* validators ("voted for more than 2/3 validators", db/model/event.go).
EnoughIsTwoThirds ==
  \A c \in Challenges :
    status[c] \in {"EnoughVotesCollected", "Submitted", "DuplicatedSlash"} => TwoThirdsVoted(c)

\* What the submitter sends passes the chain's check: the aggregate is of exactly
\* the keys in the bitset, and of more than two thirds of the validators.
AttestationsPassCheck == \A t \in txs : ValidAttestation(t)

SignsResult(t) ==
  /\ t.hash = <<t.id, t.result>> /\ t.result = verifyResult[t.id]
  /\ t.result \in Results /\ Self \in t.signers
  /\ \A k \in t.signers : SignVote(k, t.hash) \in votes

\* An attestation is for the result of the row, the aggregated signature signs
\* that same result although the event hash comes from a cache, every signature
\* in it is a saved, genuine vote, and ours is one of them.
AttestationsSignResult == \A t \in txs : SignsResult(t)

\* Every saved vote is genuine, and from a validator or this challenger itself:
\* a forged vote in the pool never takes the place of the validator's own vote.
SavedVotesAreGenuine ==
  \A v \in votes : /\ v.signer = v.pubKey
                   /\ v.pubKey \in {Self} \cup UNION ValidatorSets

\* An event marked as attested is attested on the chain, and one marked as self
\* attested was submitted by this challenger, although the attest monitor decides
\* on a row it read before other goroutines changed it.
AttestedIsTruthful ==
  \A c \in Challenges :
    /\ status[c] \in Attests => c \in attested
    /\ status[c] = "SelfAttested" => \E t \in txs : t.id = c

HasPredecessor(c) == \E d \in Challenges : d < c /\ HasRow(d) /\ ObjectOf[d] = ObjectOf[c]

\* However many challenges of an object are dismissed as duplicates, each because of
\* one before it that may itself be dismissed later, and while the interval changes:
\* behind every one of them there is an earlier one that is not dismissed (preCheck).
DuplicateHasOriginal ==
  \A c \in Challenges : status[c] = "Duplicated" =>
    \E d \in Challenges : /\ d < c /\ ObjectOf[d] = ObjectOf[c]
                          /\ status[d] \notin {"NoRow", "Duplicated"}

\* An event is dismissed because another of its object "has been processed recently"
\* (comment of preCheck): that event is no longer just stored.
DuplicateOfProcessed ==
  \A c \in Challenges : status[c] = "Duplicated" =>
    \E d \in Challenges : /\ d < c /\ ObjectOf[d] = ObjectOf[c]
                          /\ status[d] \notin {"NoRow", "Unprocessed"}

\* The collator's count is of validators: an event it finds to have enough votes
\* has those of more than two thirds of the validators it counted against
\* ("voted for more than 2/3 validators", db/model/event.go).
CollatedByTwoThirds ==
  [][\A e \in clEnough' \ clEnough :
       LET vals == QueryCachedLatestValidators IN
         3 * Cardinality(ValidatorBitSet(FetchVotesForCollate(e), vals))
           > 2 * Cardinality(vals)]_vars

\* The error the loop of verifyHash has found to be non-nil is still non-nil when
\* it calls err.Error() (hash_verifier.go, "if err != nil").
NoNilDereference == ~NilDereference

(***************************************************************************)
(* The inductive invariant behind the safety properties.  A goroutine      *)
(* writes to rows it fetched earlier, so what must be invariant is the     *)
(* status such a row can have meanwhile: the one it was selected by, or    *)
(* the attest monitor's, which no goroutine selects.                       *)
(***************************************************************************)
MonitorInv ==
  /\ nextHeight # 0 => blocks = {} \/ LatestBlock(nextHeight - 1)
  /\ NoGap /\ NoMissedEvent

VerifierInv ==
  /\ verLoop = "fetch" => verEvents = {} /\ Spawned = {}
  /\ verEvents \cap Spawned = {}
  /\ \A c \in verEvents \cup Spawned : /\ verifyResult[c] = "Unknown"
                                       /\ status[c] \in {"Unprocessed"} \cup Attests

ResultInv ==
  \A c \in Challenges :
    /\ status[c] \in {"NoRow", "Unprocessed"} => verifyResult[c] = "Unknown"
    /\ status[c] \in {"Verified", "SelfVoted", "EnoughVotesCollected", "Submitted",
                      "DuplicatedSlash"} => verifyResult[c] \in Results

RowsInv ==
  /\ RowsAreHashable
  /\ \A e \in bcEvents : status[e.id] \in {"Verified"} \cup Attests
  /\ \A e \in clEvents \cup clEnough : status[e.id] \in {"SelfVoted"} \cup Attests
  /\ \A e \in subEvents \cup subEvent :
       status[e.id] \in {"EnoughVotesCollected", "Submitted"} \cup Attests
  /\ clEvents \cap clEnough = {} /\ \A e, f \in clEnough : e = f
  /\ subEvents \cap subEvent = {} /\ \A e, f \in subEvent : e = f
  /\ subLoop \in {"wait", "fetch", "events"} => subEvent = {}

VotesInv ==
  /\ \A v \in votes \cup colSaving : v.signer = v.pubKey
  /\ colVotes \cup colSaving \subseteq pool
  /\ OwnVotes(pool \cup bcSending \cup cachedLocalVote) \subseteq votes
  /\ NoEquivocation

\* The types and the five parts above, checked here before they are proved.
SafetyInv ==
  /\ TypeOK /\ MonitorInv /\ VerifierInv /\ ResultInv /\ RowsInv /\ VotesInv
  /\ OneStageAtATime

(***************************************************************************)
(* What SafetyInv lacks for the properties of votes and attestations: the  *)
(* evidence behind a status, a cached hash or an attestation is in a table *)
(* or on the chain, where nothing is ever taken back.                      *)
(***************************************************************************)
OwnVoteSaved(c) == SignVote(Self, <<c, verifyResult[c]>>) \in votes

GenuineInv == \A v \in votes \cup colSaving : v.pubKey \in {Self} \cup UNION ValidatorSets

SignedInv ==
  /\ PoolAtStart \subseteq pool
  /\ \A c \in Challenges :
       status[c] \in {"SelfVoted", "EnoughVotesCollected", "Submitted", "DuplicatedSlash"} =>
         OwnVoteSaved(c)
  /\ \A e \in clEvents \cup clEnough \cup subEvents \cup subEvent : OwnVoteSaved(e.id)
  /\ \A x \in cachedEventHash : x[2] = verifyResult[x[1]] /\ x[2] \in Results
  /\ \A t \in subTx \cup txs : SignsResult(t)

SubmittedBySelf(c) == \E t \in txs : t.id = c

AttestedInv ==
  /\ latestAttested \subseteq attested
  /\ \A c \in Challenges :
       /\ status[c] \in Attests \/ amTask[c] # "idle" => c \in attested
       /\ status[c] \in {"Submitted", "SelfAttested"} \/ amTask[c] = "SelfAttested" =>
            SubmittedBySelf(c)
  /\ \A t \in subTx : \E e \in subEvent : t.id = e.id
  /\ \A e \in subEvent : \E t \in subTx : t.id = e.id
  /\ subLoop = "mark" => subTx \subseteq txs

DuplicateInv ==
  \A c \in Challenges : "Duplicated" \in {status[c], verTask[c]} => HasPredecessor(c)

\* The four parts above; inductive together with SafetyInv.
EvidenceInv == GenuineInv /\ SignedInv /\ AttestedInv /\ DuplicateInv

\* The chain's validators never change and this challenger is one of them.
FixedValidators == \E V \in ValidatorSets : ValidatorSets = {V} /\ Self \in V

\* With fixed validators the votes the collator has counted stay enough, for the
\* rows on their way to the submitter and for what it has built from them; also
\* inductive together with SafetyInv and EvidenceInv.
QuorumInv ==
  /\ EnoughIsTwoThirds
  /\ \A e \in clEnough \cup subEvents \cup subEvent : TwoThirdsVoted(e.id)
  /\ \A t \in subTx \cup txs : ValidAttestation(t)

(***************************************************************************)
(* Liveness.  Every goroutine is scheduled by the Go runtime and sleeps    *)
(* for bounded times, so each of them is weakly fair; a panicking process  *)
(* is restarted.  Strong fairness is assumed of the chain only: among all  *)
(* our turns some are long enough for a submission (the clock may end any  *)
(* turn early), and a node does not reject every attempt.                  *)
(***************************************************************************)
Fairness ==
  /\ WF_vars(ExecutorStep /\ GetHeightLoop)
  /\ WF_vars(ExecutorStep /\ CacheValidatorsLoop)
  /\ WF_vars(ExecutorStep /\ UpdateHeartbeatIntervalLoop)
  /\ WF_vars(MonitorStep)
  /\ WF_vars(VerifierStep /\ VerifyHashLoop)
  /\ \A c \in Challenges : WF_vars(VerifierStep /\ VerifyForSingleEvent(c))
  /\ WF_vars(BroadcasterStep)
  /\ WF_vars(CollectorStep)
  /\ WF_vars(CollatorStep)
  /\ WF_vars(SubmitterStep)
  /\ SF_vars(SubmitterStep /\ ~periodOver /\ FetchEventsForSubmit)
  /\ SF_vars(SubmitterStep /\ \E e \in subEvents : SubmitForSingleEvent(e))
  /\ SF_vars(SubmitterStep /\ AttestChallenge /\ subLoop' = "mark")
  /\ WF_vars(AttestMonitorStep)
  /\ WF_vars(NilDereference /\ Crash)

FairSpec == Spec /\ Fairness

\* Remote calls and database writes that are tried again and again do not fail, or
\* meet a crash, every time.
Recovery ==
  /\ SF_vars(MonitorStep /\ Poll /\ blocks' # blocks)
  /\ \A c \in Challenges :
       /\ SF_vars(AttestMonitorStep /\ ReadEvent(c) /\ amTask'[c] # "idle")
       /\ SF_vars(AttestMonitorStep /\ UpdateAttested(c) /\ status' # status)

RecoverySpec == FairSpec /\ Recovery

Expired(c) == chainHeight >= ExpiredHeight[c]

\* The monitor catches up: from the first saved block on, every block of the chain is
\* saved in the end, although polls fail and the process is restarted, up to the first
\* block that cannot be parsed; there the monitor stays for good.
EveryBlockIsSaved ==
  \A h \in Heights :
    (h <= chainHeight /\ \E b \in blocks : b <= h /\ \A g \in b .. h : ~ParseFails(g))
      ~> (h \in blocks)

\* An event that the chain keeps reporting as attested ends up marked for good,
\* although other goroutines write over the mark, updates fail and ids become known
\* before they are marked (UpdateAttestedChallengeIdLoop).  One that the chain drops
\* before a failed read or update is repeated may never be marked.
AttestedIsMarked ==
  \A c \in Challenges :
    <>[](c \in latestAttested /\ HasRow(c)) => <>[](status[c] \in Attests)

\* Every saved event is eventually verified, dismissed or expired, although the
\* shared err may skip the cache or panic the process and writes that are stored
\* may be reported as failed.
EveryEventIsProcessed ==
  \A c \in Challenges :
    (status[c] = "Unprocessed") ~> (status[c] # "Unprocessed" \/ Expired(c))

\* A vote that is saved reaches the pool, unless its event expires.
SavedVoteIsBroadcast ==
  \A c \in Challenges :
    (\E v \in OwnVotes(votes) : ChallengeOf(v) = c)
      ~> ((\E v \in pool : v.pubKey = Self /\ ChallengeOf(v) = c) \/ Expired(c))

\* A matching heartbeat challenge is voted for although the interval is cached for
\* hours and governance changes it: an event that is a heartbeat by the chain's
\* interval does not stay verified for good (FetchEventsForSelfVote).
HeartbeatIsVoted ==
  \A c \in Challenges :
    ~<>[](/\ status[c] = "Verified" /\ verifyResult[c] = "HashMatched"
          /\ c % chainHeartbeat = 0 /\ ~Expired(c))

\* A verified mismatch that enough validators vote for is eventually submitted.
MismatchIsSubmitted ==
  \A c \in Challenges :
    (verifyResult[c] = "HashMismatched" /\ UNION PeerBatches \subseteq pool)
      ~> (status[c] \in {"Submitted"} \cup Attests \/ Expired(c))

\* Once our vote is saved the event moves on to collation: a second attempt to
\* save it is a "[non-blocking error]" (vote_broadcaster.go).
SavedVoteIsCollated ==
  \A c \in Challenges :
    (status[c] = "Verified" /\ verifyResult[c] = "HashMismatched")
      ~> (status[c] # "Verified" \/ Expired(c))
=============================================================================
