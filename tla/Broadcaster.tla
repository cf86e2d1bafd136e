----------------------------- MODULE Broadcaster -----------------------------
(***************************************************************************)
(* The VoteBroadcaster (vote/vote_broadcaster.go): for each verified event *)
(* it signs a vote, saves it together with the new status, and sends it to *)
(* the vote pool.  Values that may be absent are sets of at most one       *)
(* element.                                                                *)
(***************************************************************************)
EXTENDS VoteUtil

CONSTANTS
  Self,              \* the BLS key of this challenger
  LocalVoteCacheSize \* size of cachedLocalVote

VARIABLES
  bcEvents,          \* rows fetched that the range loop has not reached
  bcSending,         \* the vote in the hands of broadcastForSingleEvent
  cachedLocalVote    \* LRU cache of votes, keyed by the challenge id

broadcasterVars == <<bcEvents, bcSending, cachedLocalVote>>

ASSUME BroadcasterAssumption ==
  /\ Self \in PubKeys
  /\ LocalVoteCacheSize \in Nat \ {0}

ChallengeOf(v) == v.eventHash[1]

\* A BLS signature of our key on our events is made by this process only.
OwnVote(e) == SignVote(Self, CalculateEventHash(e))

\* Matched hashes are voted for only when the event is a heartbeat.
ToBeVoted(e) == e.verifyResult = "HashMismatched" \/ IsHeartbeat(e.id)

FetchEventsForSelfVote ==
  /\ bcEvents = {} /\ bcSending = {}
  /\ \E h \in Heights :
       /\ GetCachedBlockHeight(h)
       /\ bcEvents' = {e \in GetUnexpiredEventsByStatus(h, "Verified") : ToBeVoted(e)}
  /\ UNCHANGED <<tableVars, pool, bcSending, cachedLocalVote>>

UseCachedVote(e) ==
  /\ bcSending' = {v \in cachedLocalVote : ChallengeOf(v) = e.id}
  /\ bcSending' # {}
  /\ UNCHANGED <<status, votes, cachedLocalVote>>

\* Mutation of CacheAndSend: the vote is not handed on.
CacheWithoutSending(v) ==
  /\ cachedLocalVote' \in LruAdd(cachedLocalVote, v, LocalVoteCacheSize)
  /\ bcSending' = {}

CacheAndSend(v) ==
  /\ cachedLocalVote' \in LruAdd(cachedLocalVote, v, LocalVoteCacheSize)
  /\ bcSending' = {v}

\* constructVoteAndSign.  The unique index of votes rejects a second vote of
\* ours: the transaction is rolled back and the error counts as success.
ConstructVoteAndSign(e) ==
  /\ \A v \in cachedLocalVote : ChallengeOf(v) # e.id
  /\ \/ /\ IsVoteExists(CalculateEventHash(e), Self)
        /\ CacheAndSend(OwnVote(e))
        /\ UNCHANGED <<status, votes>>
     \/ \E o \in Outcomes :
          /\ o = "fail" \/ ~IsVoteExists(CalculateEventHash(e), Self)
          /\ SaveVoteAndUpdateEventStatus(OwnVote(e), e.id, o)
          /\ IF o = "ok" THEN CacheAndSend(OwnVote(e))
             ELSE bcSending' = {} /\ UNCHANGED cachedLocalVote

\* Mutation of VoteForEvent: the error of constructVoteAndSign is ignored.
SendEvenIfNotSaved(e) ==
  /\ bcSending = {} /\ InOrder(e, bcEvents)
  /\ \/ UseCachedVote(e)
     \/ /\ \A v \in cachedLocalVote : ChallengeOf(v) # e.id
        /\ \E o \in Outcomes : SaveVoteAndUpdateEventStatus(OwnVote(e), e.id, o)
        /\ CacheAndSend(OwnVote(e))
  /\ bcEvents' = bcEvents \ {e}
  /\ UNCHANGED <<blocks, verifyResult, pool, height>>

VoteForEvent(e) ==
  /\ bcSending = {} /\ InOrder(e, bcEvents)
  /\ UseCachedVote(e) \/ ConstructVoteAndSign(e)
  /\ bcEvents' = bcEvents \ {e}
  /\ UNCHANGED <<blocks, verifyResult, pool, height>>

\* A vote whose broadcast fails is not sent again: its event has left the
\* status that FetchEventsForSelfVote selects.
BroadcastForSingleEvent(v) ==
  /\ \/ \E h \in Heights :
          /\ GetCachedBlockHeight(h)
          /\ \/ /\ h > ExpiredHeight[ChallengeOf(v)]
                /\ cachedLocalVote' = {w \in cachedLocalVote :
                                         ChallengeOf(w) # ChallengeOf(v)}
                /\ UNCHANGED pool
             \/ /\ h <= ExpiredHeight[ChallengeOf(v)]
                /\ BroadcastVote(v)
                /\ UNCHANGED cachedLocalVote
     \/ HeightUnavailable /\ UNCHANGED <<pool, cachedLocalVote>>
  /\ bcSending' = {}
  /\ UNCHANGED <<tableVars, bcEvents>>

BroadcasterNext ==
  /\ \/ FetchEventsForSelfVote
     \/ \E e \in bcEvents : VoteForEvent(e)
     \/ \E v \in bcSending : BroadcastForSingleEvent(v)
  /\ UNCHANGED allButHeight

BroadcasterInit == bcEvents = {} /\ bcSending = {} /\ cachedLocalVote = {}

BroadcasterRestart == bcEvents' = {} /\ bcSending' = {} /\ cachedLocalVote' = {}

BroadcasterTypeOK ==
  /\ bcEvents \subseteq EventRow
  /\ bcSending \subseteq Vote
  /\ cachedLocalVote \subseteq Vote
=============================================================================
