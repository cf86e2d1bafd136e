------------------------------- MODULE Tables -------------------------------
(***************************************************************************)
(* The challenger's MySQL tables (db/model) and the DAO methods its        *)
(* goroutines share (db/dao).  Every DAO method is one SQL statement or    *)
(* one transaction, hence one atomic step.  The columns of an event that   *)
(* never change after the insert are functions of its challenge id.        *)
(***************************************************************************)
EXTENDS Naturals, FiniteSets

CONSTANTS
  Challenges,      \* challenge ids, a set of positive numbers
  EventHeight,     \* EventHeight[c]: height of the block that starts c
  ExpiredHeight,   \* ExpiredHeight[c]: last height at which c may be attested
  ObjectOf,        \* ObjectOf[c]: the (object id, storage provider) challenged
  HasChallenger,   \* HasChallenger[c]: the challenger address is not empty
  PubKeys,         \* BLS public keys that can appear on a vote
  DbFaults         \* how a database write may go wrong, see Outcomes

VARIABLES
  blocks,          \* table blocks: the saved heights
  status,          \* table events: column status, "NoRow" before the insert
  verifyResult,    \* table events: column verify_result
  votes            \* table votes

tableVars == <<blocks, status, verifyResult, votes>>

ASSUME TablesAssumption ==
  /\ Challenges \subseteq Nat \ {0}
  /\ EventHeight \in [Challenges -> Nat \ {0}]
  /\ ExpiredHeight \in [Challenges -> Nat]
  /\ HasChallenger \in [Challenges -> BOOLEAN]
  /\ DbFaults \subseteq {"fail", "lost"}

EventStatus ==
  {"Unprocessed", "Verified", "SelfVoted", "EnoughVotesCollected", "Submitted",
   "SelfAttested", "Attested", "Duplicated", "DuplicatedSlash",
   "VerificationFailed"}

Results == {"HashMatched", "HashMismatched"}
VerifyResult == {"Unknown"} \cup Results

\* An event hash stands for the challenge and the result it was computed from.
EventHashes == Challenges \X VerifyResult

\* signer is the key that really made the signature.
Vote == [pubKey : PubKeys, eventHash : EventHashes, signer : PubKeys]

\* A row of events as a goroutine holds it after a SELECT.
EventRow == [id : Challenges, verifyResult : VerifyResult]

Row(c) == [id |-> c, verifyResult |-> verifyResult[c]]
HasRow(c) == status[c] # "NoRow"

(***************************************************************************)
(* What a write can come back with: "ok"; "fail", an error and nothing     *)
(* stored; "lost", an error although the statement was committed.          *)
(***************************************************************************)
Outcomes == {"ok"} \cup DbFaults
Committed(o) == o # "fail"

\* Mutation of SaveBlockAndEvents: the block is stored outside the transaction.
SaveEventsButNotInTransaction(h, events, o) ==
  /\ blocks' = blocks \cup {h}
  /\ status' = [c \in Challenges |->
                  IF Committed(o) /\ c \in events THEN "Unprocessed" ELSE status[c]]

SaveBlockAndEvents(h, events, o) ==
  /\ blocks' = IF Committed(o) THEN blocks \cup {h} ELSE blocks
  /\ status' = [c \in Challenges |->
                  IF Committed(o) /\ c \in events THEN "Unprocessed" ELSE status[c]]

\* Mutation of GetUnexpiredEventsByStatus: without the clause on the status.
GetUnexpiredEventsOfAnyStatus(h, s) ==
  {Row(c) : c \in {d \in Challenges : ExpiredHeight[d] > h /\ HasRow(d)}}

GetUnexpiredEventsByStatus(h, s) ==
  {Row(c) : c \in {d \in Challenges : ExpiredHeight[d] > h /\ status[d] = s}}

\* ORDER BY challenge_id: the row the range loop takes next.
InOrder(e, rows) == e \in rows /\ \A f \in rows : e.id <= f.id

UpdateEventStatusByChallengeId(c, s, o) ==
  status' = IF Committed(o) /\ HasRow(c) THEN [status EXCEPT ![c] = s]
            ELSE status

UpdateEventStatusVerifyResultByChallengeId(c, s, r, o) ==
  /\ UpdateEventStatusByChallengeId(c, s, o)
  /\ verifyResult' = IF Committed(o) /\ HasRow(c)
                     THEN [verifyResult EXCEPT ![c] = r] ELSE verifyResult

IsEventExistsBetween(object, low, high) ==
  \E c \in Challenges : /\ HasRow(c) /\ ObjectOf[c] = object
                        /\ low <= c /\ c <= high

\* Mutation of GetVotesByEventHash: the votes for the challenge, whatever its result.
GetVotesByChallenge(hash) == {v \in votes : v.eventHash[1] = hash[1]}

GetVotesByEventHash(hash) == {v \in votes : v.eventHash = hash}

IsVoteExists(hash, key) == \E v \in votes : v.eventHash = hash /\ v.pubKey = key

SaveVote(v, o) == votes' = IF Committed(o) THEN votes \cup {v} ELSE votes

SaveVoteAndUpdateEventStatus(v, c, o) ==
  /\ SaveVote(v, o)
  /\ UpdateEventStatusByChallengeId(c, "SelfVoted", o)

(***************************************************************************)
(* hashicorp/golang-lru, as a set: when the cache is full some entry is    *)
(* evicted (which one is abstracted).                                      *)
(***************************************************************************)
LruAdd(cache, c, size) ==
  IF c \in cache \/ Cardinality(cache) < size THEN {cache \cup {c}}
  ELSE {(cache \ {d}) \cup {c} : d \in cache}

TablesInit ==
  /\ blocks = {}
  /\ status = [c \in Challenges |-> "NoRow"]
  /\ verifyResult = [c \in Challenges |-> "Unknown"]
  /\ votes = {}

TablesTypeOK ==
  /\ blocks \subseteq Nat
  /\ status \in [Challenges -> EventStatus \cup {"NoRow"}]
  /\ verifyResult \in [Challenges -> VerifyResult]
  /\ votes \subseteq Vote
=============================================================================
