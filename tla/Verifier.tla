------------------------------ MODULE Verifier ------------------------------
(***************************************************************************)
(* The Verifier (verifier/hash_verifier.go): the loop that fetches the     *)
(* unprocessed events and spawns one goroutine per event, those goroutines *)
(* and the loop that refreshes the deduplication interval.  The variable   *)
(* err of verifyHash is captured by every goroutine it spawns and written  *)
(* without a lock; the loop reads it up to three times per event.          *)
(***************************************************************************)
EXTENDS Executor

CONSTANTS
  SlashCoolingOffPeriods, \* values of the chain parameter
  SpAnswers,              \* what a storage provider may do, subset of SpAnswer
  RtyAttemNum,            \* attempts of a retried remote call
  LimiterWeight,          \* weight of limiterSemaphore
  VerifierCacheSize       \* size of cachedChallengeIds

VARIABLES
  verLoop,                \* where verifyHash is, see VerLoop
  verEvents,              \* ids fetched that the range loop has not reached
  verCurrent,             \* the id the range loop is at, when verLoop is past "next"
  verErr,                 \* the shared variable err of verifyHash
  verTask,                \* verTask[c]: stage of the goroutine of c, see VerStage
  verTries,               \* verTries[c]: failed attempts of the call being retried
  cachedChallengeIds,     \* LRU cache
  deduplicationInterval,  \* Verifier.deduplicationInterval
  dedupLoopAlive          \* updateDeduplicationIntervalLoop has not returned

verifierVars == <<verLoop, verEvents, verCurrent, verErr, verTask, verTries,
                  cachedChallengeIds, deduplicationInterval, dedupLoopAlive>>

SpAnswer == {"match", "mismatch", "unreadable", "error"}

ASSUME VerifierAssumption ==
  /\ SlashCoolingOffPeriods \subseteq Nat
  /\ SpAnswers \subseteq SpAnswer
  /\ RtyAttemNum \in Nat \ {0}
  /\ LimiterWeight \in Nat \ {0}
  /\ VerifierCacheSize \in Nat \ {0}

VerLoop == {"fetch", "next", "spawned", "errSeen", "logErr"}
VerErr == {"nil", "expired", "other"}

\* A goroutine first goes through the calls and then holds a write to make.
CallStage == {"started", "endpoint", "checksums", "spResult"}
WriteStage == {"Duplicated", "VerificationFailed"} \cup Results
VerStage == {"idle"} \cup CallStage \cup WriteStage

Spawned == {c \in Challenges : verTask[c] # "idle"}

loopVars == <<verLoop, verEvents, verCurrent, cachedChallengeIds>>
dedupVars == <<deduplicationInterval, dedupLoopAlive>>

(***************************************************************************)
(* verifyHash                                                              *)
(***************************************************************************)
FetchEventsForVerification ==
  /\ verLoop = "fetch"
  /\ \E h \in Heights :
       /\ GetCachedBlockHeight(h)
       /\ verEvents' = {e.id : e \in GetUnexpiredEventsByStatus(h, "Unprocessed")}
  /\ verLoop' = IF verEvents' = {} THEN "fetch" ELSE "next"
  /\ UNCHANGED <<verErr, verCurrent, verTask, verTries, cachedChallengeIds>>

SkipCachedEvent(c) ==
  /\ c \in cachedChallengeIds
  /\ UNCHANGED <<verLoop, verCurrent, verErr, verTask>>

\* Acquire assigns nil to err before the goroutine starts.
SpawnVerification(c) ==
  /\ c \notin cachedChallengeIds
  /\ Cardinality(Spawned) < LimiterWeight
  /\ verErr' = "nil"
  /\ verTask' = [verTask EXCEPT ![c] = "started"]
  /\ verCurrent' = c
  /\ verLoop' = "spawned"

NextEvent(c) ==
  /\ verLoop = "next" /\ c \in verEvents /\ \A d \in verEvents : c <= d
  /\ SkipCachedEvent(c) \/ SpawnVerification(c)
  /\ verEvents' = verEvents \ {c}
  /\ UNCHANGED <<verTries, cachedChallengeIds, height>>

CacheChallenge ==
  /\ cachedChallengeIds' \in LruAdd(cachedChallengeIds, verCurrent,
                                    VerifierCacheSize)
  /\ verLoop' = "next" /\ verCurrent' = 0

\* if err != nil, and the two calls of err.Error() under it.
CheckErr ==
  /\ \/ verLoop = "spawned" /\ verErr = "nil" /\ CacheChallenge
     \/ /\ verLoop = "spawned" /\ verErr # "nil"
        /\ verLoop' = "errSeen"
        /\ UNCHANGED <<cachedChallengeIds, verCurrent>>
     \/ /\ verLoop = "errSeen" /\ verErr = "expired"
        /\ cachedChallengeIds' = cachedChallengeIds \ {verCurrent}
        /\ verLoop' = "next" /\ verCurrent' = 0
     \/ /\ verLoop = "errSeen" /\ verErr = "other"
        /\ verLoop' = "logErr"
        /\ UNCHANGED <<cachedChallengeIds, verCurrent>>
     \/ verLoop = "logErr" /\ verErr # "nil" /\ CacheChallenge
  /\ UNCHANGED <<verEvents, verErr, verTask, verTries, height>>

\* err.Error() on a nil error panics, which ends the process.
NilDereference == verLoop \in {"errSeen", "logErr"} /\ verErr = "nil"

\* Mutation of WaitForGoroutines: the batch ends without wg.Wait().
DoNotWaitForGoroutines ==
  /\ verLoop = "next" /\ verEvents = {}
  /\ verLoop' = "fetch" /\ verErr' = "nil"
  /\ UNCHANGED <<verEvents, verCurrent, verTask, verTries, cachedChallengeIds,
                 height>>

\* v.wg.Wait(); the next call of verifyHash has an err of its own.
WaitForGoroutines ==
  /\ verLoop = "next" /\ verEvents = {} /\ Spawned = {}
  /\ verLoop' = "fetch" /\ verErr' = "nil"
  /\ UNCHANGED <<verEvents, verCurrent, verTask, verTries, cachedChallengeIds,
                 height>>

(***************************************************************************)
(* verifyForSingleEvent                                                    *)
(***************************************************************************)
Goto(c, stage) ==
  /\ verTask' = [verTask EXCEPT ![c] = stage]
  /\ verTries' = [verTries EXCEPT ![c] = 0]
  /\ UNCHANGED verErr

\* The goroutine returns e, and the closure assigns it to err.
Return(c, e) ==
  /\ verTask' = [verTask EXCEPT ![c] = "idle"]
  /\ verTries' = [verTries EXCEPT ![c] = 0]
  /\ verErr' = e

MayBeDuplicated(c) ==
  ~HasChallenger[c] /\ ~IsHeartbeat(c) /\ c > deduplicationInterval

\* Mutation of IsDuplicated: the range includes the event itself.
DuplicatedUpToItself(c) ==
  /\ MayBeDuplicated(c)
  /\ IsEventExistsBetween(ObjectOf[c], c - deduplicationInterval, c)

IsDuplicated(c) ==
  /\ MayBeDuplicated(c)
  /\ IsEventExistsBetween(ObjectOf[c], c - deduplicationInterval, c - 1)

\* The query of the heartbeat interval or of the earlier events may fail.  Reading the
\* interval and querying the earlier events are one step: those are of the same or an
\* earlier block, hence saved since c was, and the answer is the same at any later time.
preCheck(c, h) ==
  IF ExpiredHeight[c] < h THEN Return(c, "expired")
  ELSE \/ Goto(c, IF IsDuplicated(c) THEN "Duplicated" ELSE "endpoint")
       \/ /\ HeartbeatUnavailable \/ (MayBeDuplicated(c) /\ "fail" \in DbFaults)
          /\ Return(c, "other")

StartVerification(c) ==
  /\ verTask[c] = "started"
  /\ \/ \E h \in Heights : GetCachedBlockHeight(h) /\ preCheck(c, h)
     \/ HeightUnavailable /\ Return(c, "other")
  /\ UNCHANGED <<status, verifyResult>>

\* Mutation of RetryOr: one attempt too many.
RetryOnceMoreOr(c, stage) ==
  IF verTries[c] + 1 <= RtyAttemNum
  THEN verTries' = [verTries EXCEPT ![c] = @ + 1] /\ UNCHANGED <<verTask, verErr>>
  ELSE Goto(c, stage)

\* One attempt of a retried call has failed.
RetryOr(c, stage) ==
  IF verTries[c] + 1 < RtyAttemNum
  THEN verTries' = [verTries EXCEPT ![c] = @ + 1] /\ UNCHANGED <<verTask, verErr>>
  ELSE Goto(c, stage)

GetStorageProviderEndpoint(c) ==
  /\ verTask[c] = "endpoint"
  /\ Goto(c, "checksums") \/ (RpcFaults /\ RetryOr(c, "VerificationFailed"))

GetObjectInfoChecksums(c) ==
  /\ verTask[c] = "checksums"
  /\ Goto(c, "spResult") \/ (RpcFaults /\ RetryOr(c, "VerificationFailed"))

QueryChain(c) ==
  /\ GetStorageProviderEndpoint(c) \/ GetObjectInfoChecksums(c)
  /\ UNCHANGED <<status, verifyResult, height>>

\* GetChallengeResultFromSp, ReadAll and the comparison of the root hashes.
QueryStorageProvider(c) ==
  /\ verTask[c] = "spResult"
  /\ \/ "match" \in SpAnswers /\ Goto(c, "HashMatched")
     \/ "mismatch" \in SpAnswers /\ Goto(c, "HashMismatched")
     \/ "unreadable" \in SpAnswers /\ Return(c, "other")
     \/ "error" \in SpAnswers /\ RetryOr(c, "HashMismatched")
  /\ UNCHANGED <<status, verifyResult, height>>

ErrOf(o) == IF o = "ok" THEN "nil" ELSE "other"

\* Mutation of UpdateVerified: a duplicate is returned but not marked.
UpdateAllButDuplicated(c, o) ==
  /\ IF verTask[c] \in Results
     THEN UpdateEventStatusVerifyResultByChallengeId(c, "Verified", verTask[c], o)
     ELSE verTask[c] = "Duplicated" /\ UNCHANGED <<status, verifyResult>>
  /\ Return(c, ErrOf(o))

\* The last statement of every path: the row is updated, whatever it holds now.
UpdateVerified(c, o) ==
  \/ /\ verTask[c] = "Duplicated"
     /\ UpdateEventStatusByChallengeId(c, "Duplicated", o)
     /\ Return(c, "other")
     /\ UNCHANGED verifyResult
  \/ /\ verTask[c] = "VerificationFailed"
     /\ UpdateEventStatusByChallengeId(c, "VerificationFailed", o)
     /\ Return(c, ErrOf(o))
     /\ UNCHANGED verifyResult
  \/ /\ verTask[c] \in Results
     /\ UpdateEventStatusVerifyResultByChallengeId(c, "Verified", verTask[c], o)
     /\ Return(c, ErrOf(o))

SaveResult(c) ==
  /\ \E o \in Outcomes : UpdateVerified(c, o)
  /\ UNCHANGED height

(***************************************************************************)
(* updateDeduplicationIntervalLoop: it returns for good on the first error *)
(***************************************************************************)
UpdateDeduplicationIntervalLoop ==
  /\ dedupLoopAlive
  /\ \/ /\ deduplicationInterval' \in SlashCoolingOffPeriods
        /\ UNCHANGED dedupLoopAlive
     \/ RpcFaults /\ dedupLoopAlive' = FALSE /\ UNCHANGED deduplicationInterval
  /\ UNCHANGED <<loopVars, verErr, verTask, verTries, status, verifyResult, height>>

VerifyHashLoop ==
  /\ \/ FetchEventsForVerification
     \/ \E c \in verEvents : NextEvent(c)
     \/ CheckErr
     \/ WaitForGoroutines
  /\ UNCHANGED <<dedupVars, status, verifyResult>>

VerifyForSingleEvent(c) ==
  /\ StartVerification(c) \/ QueryChain(c) \/ QueryStorageProvider(c) \/ SaveResult(c)
  /\ UNCHANGED <<loopVars, dedupVars>>

VerifierNext ==
  /\ \/ VerifyHashLoop
     \/ \E c \in Challenges : VerifyForSingleEvent(c)
     \/ UpdateDeduplicationIntervalLoop
  /\ UNCHANGED <<blocks, votes, allButHeight>>

\* NewHashVerifier: a failed parameter query leaves the interval 0.
FirstIntervals == SlashCoolingOffPeriods \cup (IF RpcFaults THEN {0} ELSE {})

VerifierInit ==
  /\ verLoop = "fetch" /\ verEvents = {} /\ verCurrent = 0 /\ verErr = "nil"
  /\ verTask = [c \in Challenges |-> "idle"]
  /\ verTries = [c \in Challenges |-> 0]
  /\ cachedChallengeIds = {}
  /\ deduplicationInterval \in FirstIntervals
  /\ dedupLoopAlive = TRUE

VerifierRestart ==
  /\ verLoop' = "fetch" /\ verEvents' = {} /\ verCurrent' = 0 /\ verErr' = "nil"
  /\ verTask' = [c \in Challenges |-> "idle"]
  /\ verTries' = [c \in Challenges |-> 0]
  /\ cachedChallengeIds' = {}
  /\ deduplicationInterval' \in FirstIntervals
  /\ dedupLoopAlive' = TRUE

VerifierTypeOK ==
  /\ verLoop \in VerLoop
  /\ verEvents \subseteq Challenges
  /\ verCurrent \in IF verLoop \in {"fetch", "next"} THEN {0} ELSE Challenges
  /\ verErr \in VerErr
  /\ verTask \in [Challenges -> VerStage]
  /\ verTries \in [Challenges -> 0 .. RtyAttemNum - 1]
  /\ cachedChallengeIds \subseteq Challenges
  /\ deduplicationInterval \in Nat
  /\ dedupLoopAlive \in BOOLEAN
=============================================================================
