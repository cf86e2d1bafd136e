---------------------------- MODULE AttestMonitor ----------------------------
(***************************************************************************)
(* The AttestMonitor (attest/attest_monitor.go): it asks the chain for the *)
(* latest attested challenges and, for each one it has not seen, spawns a  *)
(* goroutine that reads the event's row and then updates its status.       *)
(***************************************************************************)
EXTENDS Executor

CONSTANT MaxQueryCount

VARIABLES
  attested,              \* external: challenges that the chain has attested
  latestAttested,        \* external: those the chain's query still returns
  attestedChallengeIds,  \* ids seen
  queryCount,            \* stops counting one above MaxQueryCount
  amTask                 \* amTask[c]: stage of the goroutine of c

attestMonitorVars == <<attestedChallengeIds, queryCount, amTask>>

ASSUME AttestMonitorAssumption == MaxQueryCount \in Nat

Attests == {"Attested", "SelfAttested"}

\* Mutation of QueryLatestAttestedChallengeIds: the known ids are kept for good.
RememberAllIds ==
  /\ \A c \in Challenges : amTask[c] = "idle"
  /\ amTask' = [c \in Challenges |->
                  IF c \in latestAttested \ attestedChallengeIds THEN "read"
                  ELSE "idle"]
  /\ attestedChallengeIds' = attestedChallengeIds \cup latestAttested
  /\ UNCHANGED <<status, queryCount>>

\* The ids become known before their goroutines have run.  queryCount is never
\* reset: above the maximum every query forgets all ids.
QueryLatestAttestedChallengeIds ==
  /\ \A c \in Challenges : amTask[c] = "idle"
  /\ amTask' = [c \in Challenges |->
                  IF c \in latestAttested \ attestedChallengeIds THEN "read"
                  ELSE "idle"]
  /\ queryCount' = IF queryCount > MaxQueryCount THEN queryCount ELSE queryCount + 1
  /\ attestedChallengeIds' = IF queryCount' > MaxQueryCount THEN {}
                             ELSE attestedChallengeIds \cup latestAttested
  /\ UNCHANGED status

\* Mutation of AttestStatusOf: whatever the status read.
AlwaysSelfAttested(c) == "SelfAttested"

AttestStatusOf(c) == IF status[c] = "Submitted" THEN "SelfAttested" ELSE "Attested"

\* GetEventByChallengeId and the decision; a missing row or an error is final.
ReadEvent(c) ==
  /\ amTask[c] = "read"
  /\ \/ /\ HasRow(c) /\ status[c] \notin Attests
        /\ amTask' = [amTask EXCEPT ![c] = AttestStatusOf(c)]
     \/ /\ ~HasRow(c) \/ status[c] \in Attests \/ "fail" \in DbFaults
        /\ amTask' = [amTask EXCEPT ![c] = "idle"]
  /\ UNCHANGED <<status, attestedChallengeIds, queryCount>>

UpdateAttested(c) ==
  /\ amTask[c] \in Attests
  /\ \E o \in Outcomes : UpdateEventStatusByChallengeId(c, amTask[c], o)
  /\ amTask' = [amTask EXCEPT ![c] = "idle"]
  /\ UNCHANGED <<attestedChallengeIds, queryCount>>

AttestMonitorNext ==
  /\ \/ QueryLatestAttestedChallengeIds
     \/ \E c \in Challenges : ReadEvent(c) \/ UpdateAttested(c)
  /\ UNCHANGED <<blocks, verifyResult, votes, executorVars, attested, latestAttested>>

AttestMonitorInit ==
  /\ attestedChallengeIds = {}
  /\ queryCount = 0
  /\ amTask = [c \in Challenges |-> "idle"]

AttestMonitorRestart ==
  /\ attestedChallengeIds' = {}
  /\ queryCount' = 0
  /\ amTask' = [c \in Challenges |-> "idle"]

AttestMonitorTypeOK ==
  /\ attested \subseteq Challenges
  /\ latestAttested \subseteq Challenges
  /\ attestedChallengeIds \subseteq Challenges
  /\ queryCount \in 0 .. MaxQueryCount + 1
  /\ amTask \in [Challenges -> {"idle", "read"} \cup Attests]
=============================================================================
