------------------------------ MODULE Collector ------------------------------
(***************************************************************************)
(* The VoteCollector (vote/vote_collector.go): it reads the whole vote     *)
(* pool and saves the votes that validators have signed.                   *)
(***************************************************************************)
EXTENDS VoteUtil

VARIABLES
  colVotes,        \* votes of the answer that are still to be looked at
  colValidators,   \* the validators this answer is checked against
  colSaving        \* the vote that passed the checks, about to be saved

collectorVars == <<colVotes, colValidators, colSaving>>

QueryVotes ==
  /\ colVotes = {} /\ colSaving = {} /\ pool # {}
  /\ colVotes' = pool
  /\ colValidators' = QueryCachedLatestValidators
  /\ UNCHANGED <<votes, colSaving>>

\* The checks of collectVotes, in any order of the votes of an answer.
AcceptVote(v) ==
  /\ isVotePubKeyValid(v, colValidators)
  /\ verifySignature(v)

SkipVote(v) ==
  /\ \/ IsVoteExists(v.eventHash, v.pubKey)
     \/ ~AcceptVote(v)
     \/ "fail" \in DbFaults
  /\ UNCHANGED colSaving

CheckVote(v) ==
  /\ colSaving = {}
  /\ \/ SkipVote(v)
     \/ ~IsVoteExists(v.eventHash, v.pubKey) /\ AcceptVote(v) /\ colSaving' = {v}
  /\ colVotes' = colVotes \ {v}
  /\ UNCHANGED <<votes, colValidators>>

\* A write that fails, or that the unique index rejects, ends the whole pass.
SaveCheckedVote(v) ==
  /\ \/ \E o \in Outcomes :
          /\ ~IsVoteExists(v.eventHash, v.pubKey)
          /\ SaveVote(v, o)
          /\ colVotes' = IF o = "ok" THEN colVotes ELSE {}
     \/ /\ IsVoteExists(v.eventHash, v.pubKey)
        /\ colVotes' = {}
        /\ UNCHANGED votes
  /\ colSaving' = {}
  /\ UNCHANGED colValidators

CollectorNext ==
  /\ \/ QueryVotes
     \/ \E v \in colVotes : CheckVote(v)
     \/ \E v \in colSaving : SaveCheckedVote(v)
  /\ UNCHANGED <<blocks, status, verifyResult, executorVars, pool>>

CollectorInit == colVotes = {} /\ colValidators = {} /\ colSaving = {}

CollectorRestart == colVotes' = {} /\ colValidators' = {} /\ colSaving' = {}

CollectorTypeOK ==
  /\ colVotes \subseteq Vote
  /\ colSaving \subseteq Vote
  /\ colValidators \in ValidatorSets \cup {{}}
=============================================================================
