------------------------------ MODULE VoteUtil ------------------------------
(***************************************************************************)
(* The pure helpers that the vote goroutines and the submitter share       *)
(* (vote/util.go, vote/vote_signer.go).  BLS is abstracted: a vote records *)
(* the key that really signed it, and an aggregated signature is the set   *)
(* of the keys whose signatures went into it.  The vote pool that the      *)
(* executor's BroadcastVote and QueryVotes reach is external.              *)
(***************************************************************************)
EXTENDS Executor

CONSTANT PoolAtStart   \* votes in the pool already; those of our own key
                       \* were made with another database, by an earlier
                       \* deployment or a second instance with our key

VARIABLE pool          \* external: the vote pool of the chain's nodes

ASSUME VoteUtilAssumption == PoolAtStart \subseteq Vote

BroadcastVote(v) == pool' = pool \cup {v} \/ (RpcFaults /\ UNCHANGED pool)

\* Chain id, object id, operator and challenger are fixed by the challenge id.
CalculateEventHash(e) == <<e.id, e.verifyResult>>

\* CalculateEventHash panics on a result that is not stored yet.
Hashable(e) == e.verifyResult \in Results

SignVote(key, hash) == [pubKey |-> key, eventHash |-> hash, signer |-> key]

\* Mutation of verifySignature.
SignatureNotChecked(v) == TRUE

verifySignature(v) == v.signer = v.pubKey

isVotePubKeyValid(v, vals) == v.pubKey \in vals

\* The keys that really made the aggregated signatures, and the bitset of the
\* validators that the votes name.
AggregatedKeys(vs) == {v.signer : v \in vs}
ValidatorBitSet(vs, vals) == {v.pubKey : v \in vs} \cap vals

\* Mutation of MoreThanTwoThird: >= for >.
TwoThirdsReached(vs, vals) == Cardinality(vs) >= (Cardinality(vals) * 2) \div 3

\* len(queriedVotes) > len(validators)*2/3
MoreThanTwoThird(vs, vals) == Cardinality(vs) > (Cardinality(vals) * 2) \div 3
=============================================================================
