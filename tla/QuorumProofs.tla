---------------------------- MODULE QuorumProofs ----------------------------
(***************************************************************************)
(* QuorumInv is inductive together with SafetyInv and EvidenceInv when the *)
(* validators are fixed: the collator counts rows of the votes table, and  *)
(* since these are genuine, one per key and all of validators, its count   *)
(* is of validators.                                                       *)
(***************************************************************************)
EXTENDS EvidenceProofs, FiniteSetTheorems

\* The one set of validators is what every query and cache answers.
LEMMA FixedSet ==
  ASSUME SafetyInv, FixedValidators
  PROVE  /\ UNION ValidatorSets = chainValidators /\ ValidatorSets = {chainValidators}
         /\ QueryCachedLatestValidators = chainValidators
         /\ Self \in chainValidators /\ IsFiniteSet(chainValidators)
<1>1. PICK V \in ValidatorSets : ValidatorSets = {V} /\ Self \in V
  BY DEF FixedValidators
<1>2. chainValidators = V /\ validators \in {V, {}}
  BY <1>1 DEF SafetyInv, TypeOK, ExecutorTypeOK
<1>3. UNION ValidatorSets = V
  BY <1>1
<1> QED
  BY <1>1, <1>2, <1>3, ExecutorAssumption DEF QueryCachedLatestValidators

\* The keys whose votes for the row's result are saved are the voters.
LEMMA KeysAreVoters ==
  ASSUME SafetyInv, GenuineInv, FixedValidators, NEW c \in Challenges
  PROVE  AggregatedKeys(GetVotesByEventHash(<<c, verifyResult[c]>>)) = Voters(c)
<1>1. \A v \in votes : v.signer = v.pubKey /\ v.pubKey \in chainValidators
  BY FixedSet DEF SafetyInv, VotesInv, GenuineInv
<1> QED
  BY <1>1 DEF AggregatedKeys, GetVotesByEventHash, Voters

\* So are the validators that these votes name.
LEMMA BitsAreVoters ==
  ASSUME SafetyInv, GenuineInv, FixedValidators, NEW c \in Challenges
  PROVE  ValidatorBitSet(GetVotesByEventHash(<<c, verifyResult[c]>>), chainValidators) = Voters(c)
<1>1. \A v \in votes : v.signer = v.pubKey
  BY DEF SafetyInv, VotesInv
<1> QED
  BY <1>1 DEF ValidatorBitSet, GetVotesByEventHash, Voters

\* Genuine votes for one hash differ in their keys, so there are no more of them
\* than there are voters.
LEMMA VotesAreCounted ==
  ASSUME SafetyInv, GenuineInv, FixedValidators, NEW c \in Challenges
  PROVE  LET vs == GetVotesByEventHash(<<c, verifyResult[c]>>) IN
           /\ IsFiniteSet(vs) /\ IsFiniteSet(Voters(c))
           /\ Cardinality(vs) <= Cardinality(Voters(c))
<1> DEFINE vs == GetVotesByEventHash(<<c, verifyResult[c]>>)
           f == [v \in vs |-> v.pubKey]
<1>1. IsFiniteSet(Voters(c))
  BY FixedSet, FS_Subset DEF Voters
<1>2. f \in [vs -> Voters(c)]
  BY KeysAreVoters DEF AggregatedKeys, SafetyInv, VotesInv, GetVotesByEventHash
<1>3. ASSUME NEW v \in vs, NEW w \in vs, f[v] = f[w] PROVE v = w
  <2>1. v \in votes /\ w \in votes /\ v.eventHash = w.eventHash /\ v.pubKey = w.pubKey
    BY <1>3 DEF GetVotesByEventHash
  <2> QED
    BY <2>1, GenuineVote
<1>4. f \in Injection(vs, Voters(c))
  BY <1>2, <1>3 DEF Injection, IsInjective
<1> HIDE DEF f
<1> QED
  BY <1>1, <1>4, FS_Injection

\* len(votes) > len(validators)*2/3 in integers is more than two thirds.
LEMMA TwoThirds ==
  ASSUME NEW n \in Nat, NEW m \in Nat, n > (m * 2) \div 3
  PROVE  3 * n > 2 * m
  OBVIOUS

\* The collator's verdict on a row of its batch is right.
LEMMA CollatedIsEnough ==
  ASSUME SafetyInv, EvidenceInv, FixedValidators, NEW e \in clEvents,
         PrepareEnoughValidVotesForEvent(e)
  PROVE  TwoThirdsVoted(e.id)
<1> DEFINE c == e.id
           vs == GetVotesByEventHash(<<c, verifyResult[c]>>)
<1>1. c \in Challenges /\ FetchVotesForCollate(e) = vs
  BY HeldRows DEF FetchVotesForCollate, CalculateEventHash
<1>2. /\ IsFiniteSet(vs) /\ IsFiniteSet(Voters(c)) /\ Cardinality(vs) <= Cardinality(Voters(c))
  BY <1>1, VotesAreCounted DEF EvidenceInv
<1>3. /\ Cardinality(vs) \in Nat /\ Cardinality(Voters(c)) \in Nat
      /\ Cardinality(chainValidators) \in Nat
  BY <1>2, FixedSet, FS_CardinalityType
<1>4. CASE Cardinality(chainValidators) = 1
  <2>1. SignVote(Self, <<c, verifyResult[c]>>) \in votes
    BY DEF EvidenceInv, SignedInv, OwnVoteSaved
  <2>2. Self \in Voters(c)
    BY <2>1, FixedSet DEF Voters, SignVote
  <2>3. Cardinality(Voters(c)) # 0
    BY <1>2, <2>2, FS_EmptySet
  <2> QED
    BY <1>3, <1>4, <2>3 DEF TwoThirdsVoted
<1>5. CASE MoreThanTwoThird(vs, chainValidators)
  <2>1. 3 * Cardinality(vs) > 2 * Cardinality(chainValidators)
    BY <1>3, <1>5, TwoThirds DEF MoreThanTwoThird
  <2> QED
    BY <1>2, <1>3, <2>1 DEF TwoThirdsVoted
<1> QED
  BY <1>1, <1>4, <1>5, FixedSet DEF PrepareEnoughValidVotesForEvent

\* Voters are never lost.
LEMMA QuorumStays ==
  ASSUME SafetyInv, [Next]_vars, FixedValidators, NEW c \in Challenges,
         verifyResult[c] \in Results, TwoThirdsVoted(c)
  PROVE  TwoThirdsVoted(c)'
<1>1. votes \subseteq votes' /\ verifyResult'[c] = verifyResult[c]
  BY Grows
<1>2. chainValidators' = chainValidators
  BY FixedSet, NextSafety DEF SafetyInv, TypeOK, ExecutorTypeOK
<1>3. Voters(c) \subseteq Voters(c)' /\ Voters(c)' \subseteq chainValidators
  BY <1>1, <1>2 DEF Voters
<1>4. /\ Cardinality(Voters(c)) \in Nat /\ Cardinality(Voters(c)') \in Nat
      /\ Cardinality(Voters(c)) <= Cardinality(Voters(c)')
      /\ Cardinality(chainValidators) \in Nat
  <2>1. IsFiniteSet(Voters(c)') /\ IsFiniteSet(Voters(c))
    BY <1>3, FixedSet, FS_Subset
  <2> QED
    BY <1>3, <2>1, FixedSet, FS_Subset, FS_CardinalityType
<1> QED
  BY <1>2, <1>4 DEF TwoThirdsVoted

\* What is built from the votes of a row with enough of them passes the check.
LEMMA BuiltIsValid ==
  ASSUME SafetyInv, EvidenceInv, FixedValidators, NEW e \in subEvents, TwoThirdsVoted(e.id),
         NEW hash \in HashesOf(e.id) \cup {CalculateEventHash(e)}
  PROVE  ValidAttestation(AttestationOf(e, hash))
<1> DEFINE t == AttestationOf(e, hash)
<1>1. hash = <<e.id, verifyResult[e.id]>> /\ e.id \in Challenges
  BY AttestationIsSigned, HeldRows DEF EvidenceInv
<1>2. AggregatedKeys(GetVotesByEventHash(hash)) = Voters(e.id)
  BY <1>1, KeysAreVoters DEF EvidenceInv
<1>3. Voters(e.id) \subseteq chainValidators
  BY DEF Voters
<1>4. t.signers = Voters(e.id) /\ t.bits = Voters(e.id)
  BY <1>1, <1>2, <1>3, FixedSet, BitsAreVoters DEF AttestationOf, EvidenceInv
<1> QED
  BY <1>3, <1>4 DEF ValidAttestation, TwoThirdsVoted

\* QuorumInv is inductive together with the other invariants.
LEMMA QuorumStep ==
  ASSUME SafetyInv, EvidenceInv, QuorumInv, FixedValidators, [Next]_vars
  PROVE  QuorumInv'
<1> DEFINE held == clEnough \cup subEvents \cup subEvent
<1>1. chainValidators' = chainValidators
  BY FixedSet, NextSafety DEF SafetyInv, TypeOK, ExecutorTypeOK
<1>2. ASSUME NEW c \in Challenges,
             status[c] \in {"EnoughVotesCollected", "Submitted", "DuplicatedSlash"}
      PROVE  TwoThirdsVoted(c)'
  BY <1>2, QuorumStays DEF QuorumInv, EnoughIsTwoThirds, SafetyInv, ResultInv
<1>3. ASSUME NEW e \in held PROVE TwoThirdsVoted(e.id)'
  BY HeldRows, QuorumStays DEF QuorumInv
<1>4. EnoughIsTwoThirds'
  <2> SUFFICES ASSUME NEW c \in Challenges,
                      status'[c] \in {"EnoughVotesCollected", "Submitted", "DuplicatedSlash"}
               PROVE  TwoThirdsVoted(c)'
    BY DEF EnoughIsTwoThirds
  <2>1. CASE status'[c] # status[c]
    <3>1. \E e \in held : e.id = c
      BY <2>1, StatusWriters DEF Attests
    <3> QED
      BY <1>3, <3>1
  <2> QED
    BY <1>2, <2>1
<1>5. ASSUME NEW e \in held' PROVE TwoThirdsVoted(e.id)'
  <2>1. CASE e \in held
    BY <1>3, <2>1
  <2>2. CASE e \in clEvents /\ PrepareEnoughValidVotesForEvent(e)
    BY <2>2, CollatedIsEnough, HeldRows, QuorumStays
  <2>3. CASE e.id \in Challenges /\ status[e.id] = "EnoughVotesCollected"
    BY <1>2, <2>3
  <2> QED
    BY <2>1, <2>2, <2>3, HeldSources
<1>6. ASSUME NEW t \in subTx' \cup txs' PROVE ValidAttestation(t)'
  <2>1. CASE t \in subTx \cup txs
    BY <1>1, <2>1 DEF QuorumInv, ValidAttestation
  <2>2. CASE t \notin subTx \cup txs
    <3>1. PICK e \in subEvents : \E hash \in HashesOf(e.id) \cup {CalculateEventHash(e)} :
                                 t = AttestationOf(e, hash)
      BY <2>2, AttestationSources
    <3>2. ValidAttestation(t)
      BY <3>1, BuiltIsValid DEF QuorumInv
    <3> QED
      BY <1>1, <3>2 DEF ValidAttestation
  <2> QED
    BY <2>1, <2>2
<1> QED
  BY <1>4, <1>5, <1>6 DEF QuorumInv

\* With fixed validators every row on its way to the submitter, and every
\* attestation built, has more than two thirds of the validators behind it.
THEOREM Quorum == Spec => [](FixedValidators => QuorumInv)
<1>1. Init => (FixedValidators => QuorumInv)
  BY DEF Init, TablesInit, CollatorInit, SubmitterInit, QuorumInv, EnoughIsTwoThirds
<1>2. /\ SafetyInv /\ EvidenceInv /\ (FixedValidators => QuorumInv) /\ [Next]_vars
      => (FixedValidators => QuorumInv)'
  <2>1. FixedValidators' => FixedValidators
    BY DEF FixedValidators
  <2> QED
    BY <2>1, QuorumStep
<1> QED
  BY <1>1, <1>2, Safety, Evidence, PTL DEF Spec

\* An event whose status says that it has enough votes has the genuine, saved votes
\* of more than two thirds of the validators, if these do not change
\* (prepareEnoughValidVotesForEvent).
THEOREM EnoughVotes == Spec => [](FixedValidators => EnoughIsTwoThirds)
<1>1. (FixedValidators => QuorumInv) => (FixedValidators => EnoughIsTwoThirds)
  BY DEF QuorumInv
<1> QED
  BY <1>1, Quorum, PTL

\* Every attestation the submitter sends passes the chain's check, if the validators
\* do not change (getSignatureAndBitSet).
THEOREM AttestationsAreValid == Spec => [](FixedValidators => AttestationsPassCheck)
<1>1. (FixedValidators => QuorumInv) => (FixedValidators => AttestationsPassCheck)
  BY DEF QuorumInv, AttestationsPassCheck
<1> QED
  BY <1>1, Quorum, PTL

\* The collator's count is of validators, if these do not change, whatever votes are
\* forged, repeated or for other results; run validator_change shows that it is not
\* when they do (prepareEnoughValidVotesForEvent).
THEOREM CollationCountsValidators == Spec /\ FixedValidators => CollatedByTwoThirds
<1> DEFINE Counted(e) ==
             LET vals == QueryCachedLatestValidators IN
               3 * Cardinality(ValidatorBitSet(FetchVotesForCollate(e), vals))
                 > 2 * Cardinality(vals)
<1>1. ASSUME SafetyInv, EvidenceInv, FixedValidators, [Next]_vars
      PROVE  [\A e \in clEnough' \ clEnough : Counted(e)]_vars
  <2> SUFFICES ASSUME NEW e \in clEnough' \ clEnough PROVE Counted(e)
    OBVIOUS
  <2>1. e \in clEvents /\ PrepareEnoughValidVotesForEvent(e)
    BY <1>1, HeldSources
  <2>2. TwoThirdsVoted(e.id)
    BY <1>1, <2>1, CollatedIsEnough
  <2>3. FetchVotesForCollate(e) = GetVotesByEventHash(<<e.id, verifyResult[e.id]>>)
        /\ e.id \in Challenges
    BY <1>1, <2>1, HeldRows DEF FetchVotesForCollate, CalculateEventHash
  <2>4. ValidatorBitSet(FetchVotesForCollate(e), chainValidators) = Voters(e.id)
    BY <1>1, <2>3, BitsAreVoters DEF EvidenceInv
  <2> QED
    BY <1>1, <2>2, <2>4, FixedSet DEF TwoThirdsVoted
<1>2. FixedValidators => FixedValidators'
  BY DEF FixedValidators
<1> QED
  BY <1>1, <1>2, Safety, Evidence, PTL DEF Spec, CollatedByTwoThirds
=============================================================================
