--------------------------- MODULE ContractProofs ---------------------------
(***************************************************************************)
(* What the contract implies, without regard to how it is kept.  A result  *)
(* that is found is never replaced, since "Unknown" is no result: so what  *)
(* was signed for a challenge stays its result.                            *)
(***************************************************************************)
EXTENDS Contract, TLAPS

HonestInv ==
  /\ result \in [Challenges -> {"Unknown"} \cup Results]
  /\ Honest

\* Finding a result changes the vote of no challenge that had one.
LEMMA VerifyKeepsVotes ==
  ASSUME "Unknown" \notin Results, HonestInv, NEW c \in Challenges, NEW r \in Results, Verify(c, r)
  PROVE  \A d \in Challenges : result[d] \in Results => VoteFor(d)' = VoteFor(d) /\ result'[d] \in Results
  BY DEF HonestInv, Verify, VoteFor

\* A challenger that keeps the contract is honest: whatever it has submitted it has voted for
\* and saved, and both its votes and its submissions are of the one result it found.
THEOREM ContractIsHonest ==
  ASSUME "Unknown" \notin Results
  PROVE  Spec => []Honest
<1>1. Init => HonestInv
  BY DEF Init, HonestInv, Honest
<1>2. HonestInv /\ [Next]_contractVars => HonestInv'
  <2> SUFFICES ASSUME HonestInv, [Next]_contractVars PROVE HonestInv'
    OBVIOUS
  <2>1. CASE UNCHANGED contractVars
    BY <2>1 DEF contractVars, HonestInv, Honest, VoteFor
  <2>2. ASSUME NEW c \in Challenges, NEW r \in Results, Verify(c, r) PROVE HonestInv'
    <3>1. result' \in [Challenges -> {"Unknown"} \cup Results]
      BY <2>2 DEF Verify, HonestInv
    <3>2. \A d \in Challenges : result[d] \in Results => VoteFor(d)' = VoteFor(d) /\ result'[d] \in Results
      BY <2>2, VerifyKeepsVotes
    <3> QED
      BY <2>2, <3>1, <3>2 DEF Verify, HonestInv, Honest
  <2>3. ASSUME NEW c \in Challenges, SaveOwn(c) PROVE HonestInv'
    BY <2>3 DEF SaveOwn, HonestInv, Honest, VoteFor
  <2>4. ASSUME NEW c \in Challenges, Send(c) PROVE HonestInv'
    BY <2>4 DEF Send, HonestInv, Honest, VoteFor
  <2>5. ASSUME NEW c \in Challenges, Submit(c) PROVE HonestInv'
    BY <2>5 DEF Submit, HonestInv, Honest, VoteFor
  <2>6. ASSUME NEW hash \in Before, Adopt(hash) PROVE HonestInv'
    BY <2>6 DEF Adopt, HonestInv, Honest, VoteFor
  <2> QED
    BY <2>1, <2>2, <2>3, <2>4, <2>5, <2>6 DEF Next
<1>3. HonestInv => Honest
  BY DEF HonestInv
<1> QED
  BY <1>1, <1>2, <1>3, PTL DEF Spec
=============================================================================
