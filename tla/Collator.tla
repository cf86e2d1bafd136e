------------------------------ MODULE Collator ------------------------------
(***************************************************************************)
(* The VoteCollator (vote/vote_collator.go): it counts the saved votes of  *)
(* each event this challenger has voted for.                               *)
(***************************************************************************)
EXTENDS VoteUtil

VARIABLES
  clEvents,    \* rows fetched that the range loop has not reached
  clEnough     \* the row found to have enough votes, status not updated yet

collatorVars == <<clEvents, clEnough>>

\* Mutation of FetchEventsForCollate: the wrong status.
FetchVerifiedForCollate ==
  /\ clEvents = {} /\ clEnough = {}
  /\ \E h \in Heights :
       /\ GetCachedBlockHeight(h)
       /\ clEvents' = GetUnexpiredEventsByStatus(h, "Verified")
  /\ UNCHANGED <<tableVars, clEnough>>

FetchEventsForCollate ==
  /\ clEvents = {} /\ clEnough = {}
  /\ \E h \in Heights :
       /\ GetCachedBlockHeight(h)
       /\ clEvents' = GetUnexpiredEventsByStatus(h, "SelfVoted")
  /\ UNCHANGED <<tableVars, clEnough>>

\* Mutation of FetchVotesForCollate: votes selected by the challenge id.
VotesOfAnyResult(e) == {v \in votes : v.eventHash[1] = e.id}

FetchVotesForCollate(e) == GetVotesByEventHash(CalculateEventHash(e))

\* A single validator needs no other vote.
PrepareEnoughValidVotesForEvent(e) ==
  LET vals == QueryCachedLatestValidators IN
    \/ Cardinality(vals) = 1
    \/ MoreThanTwoThird(FetchVotesForCollate(e), vals)

CollateForSingleEvent(e) ==
  /\ clEnough = {} /\ InOrder(e, clEvents)
  /\ \/ \E h \in Heights :
          /\ GetCachedBlockHeight(h)
          /\ \/ clEnough' = IF h <= ExpiredHeight[e.id]
                                 /\ PrepareEnoughValidVotesForEvent(e)
                            THEN {e} ELSE {}
             \/ (ValidatorsUnavailable \/ "fail" \in DbFaults) /\ UNCHANGED clEnough
     \/ HeightUnavailable /\ UNCHANGED clEnough
  /\ clEvents' = clEvents \ {e}
  /\ UNCHANGED tableVars

UpdateEnoughVotesCollected(e) ==
  /\ \E o \in Outcomes :
       UpdateEventStatusByChallengeId(e.id, "EnoughVotesCollected", o)
  /\ clEnough' = {}
  /\ UNCHANGED <<blocks, verifyResult, votes, height, clEvents>>

CollatorNext ==
  /\ \/ FetchEventsForCollate
     \/ \E e \in clEvents : CollateForSingleEvent(e)
     \/ \E e \in clEnough : UpdateEnoughVotesCollected(e)
  /\ UNCHANGED allButHeight

CollatorInit == clEvents = {} /\ clEnough = {}

CollatorRestart == clEvents' = {} /\ clEnough' = {}

CollatorTypeOK == clEvents \subseteq EventRow /\ clEnough \subseteq EventRow
=============================================================================
