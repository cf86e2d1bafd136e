------------------------------ MODULE Contract ------------------------------
(***************************************************************************)
(* What a challenger promises the chain and the other challengers, without *)
(* goroutines, statuses, caches, faults or restarts: it finds one result   *)
(* per challenge, saves its vote for that result before it sends it, and   *)
(* submits an attestation only of a result it has voted for.  A vote is    *)
(* the event hash it signs, a pair of challenge and result.                *)
(***************************************************************************)
CONSTANTS
  Challenges,
  Results,     \* what a verification may find
  Before       \* votes with our key that were in the pool at the start

VARIABLES
  result,      \* result[c]: what was found, "Unknown" before
  saved,       \* our votes that are in our table
  sent,        \* our votes that are in the pool
  submitted    \* the results we have submitted

contractVars == <<result, saved, sent, submitted>>

VoteFor(c) == <<c, result[c]>>

Verify(c, r) ==
  /\ result[c] = "Unknown"
  /\ result' = [result EXCEPT ![c] = r]
  /\ UNCHANGED <<saved, sent, submitted>>

SaveOwn(c) ==
  /\ result[c] \in Results
  /\ saved' = saved \cup {VoteFor(c)}
  /\ UNCHANGED <<result, sent, submitted>>

\* A vote of an earlier deployment is collected from the pool.
Adopt(hash) ==
  /\ hash \in Before
  /\ saved' = saved \cup {hash}
  /\ UNCHANGED <<result, sent, submitted>>

Send(c) ==
  /\ result[c] \in Results /\ VoteFor(c) \in saved
  /\ sent' = sent \cup {VoteFor(c)}
  /\ UNCHANGED <<result, saved, submitted>>

Submit(c) ==
  /\ result[c] \in Results /\ VoteFor(c) \in saved
  /\ submitted' = submitted \cup {VoteFor(c)}
  /\ UNCHANGED <<result, saved, sent>>

Next ==
  \/ \E c \in Challenges :
       \/ \E r \in Results : Verify(c, r)
       \/ SaveOwn(c) \/ Send(c) \/ Submit(c)
  \/ \E hash \in Before : Adopt(hash)

Init ==
  /\ result = [c \in Challenges |-> "Unknown"]
  /\ saved = {} /\ sent = Before /\ submitted = {}

Spec == Init /\ [][Next]_contractVars

-----------------------------------------------------------------------------

\* What the contract comes to: all that we send or submit is saved, nothing is ever
\* submitted or, since the start, sent but the one found result of its challenge.
Honest ==
  /\ submitted \cup sent \subseteq saved \cup Before
  /\ submitted \subseteq saved
  /\ \A x \in submitted \cup ((saved \cup sent) \ Before) :
       \E c \in Challenges : x = VoteFor(c) /\ result[c] \in Results
=============================================================================
