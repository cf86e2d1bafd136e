---------------------------- MODULE MCChallenger ----------------------------
(***************************************************************************)
(* Values of the constants of Challenger for TLC.                          *)
(***************************************************************************)
EXTENDS Challenger

CONSTANTS me, p1, p2, p3   \* BLS keys, model values; p3 is never a validator's

AllKeys == {me, p1, p2, p3}
AllSets == {{me, p1, p2}}
TwoValidators == {{me, p1}}
RotatingValidators == {{me, p1}, {me, p2}}

\* Challenges started and expiring with the same block, or with one each.
OneHeight == [c \in Challenges |-> 1]
Staggered == [c \in Challenges |-> c + 1]
ByHeight == [c \in Challenges |-> c]
TwoByTwo == [c \in Challenges |-> IF c < 3 THEN 1 ELSE 2]
Expires2 == [c \in Challenges |-> 2]
ExpiresSoon == [c \in Challenges |-> c + 1]
Expires9 == [c \in Challenges |-> 9]

SameObject == [c \in Challenges |-> "object"]
TwoObjects == [c \in Challenges |-> IF c = 4 THEN "other" ELSE "object"]
NoChallenger == [c \in Challenges |-> FALSE]
ThirdHasChallenger == [c \in Challenges |-> c = 3]

Signed(k, c, r) == [pubKey |-> k, eventHash |-> <<c, r>>, signer |-> k]
Forged(k, l, c, r) == [pubKey |-> k, eventHash |-> <<c, r>>, signer |-> l]

\* A peer votes for a mismatch of a challenge.
PeerVotes == {{Signed(p1, c, "HashMismatched")} : c \in Challenges}

\* p1 votes for either result; there are also votes in its and in this challenger's name
\* that p2 has signed, and one of a key that is no validator's.
EitherResult == {{Signed(p1, 1, r) : r \in Results} \cup
                 {Forged(p1, p2, 1, "HashMismatched"), Forged(me, p2, 1, "HashMismatched"),
                  Signed(p3, 1, "HashMismatched")}}

\* The database is new, the pool still has our vote of before.
OwnVoteInPool == {Signed(me, 1, "HashMismatched")}

\* p2 votes for a match and later for a mismatch; there is also a vote in its
\* name that it has not signed.
PeersDisagree == {{Signed(p1, 1, "HashMismatched"), Signed(p2, 1, "HashMatched"),
                   Forged(p2, p1, 1, "HashMismatched")},
                  {Signed(p2, 1, "HashMismatched")}}
=============================================================================
