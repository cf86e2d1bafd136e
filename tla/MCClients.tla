----------------------------- MODULE MCClients -----------------------------
(***************************************************************************)
(* Values of the constants of Clients for TLC.                             *)
(***************************************************************************)
EXTENDS Clients

CONSTANTS c1, c2, k1, k2   \* clients and callers, model values

TwoClients == {c1, c2}
TwoCalls == {k1, k2}

\* The second node may have no block yet: if the first is down, GetClient returns the
\* client of the first although the second answers.
EmptyOrSynced == [c \in TwoClients |-> IF c = c2 THEN {0, 2} ELSE {1, 2}]
=============================================================================
