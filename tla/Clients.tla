------------------------------ MODULE Clients ------------------------------
(***************************************************************************)
(* The choice of an RPC client (executor/client.go).  Every remote call of *)
(* the executor first asks all nodes for their height, one goroutine per   *)
(* client, and takes the client that answers with the largest.  The        *)
(* goroutines of the process make such calls concurrently and share the    *)
(* clients: the field Height is written and read without a lock.           *)
(***************************************************************************)
EXTENDS Naturals

CONSTANTS
  Clients,          \* gc.clients
  FirstClient,      \* gc.clients[0]
  Calls,            \* callers of GetClient, each makes one call after another
  NodeHeights       \* NodeHeights[c]: the heights that the node of c may answer

VARIABLES
  Height,           \* Height[c]: the field of the shared client
  call,             \* call[k]: where GetClient is, see CallStage
  maxHeight,        \* its local variables
  maxHeightClient,
  received,         \* the client received from clientCh, c of the select case
  getter,           \* getter[k][c]: where getClientBlockHeight is, see GetterStage
  answered,         \* answered[k]: the clients whose node has answered this call
  latestHeight,     \* latestHeight[k][c]: that answer, 0 without one
  alone             \* alone[k]: no other call has overlapped this one so far

callVars == <<call, maxHeight, maxHeightClient, received>>
getterVars == <<getter, answered, latestHeight>>
vars == <<Height, callVars, getterVars, alone>>

ASSUME ClientsAssumption ==
  /\ FirstClient \in Clients
  /\ NodeHeights \in [Clients -> SUBSET Nat]

CallStage == {"idle", "select", "compare", "assign", "returned"}
GetterStage == {"query", "write", "send", "sent", "done"}

\* Nodes that may have no block yet.
EmptyNodes == {c \in Clients : 0 \in NodeHeights[c]}

Pending(k) == call[k] \in {"select", "compare", "assign"}

FirstMaxHeight == 0

\* GetClient makes its channels and starts the goroutines.
StartCall(k) ==
  /\ ~Pending(k)
  /\ call' = [call EXCEPT ![k] = "select"]
  /\ maxHeight' = [maxHeight EXCEPT ![k] = FirstMaxHeight]
  /\ maxHeightClient' = [maxHeightClient EXCEPT ![k] = FirstClient]
  /\ getter' = [getter EXCEPT ![k] = [c \in Clients |-> "query"]]
  /\ answered' = [answered EXCEPT ![k] = {}]
  /\ latestHeight' = [latestHeight EXCEPT ![k] = [c \in Clients |-> 0]]
  /\ alone' = [j \in Calls |->
                 IF j = k THEN \A i \in Calls : ~Pending(i) ELSE alone[j] /\ ~Pending(j)]
  /\ UNCHANGED <<Height, received>>

Goto(k, c, stage) == getter' = [getter EXCEPT ![k][c] = stage]

\* Mutation of GetStatus: after an error the goroutine does not return.
SendWithoutAnswer(k, c) ==
  /\ getter[k][c] = "query"
  /\ \/ /\ \E h \in NodeHeights[c] : latestHeight' = [latestHeight EXCEPT ![k][c] = h]
        /\ answered' = [answered EXCEPT ![k] = @ \cup {c}]
        /\ Goto(k, c, "write")
     \/ Goto(k, c, "send") /\ UNCHANGED <<answered, latestHeight>>
  /\ UNCHANGED <<Height, callVars, alone>>

\* The node answers with its height, which is external, 0 on a node without blocks,
\* and behind a load balancer may even go back; or it fails to answer within a second.
GetStatus(k, c) ==
  /\ getter[k][c] = "query"
  /\ \/ /\ \E h \in NodeHeights[c] : latestHeight' = [latestHeight EXCEPT ![k][c] = h]
        /\ answered' = [answered EXCEPT ![k] = @ \cup {c}]
        /\ Goto(k, c, "write")
     \/ Goto(k, c, "done") /\ UNCHANGED <<answered, latestHeight>>
  /\ UNCHANGED <<Height, callVars, alone>>

WriteHeight(k, c) ==
  /\ getter[k][c] = "write"
  /\ Height' = [Height EXCEPT ![c] = latestHeight[k][c]]
  /\ Goto(k, c, "send")
  /\ UNCHANGED <<callVars, answered, latestHeight, alone>>

\* clientCh is not buffered: the goroutine and GetClient take this step together.
Receive(k, c) ==
  /\ call[k] = "select" /\ getter[k][c] = "send"
  /\ received' = [received EXCEPT ![k] = c]
  /\ call' = [call EXCEPT ![k] = "compare"]
  /\ Goto(k, c, "sent")
  /\ UNCHANGED <<Height, maxHeight, maxHeightClient, answered, latestHeight, alone>>

\* Mutation of Done: the goroutine asks for the height again.
AskAgain(k, c) ==
  /\ getter[k][c] = "sent"
  /\ Goto(k, c, "query")
  /\ answered' = [answered EXCEPT ![k] = @ \ {c}]
  /\ latestHeight' = [latestHeight EXCEPT ![k][c] = 0]
  /\ UNCHANGED <<Height, callVars, alone>>

Done(k, c) ==
  /\ getter[k][c] = "sent"
  /\ Goto(k, c, "done")
  /\ UNCHANGED <<Height, callVars, answered, latestHeight, alone>>

\* The variable c of the select case goes out of scope.
NextSelect(k) ==
  /\ call' = [call EXCEPT ![k] = "select"]
  /\ received' = [received EXCEPT ![k] = FirstClient]

\* if c.Height > maxHeight
Compare(k) ==
  /\ call[k] = "compare"
  /\ \/ /\ Height[received[k]] > maxHeight[k]
        /\ call' = [call EXCEPT ![k] = "assign"]
        /\ UNCHANGED received
     \/ ~(Height[received[k]] > maxHeight[k]) /\ NextSelect(k)
  /\ UNCHANGED <<Height, maxHeight, maxHeightClient, getterVars, alone>>

\* Mutation of Assign: maxHeight is not updated.
AssignClientOnly(k) ==
  /\ call[k] = "assign"
  /\ maxHeightClient' = [maxHeightClient EXCEPT ![k] = received[k]]
  /\ NextSelect(k)
  /\ UNCHANGED <<Height, maxHeight, getterVars, alone>>

\* maxHeight = c.Height reads the field again.
Assign(k) ==
  /\ call[k] = "assign"
  /\ maxHeight' = [maxHeight EXCEPT ![k] = Height[received[k]]]
  /\ maxHeightClient' = [maxHeightClient EXCEPT ![k] = received[k]]
  /\ NextSelect(k)
  /\ UNCHANGED <<Height, getterVars, alone>>

\* Mutation of WaitGroupIsDone: wg.Done() comes before the send.
AllHaveAnswered(k) == \A c \in Clients : getter[k][c] \in {"send", "sent", "done"}

WaitGroupIsDone(k) == \A c \in Clients : getter[k][c] = "done"

\* waitCh is closed once wg.Wait() has returned, and select takes it.
ReturnClient(k) ==
  /\ call[k] = "select" /\ WaitGroupIsDone(k)
  /\ call' = [call EXCEPT ![k] = "returned"]
  /\ maxHeight' = [maxHeight EXCEPT ![k] = 0]
  /\ UNCHANGED <<Height, maxHeightClient, received, getterVars, alone>>

GetClient(k) == StartCall(k) \/ Compare(k) \/ Assign(k) \/ ReturnClient(k)

GetClientBlockHeight(k, c) ==
  GetStatus(k, c) \/ WriteHeight(k, c) \/ Receive(k, c) \/ Done(k, c)

Next ==
  \E k \in Calls : GetClient(k) \/ \E c \in Clients : GetClientBlockHeight(k, c)

Init ==
  /\ Height = [c \in Clients |-> 0]
  /\ call = [k \in Calls |-> "idle"]
  /\ maxHeight = [k \in Calls |-> 0]
  /\ maxHeightClient = [k \in Calls |-> FirstClient]
  /\ received = [k \in Calls |-> FirstClient]
  /\ getter = [k \in Calls |-> [c \in Clients |-> "done"]]
  /\ answered = [k \in Calls |-> {}]
  /\ latestHeight = [k \in Calls |-> [c \in Clients |-> 0]]
  /\ alone = [k \in Calls |-> TRUE]

Spec == Init /\ [][Next]_vars

\* The Go runtime schedules every goroutine, and GetStatus ends within its timeout.
Fairness ==
  \A k \in Calls :
    /\ WF_vars(Compare(k)) /\ WF_vars(Assign(k)) /\ WF_vars(ReturnClient(k))
    /\ \A c \in Clients : WF_vars(GetClientBlockHeight(k, c))

FairSpec == Spec /\ Fairness

TypeOK ==
  /\ Height \in [Clients -> Nat]
  /\ call \in [Calls -> CallStage]
  /\ maxHeight \in [Calls -> Nat]
  /\ maxHeightClient \in [Calls -> Clients]
  /\ received \in [Calls -> Clients]
  /\ getter \in [Calls -> [Clients -> GetterStage]]
  /\ answered \in [Calls -> SUBSET Clients]
  /\ latestHeight \in [Calls -> [Clients -> Nat]]
  /\ alone \in [Calls -> BOOLEAN]

-----------------------------------------------------------------------------

\* If a node that has blocks has answered a call, the client it returns is one of
\* those that answered it, whatever other calls write to the shared heights meanwhile:
\* a node that is down is not chosen on a height of before.  A node that answers 0 does
\* not count: c.Height > maxHeight is false for it, and clients[0] is returned.
ReturnsAnAnsweringClient ==
  \A k \in Calls :
    call[k] = "returned" /\ ~(answered[k] \subseteq EmptyNodes) =>
      maxHeightClient[k] \in answered[k]

\* A call that no other call overlaps returns a client with the largest answer.
ReturnsTheHighest ==
  \A k \in Calls : call[k] = "returned" /\ alone[k] =>
    \A c \in Clients : latestHeight[k][c] <= latestHeight[k][maxHeightClient[k]]

(***************************************************************************)
(* The inductive invariant behind the two.  An answer of c is used once    *)
(* GetClient has compared it.                                              *)
(***************************************************************************)
Comparing(k) == call[k] \in {"compare", "assign"}

Used(k) == {c \in answered[k] : /\ getter[k][c] \in {"sent", "done"}
                                /\ ~(Comparing(k) /\ received[k] = c)}

GettersInv ==
  /\ \A k \in Calls : ~Pending(k) => \A c \in Clients : getter[k][c] = "done"
  /\ \A k \in Calls, c \in Clients :
       /\ getter[k][c] = "query" => c \notin answered[k]
       /\ getter[k][c] \in {"write", "send", "sent"} => c \in answered[k]
       /\ c \notin answered[k] => latestHeight[k][c] = 0
       /\ c \in answered[k] \ EmptyNodes =>
            latestHeight[k][c] # 0 /\ (getter[k][c] = "write" \/ Height[c] # 0)

ChoiceInv ==
  \A k \in Calls :
    /\ Comparing(k) => /\ received[k] \in answered[k]
                       /\ getter[k][received[k]] \in {"sent", "done"}
    /\ \/ maxHeightClient[k] \in Used(k)
       \/ Used(k) \subseteq EmptyNodes /\ maxHeight[k] = 0

\* While a call is alone, the shared heights are its own answers.
Undisturbed(k) ==
  /\ Pending(k) =>
       /\ \A j \in Calls \ {k} : ~Pending(j)
       /\ \A c \in answered[k] : getter[k][c] = "write" \/ Height[c] = latestHeight[k][c]
       /\ \A c \in Used(k) : latestHeight[k][c] <= maxHeight[k]
       /\ maxHeightClient[k] \in Used(k) => maxHeight[k] = latestHeight[k][maxHeightClient[k]]
       /\ call[k] = "assign" => Height[received[k]] > maxHeight[k]
  /\ \A c \in Used(k) : latestHeight[k][c] <= latestHeight[k][maxHeightClient[k]]

AloneInv == \A k \in Calls : alone[k] => Undisturbed(k)

ClientsInv == TypeOK /\ GettersInv /\ ChoiceInv /\ AloneInv

\* Every call returns, although nodes fail to answer.
EveryCallReturns == \A k \in Calls : Pending(k) ~> call[k] = "returned"
=============================================================================
