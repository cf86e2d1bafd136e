--------------------------- MODULE ClientsProofs ---------------------------
(***************************************************************************)
(* ClientsInv is an invariant of GetClient for any number of nodes, of     *)
(* concurrent callers and of heights, and with it what the call promises.  *)
(***************************************************************************)
EXTENDS Clients, TLAPS

\* Nothing has been asked yet, so nothing is used.
LEMMA ClientsInit == Init => ClientsInv
BY ClientsAssumption
DEF Init, ClientsInv, TypeOK, GettersInv, ChoiceInv, AloneInv, Undisturbed, CallStage, GetterStage,
    Pending, Comparing, Used

\* A new call has no answers yet; the calls it overlaps are no longer alone.
LEMMA StartCallInv ==
  ASSUME ClientsInv, NEW k \in Calls, StartCall(k) PROVE ClientsInv'
<1> USE ClientsAssumption
    DEF ClientsInv, TypeOK, CallStage, GetterStage, callVars, getterVars
<1>1. TypeOK'
  BY DEF StartCall, FirstMaxHeight
<1>2. GettersInv'
  BY <1>1 DEF StartCall, GettersInv, Pending
<1>3. ChoiceInv'
  BY <1>1
  DEF StartCall, GettersInv, ChoiceInv, Pending, Comparing, Used,
      FirstMaxHeight
<1>4. AloneInv'
  <2> SUFFICES ASSUME NEW j \in Calls, alone'[j]
               PROVE  Undisturbed(j)'
    BY DEF AloneInv
  <2>1. CASE j = k
    <3>1. answered'[j] = {} /\ Used(j)' = {} /\ call'[j] = "select"
      BY <2>1 DEF StartCall, Used
    <3>2. \A i \in Calls \ {j} : ~Pending(i)'
      BY <2>1 DEF StartCall, Pending
    <3> QED
      BY <3>1, <3>2 DEF Undisturbed
  <2>2. CASE j # k
    <3>1. alone[j] /\ ~Pending(j)' /\ Used(j)' = Used(j)
      BY <2>2 DEF StartCall, Pending, Used, Comparing
    <3>2. \A c \in Used(j) : latestHeight[j][c] <= latestHeight[j][maxHeightClient[j]]
      BY <3>1 DEF AloneInv, Undisturbed
    <3> QED
      BY <2>2, <3>1, <3>2 DEF StartCall, Undisturbed
  <2> QED
    BY <2>1, <2>2
<1> QED
  BY <1>1, <1>2, <1>3, <1>4

\* An answer that has arrived is not used before it is written and sent.
LEMMA GetStatusInv ==
  ASSUME ClientsInv, NEW k \in Calls, NEW c \in Clients, GetStatus(k, c) PROVE ClientsInv'
<1> USE ClientsAssumption
    DEF ClientsInv, TypeOK, CallStage, GetterStage, callVars, getterVars
<1>1. CASE Goto(k, c, "done") /\ UNCHANGED <<answered, latestHeight>>
  <2>1. TypeOK'
    BY <1>1 DEF GetStatus, Goto
  <2>2. GettersInv'
    BY <1>1 DEF GetStatus, Goto, GettersInv, Pending
  <2>3. \A j \in Calls : answered'[j] = answered[j] /\ Used(j)' = Used(j)
    BY <1>1 DEF GetStatus, Goto, GettersInv, Used, Comparing
  <2>4. ChoiceInv'
    BY <1>1, <2>3 DEF GetStatus, Goto, ChoiceInv, Comparing
  <2>5. AloneInv'
    BY <1>1, <2>3 DEF GetStatus, Goto, GettersInv, AloneInv, Undisturbed, Pending
  <2> QED
    BY <2>1, <2>2, <2>4, <2>5
<1>2. ASSUME NEW h \in NodeHeights[c], latestHeight' = [latestHeight EXCEPT ![k][c] = h],
             answered' = [answered EXCEPT ![k] = @ \cup {c}], Goto(k, c, "write")
      PROVE  ClientsInv'
  <2>1. TypeOK'
    BY <1>2 DEF GetStatus, Goto
  <2>2. GettersInv'
    <3>1. h # 0 \/ c \in EmptyNodes
      BY <1>2 DEF EmptyNodes
    <3> QED
      BY <1>2, <2>1, <3>1 DEF GetStatus, Goto, GettersInv, Pending
  <2>3. \A j \in Calls : Used(j)' = Used(j)
    BY <1>2 DEF GetStatus, Goto, GettersInv, Used, Comparing
  <2>4. ChoiceInv'
    BY <1>2, <2>3 DEF GetStatus, Goto, ChoiceInv, Comparing
  <2>5. AloneInv'
    <3> SUFFICES ASSUME NEW j \in Calls, alone'[j] PROVE Undisturbed(j)'
      BY DEF AloneInv
    <3>1. Undisturbed(j) /\ \A i \in Calls : Pending(i)' = Pending(i)
      BY DEF GetStatus, AloneInv, Pending
    <3>2. Pending(j) => \A d \in answered'[j] :
                           getter'[j][d] = "write" \/ Height'[d] = latestHeight'[j][d]
      BY <1>2, <3>1 DEF GetStatus, Goto, Undisturbed
    <3>3. \A d \in Used(j) : latestHeight'[j][d] = latestHeight[j][d]
      BY <1>2 DEF GetStatus, GettersInv, Used
    <3>4. latestHeight'[j][maxHeightClient[j]] >= latestHeight[j][maxHeightClient[j]]
      BY <1>2, <2>1 DEF GetStatus, GettersInv, Used
    <3> QED
      BY <1>2, <2>1, <2>3, <3>1, <3>2, <3>3, <3>4 DEF GetStatus, Undisturbed, Used
  <2> QED
    BY <2>1, <2>2, <2>4, <2>5
<1> QED
  BY <1>1, <1>2 DEF GetStatus

\* A write to the shared height disturbs no call that is alone but its own.
LEMMA WriteHeightInv ==
  ASSUME ClientsInv, NEW k \in Calls, NEW c \in Clients, WriteHeight(k, c) PROVE ClientsInv'
<1> USE ClientsAssumption
    DEF ClientsInv, TypeOK, CallStage, GetterStage, callVars, getterVars
<1>1. TypeOK'
  BY DEF WriteHeight, Goto
<1>2. GettersInv'
  BY <1>1 DEF WriteHeight, Goto, GettersInv, Pending
<1>3. \A j \in Calls : answered'[j] = answered[j] /\ Used(j)' = Used(j)
  BY DEF WriteHeight, Goto, Used, Comparing
<1>4. ChoiceInv'
  BY <1>3 DEF WriteHeight, Goto, ChoiceInv, Comparing
<1>5. AloneInv'
  <2> SUFFICES ASSUME NEW j \in Calls, alone'[j] PROVE Undisturbed(j)'
    BY DEF AloneInv
  <2>1. Pending(k) /\ alone[j] /\ Undisturbed(j) /\ \A i \in Calls : Pending(i)' = Pending(i)
    BY DEF WriteHeight, GettersInv, AloneInv, Pending
  <2>2. CASE j = k
    <3>1. call[k] = "assign" => received[k] # c
      BY DEF WriteHeight, ChoiceInv, Comparing
    <3>2. \A d \in answered[k] : getter'[k][d] = "write" \/ Height'[d] = latestHeight'[k][d]
      BY <2>1, <2>2 DEF WriteHeight, Goto, Undisturbed
    <3> QED
      BY <1>3, <2>1, <2>2, <3>1, <3>2 DEF WriteHeight, Undisturbed
  <2>3. CASE j # k
    <3>1. ~Pending(j)
      BY <2>1, <2>3 DEF Undisturbed
    <3> QED
      BY <1>3, <2>1, <3>1 DEF WriteHeight, Undisturbed
  <2> QED
    BY <2>2, <2>3
<1> QED
  BY <1>1, <1>2, <1>4, <1>5

\* The answer GetClient receives is the one it compares next.
LEMMA ReceiveInv ==
  ASSUME ClientsInv, NEW k \in Calls, NEW c \in Clients, Receive(k, c) PROVE ClientsInv'
<1> USE ClientsAssumption
    DEF ClientsInv, TypeOK, CallStage, GetterStage, callVars, getterVars
<1>1. TypeOK'
  BY DEF Receive, Goto
<1>2. GettersInv'
  BY <1>1 DEF Receive, Goto, GettersInv, Pending
<1>3. ChoiceInv'
  BY <1>1 DEF Receive, Goto, GettersInv, ChoiceInv, Pending, Comparing, Used
<1>4. AloneInv'
  BY <1>1
  DEF Receive, Goto, GettersInv, ChoiceInv, AloneInv, Undisturbed, Pending, Comparing,
      Used
<1> QED
  BY <1>1, <1>2, <1>3, <1>4

\* A goroutine that ends has handed over its answer.
LEMMA DoneInv ==
  ASSUME ClientsInv, NEW k \in Calls, NEW c \in Clients, Done(k, c) PROVE ClientsInv'
<1> USE ClientsAssumption
    DEF ClientsInv, TypeOK, CallStage, GetterStage, callVars, getterVars
<1>1. TypeOK'
  BY DEF Done, Goto
<1>2. GettersInv'
  BY <1>1 DEF Done, Goto, GettersInv, Pending
<1>3. ChoiceInv'
  BY <1>1 DEF Done, Goto, GettersInv, ChoiceInv, Pending, Comparing, Used
<1>4. AloneInv'
  BY <1>1
  DEF Done, Goto, GettersInv, ChoiceInv, AloneInv, Undisturbed, Pending, Comparing, Used
<1> QED
  BY <1>1, <1>2, <1>3, <1>4

\* The answer in hand is used when GetClient selects again.
LEMMA AnswerIsUsed ==
  ASSUME ClientsInv, NEW k \in Calls, Comparing(k), call' = [call EXCEPT ![k] = "select"],
         UNCHANGED <<getter, answered>>
  PROVE  /\ Used(k)' = Used(k) \cup {received[k]} /\ received[k] \in answered[k]
         /\ Pending(k) /\ getter[k][received[k]] # "write"
<1>1. /\ received[k] \in answered[k] /\ getter[k][received[k]] \in {"sent", "done"}
      /\ Pending(k)
  BY DEF ClientsInv, ChoiceInv, Comparing, Pending
<1>2. Used(k)' = {c \in answered[k] : getter[k][c] \in {"sent", "done"}}
  BY DEF ClientsInv, TypeOK, Used, Comparing
<1> QED
  BY <1>1, <1>2 DEF Used

\* A height that is not larger leaves the choice, a larger one is assigned next.
LEMMA CompareInv ==
  ASSUME ClientsInv, NEW k \in Calls, Compare(k) PROVE ClientsInv'
<1> USE ClientsAssumption
    DEF ClientsInv, TypeOK, CallStage, GetterStage, callVars, getterVars
<1>1. CASE Height[received[k]] > maxHeight[k]
  <2>1. call' = [call EXCEPT ![k] = "assign"] /\ UNCHANGED received
    BY <1>1 DEF Compare
  <2>2. TypeOK'
    BY <2>1 DEF Compare
  <2>3. \A j \in Calls : /\ answered'[j] = answered[j] /\ Used(j)' = Used(j)
                         /\ Pending(j)' = Pending(j) /\ Comparing(j)' = Comparing(j)
    BY <2>1 DEF Compare, Used, Pending, Comparing
  <2>4. GettersInv' /\ ChoiceInv'
    BY <2>1, <2>3 DEF Compare, GettersInv, ChoiceInv
  <2>5. AloneInv'
    BY <1>1, <2>1, <2>3 DEF Compare, AloneInv, Undisturbed
  <2> QED
    BY <2>2, <2>4, <2>5
<1>2. CASE ~(Height[received[k]] > maxHeight[k])
  <2>1. call' = [call EXCEPT ![k] = "select"] /\ received' = [received EXCEPT ![k] = FirstClient]
    BY <1>2 DEF Compare, NextSelect
  <2>2. TypeOK'
    BY <2>1 DEF Compare
  <2>3. \A j \in Calls : answered'[j] = answered[j] /\ Pending(j)' = Pending(j)
    BY <2>1 DEF Compare, Pending
  <2>4. GettersInv'
    BY <2>1, <2>3 DEF Compare, GettersInv
  <2>5. ChoiceInv'
    BY <1>2, <2>1 DEF Compare, GettersInv, ChoiceInv, Comparing, Used
  <2>6. AloneInv'
    <3> SUFFICES ASSUME NEW j \in Calls, alone'[j] PROVE Undisturbed(j)'
      BY DEF AloneInv
    <3>1. Undisturbed(j)
      BY DEF Compare, AloneInv
    <3>2. CASE j # k
      <4>1. Used(j)' = Used(j) /\ call'[j] = call[j] /\ received'[j] = received[j]
        BY <2>1, <3>2 DEF Compare, Used, Comparing
      <4> QED
        BY <2>3, <3>1, <4>1 DEF Compare, Undisturbed
    <3>3. CASE j = k
      <4>1. /\ Used(k)' = Used(k) \cup {received[k]} /\ received[k] \in answered[k]
            /\ Pending(k) /\ getter[k][received[k]] # "write"
        BY <2>1, AnswerIsUsed DEF Compare, Comparing
      <4>2. latestHeight[k][received[k]] <= maxHeight[k]
        BY <1>2, <3>1, <3>3, <4>1 DEF Undisturbed
      <4>3. \A c \in Used(k)' : latestHeight[k][c] <= maxHeight[k]
        BY <3>1, <3>3, <4>1, <4>2 DEF Undisturbed
      <4>4. maxHeightClient[k] \in Used(k)' =>
              maxHeight[k] = latestHeight[k][maxHeightClient[k]]
        <5>1. CASE maxHeightClient[k] \in Used(k)
          BY <3>1, <3>3, <4>1, <5>1 DEF Undisturbed
        <5>2. CASE maxHeightClient[k] \notin Used(k)
          BY <4>2, <4>1, <5>2 DEF ChoiceInv
        <5> QED
          BY <5>1, <5>2
      <4>5. maxHeight[k] <= latestHeight[k][maxHeightClient[k]]
        <5>1. CASE maxHeightClient[k] \in Used(k)
          BY <3>1, <3>3, <4>1, <5>1 DEF Undisturbed
        <5>2. CASE maxHeightClient[k] \notin Used(k)
          BY <5>2 DEF ChoiceInv
        <5> QED
          BY <5>1, <5>2
      <4>6. \A c \in Used(k)' : latestHeight[k][c] <= latestHeight[k][maxHeightClient[k]]
        BY <2>2, <4>1, <4>3, <4>5 DEF Used
      <4> QED
        BY <2>1, <2>3, <3>1, <3>3, <4>1, <4>3, <4>4, <4>6 DEF Compare, Undisturbed
    <3> QED
      BY <3>2, <3>3
  <2> QED
    BY <2>2, <2>4, <2>5, <2>6
<1> QED
  BY <1>1, <1>2

\* The client assigned has answered, and no used answer is larger if alone.
LEMMA AssignInv ==
  ASSUME ClientsInv, NEW k \in Calls, Assign(k) PROVE ClientsInv'
<1> USE ClientsAssumption
    DEF ClientsInv, TypeOK, CallStage, GetterStage, callVars, getterVars
<1>1. TypeOK'
  BY DEF Assign, NextSelect
<1>2. GettersInv'
  BY <1>1 DEF Assign, NextSelect, GettersInv, Pending
<1>3. ChoiceInv'
  BY <1>1
  DEF Assign, NextSelect, GettersInv, ChoiceInv, Pending, Comparing, Used
<1>4. AloneInv'
  <2> SUFFICES ASSUME NEW j \in Calls, alone'[j] PROVE Undisturbed(j)'
    BY DEF AloneInv
  <2>1. Undisturbed(j) /\ \A i \in Calls : Pending(i)' = Pending(i)
    BY DEF Assign, NextSelect, AloneInv, Pending
  <2>2. CASE j # k
    <3>1. /\ Used(j)' = Used(j) /\ call'[j] = call[j] /\ received'[j] = received[j]
          /\ maxHeight'[j] = maxHeight[j] /\ maxHeightClient'[j] = maxHeightClient[j]
      BY <2>2 DEF Assign, NextSelect, Used, Comparing
    <3> QED
      BY <2>1, <3>1 DEF Assign, Undisturbed
  <2>3. CASE j = k
    <3>1. /\ Used(k)' = Used(k) \cup {received[k]} /\ received[k] \in answered[k]
          /\ Pending(k) /\ getter[k][received[k]] # "write"
      BY AnswerIsUsed DEF Assign, NextSelect, Comparing
    <3>2. /\ maxHeight'[k] = latestHeight[k][received[k]]
          /\ maxHeightClient'[k] = received[k] /\ maxHeight'[k] > maxHeight[k]
      BY <2>1, <2>3, <3>1 DEF Assign, NextSelect, Undisturbed
    <3>3. \A c \in Used(k) : c \in Clients /\ latestHeight[k][c] <= maxHeight[k]
      BY <2>1, <2>3, <3>1 DEF Undisturbed, Used
    <3>4. \A c \in Used(k)' : latestHeight[k][c] <= maxHeight'[k]
      BY <1>1, <3>1, <3>2, <3>3
    <3> QED
      BY <2>1, <2>3, <3>1, <3>2, <3>4 DEF Assign, NextSelect, Undisturbed
  <2> QED
    BY <2>2, <2>3
<1> QED
  BY <1>1, <1>2, <1>3, <1>4

\* A call returns when all its answers are used.
LEMMA ReturnClientInv ==
  ASSUME ClientsInv, NEW k \in Calls, ReturnClient(k) PROVE ClientsInv'
<1> USE ClientsAssumption
    DEF ClientsInv, TypeOK, CallStage, GetterStage, callVars, getterVars
<1>1. TypeOK'
  BY DEF ReturnClient, WaitGroupIsDone
<1>2. GettersInv'
  BY <1>1 DEF ReturnClient, WaitGroupIsDone, GettersInv, Pending
<1>3. ChoiceInv'
  BY <1>1
  DEF ReturnClient, WaitGroupIsDone, GettersInv, ChoiceInv, Pending, Comparing, Used
<1>4. AloneInv'
  BY <1>1
  DEF ReturnClient, WaitGroupIsDone, GettersInv, ChoiceInv, AloneInv, Undisturbed,
      Pending, Comparing, Used
<1> QED
  BY <1>1, <1>2, <1>3, <1>4

\* The types of the shared clients and the callers' locals, and the three facts
\* about them: ClientsInv is an invariant of GetClient (executor/client.go).
THEOREM ClientsInvariance == Spec => []ClientsInv
<1>1. ASSUME ClientsInv, Next PROVE ClientsInv'
  <2>1. ASSUME NEW k \in Calls, GetClient(k) PROVE ClientsInv'
    BY <1>1, <2>1, StartCallInv, CompareInv, AssignInv, ReturnClientInv DEF GetClient
  <2>2. ASSUME NEW k \in Calls, NEW c \in Clients, GetClientBlockHeight(k, c)
        PROVE  ClientsInv'
    BY <1>1, <2>2, GetStatusInv, WriteHeightInv, ReceiveInv, DoneInv DEF GetClientBlockHeight
  <2> QED
    BY <1>1, <2>1, <2>2 DEF Next
<1>2. ASSUME ClientsInv, UNCHANGED vars PROVE ClientsInv'
  BY <1>2
  DEF vars, callVars, getterVars, ClientsInv, TypeOK, GettersInv, ChoiceInv, AloneInv,
      Undisturbed, Pending, Comparing, Used
<1> QED
  BY ClientsInit, <1>1, <1>2, PTL DEF Spec

\* When a call has returned, every answer it got has been used.
LEMMA AllUsed ==
  ASSUME ClientsInv, NEW k \in Calls, call[k] = "returned"
  PROVE  Used(k) = answered[k] /\ \A c \in Clients : getter[k][c] = "done"
<1>1. answered[k] \subseteq Clients /\ \A c \in Clients : getter[k][c] = "done"
  BY DEF ClientsInv, TypeOK, GettersInv, Pending
<1> QED
  BY <1>1 DEF Used, Comparing

\* For any nodes, callers and interleaving of their goroutines, GetClient returns a
\* client that has answered this very call whenever a node that always has blocks has.
\* Without that condition it is false: an answer of 0 never exceeds maxHeight.
THEOREM AnsweringClientTheorem == Spec => []ReturnsAnAnsweringClient
<1>1. ClientsInv => ReturnsAnAnsweringClient
  BY AllUsed DEF ClientsInv, ChoiceInv, ReturnsAnAnsweringClient
<1> QED
  BY ClientsInvariance, <1>1, PTL

\* For any nodes and heights, a call of GetClient that no other call overlaps returns
\* a client with the largest height.
THEOREM HighestTheorem == Spec => []ReturnsTheHighest
<1>1. ASSUME ClientsInv PROVE ReturnsTheHighest
  <2> SUFFICES ASSUME NEW k \in Calls, call[k] = "returned", alone[k], NEW c \in Clients
               PROVE  latestHeight[k][c] <= latestHeight[k][maxHeightClient[k]]
    BY DEF ReturnsTheHighest
  <2>1. TypeOK /\ Used(k) = answered[k] /\ Undisturbed(k)
    BY <1>1, AllUsed DEF ClientsInv, AloneInv
  <2>2. CASE c \in answered[k]
    BY <2>1, <2>2 DEF Undisturbed
  <2>3. CASE c \notin answered[k]
    BY <1>1, <2>1, <2>3 DEF ClientsInv, GettersInv, TypeOK
  <2> QED
    BY <2>2, <2>3
<1> QED
  BY ClientsInvariance, <1>1, PTL
=============================================================================
