------------------------------- MODULE Monitor -------------------------------
(***************************************************************************)
(* The Monitor goroutine (monitor/monitor.go): it walks the chain block by *)
(* block and saves each block with the challenges it starts.               *)
(***************************************************************************)
EXTENDS Executor

CONSTANT
  MalformedBlocks   \* heights of blocks with an event that parseEvents rejects

VARIABLE
  nextHeight     \* result of calNextHeight in the running poll, 0 between polls

monitorVars == <<nextHeight>>

ASSUME MonitorAssumption == MalformedBlocks \subseteq Nat

\* GetLatestBlock: the zero block when the table is empty.
LatestBlock(h) == \/ h = 0 /\ blocks = {}
                  \/ h \in blocks /\ \A b \in blocks : b <= h

\* Mutation of CalNextHeight: the saved blocks are ignored.
ResumeAtLatestHeight ==
  \E h \in Heights : GetLatestBlockHeight(h) /\ nextHeight' = h

\* Mutation of CalNextHeight: the last saved block is polled again.
RepeatLatestBlock ==
  \E h \in Heights : /\ GetLatestBlockHeight(h)
                     /\ nextHeight' = IF blocks = {} THEN h
                                      ELSE CHOOSE b \in blocks : LatestBlock(b)

CalNextHeight ==
  \/ /\ LatestBlock(0)
     /\ \E h \in Heights : GetLatestBlockHeight(h) /\ nextHeight' = h
  \/ /\ LatestBlock(0) /\ RpcFaults
     /\ \E h \in Heights : GetCachedBlockHeight(h) /\ nextHeight' = h
  \/ \E b \in blocks :
       /\ LatestBlock(b)
       /\ \E h \in Heights : GetLatestBlockHeight(h)
       /\ nextHeight' = b + 1

\* The poll ends in error.
BlockUnavailable ==
  /\ BlockUnavailableAtHeight(nextHeight)
  /\ UNCHANGED tableVars

\* parseEvents and EntitiesToDtos: the challenges that the block's transactions
\* and its end start.  Their attributes are constants of Tables.
ParseEvents(h) == {c \in Challenges : EventHeight[c] = h}

\* parseEvents returns an error, now and at every later poll of this height.
ParseFails(h) == h \in MalformedBlocks

\* monitorChallengeEvents
BlockRetrieved ==
  /\ GetBlockAndBlockResultAtHeight(nextHeight)
  /\ \/ ParseFails(nextHeight) /\ UNCHANGED <<blocks, status>>
     \/ /\ ~ParseFails(nextHeight)
        /\ \E o \in Outcomes : SaveBlockAndEvents(nextHeight, ParseEvents(nextHeight), o)
  /\ UNCHANGED <<verifyResult, votes>>

Poll ==
  /\ nextHeight # 0
  /\ BlockUnavailable \/ BlockRetrieved
  /\ nextHeight' = 0
  /\ UNCHANGED height

MonitorNext ==
  /\ \/ nextHeight = 0 /\ CalNextHeight /\ UNCHANGED tableVars
     \/ Poll
  /\ UNCHANGED allButHeight

MonitorInit == nextHeight = 0

MonitorRestart == nextHeight' = 0

MonitorTypeOK == nextHeight \in 0 .. MaxHeight + 1 /\ blocks \subseteq Heights

-----------------------------------------------------------------------------

\* No height is skipped: the saved blocks are consecutive, although polls fail,
\* lag behind or are cut short by a restart (calNextHeight continues from the
\* last saved block).
NoGap == \A a, b \in blocks : \A h \in a .. b : h \in blocks

\* A challenge has a row exactly when its block is saved: the block and its
\* events are one transaction, and no block is replayed or passed over.
NoMissedEvent == \A c \in Challenges : EventHeight[c] \in blocks <=> HasRow(c)
=============================================================================
