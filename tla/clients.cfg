SPECIFICATION FairSpec
CONSTANTS
  c1 = c1
  c2 = c2
  k1 = k1
  k2 = k2
  Clients <- TwoClients
  FirstClient = c1
  Calls <- TwoCalls
  NodeHeights <- EmptyOrSynced
INVARIANTS
  ClientsInv
  ReturnsAnAnsweringClient
  ReturnsTheHighest
PROPERTIES
  EveryCallReturns
