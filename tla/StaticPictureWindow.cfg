CONSTANTS
  GlobalLists <- MCGlobalLists
  MaxPings = 2
  MaxConfigures = 2
SPECIFICATION FairSpec
INVARIANTS NewIdsInOrder RequestsOfKnownObjects ContentAfterAck
  ExitsForReason
PROPERTIES ConstructorEnds CloseEndsWait EarlyPingsAnswered
