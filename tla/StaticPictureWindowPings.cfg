SPECIFICATION FairSpec
CONSTANTS
  GlobalLists <- MCGlobalLists
  MaxPings = 1
  MaxConfigures = 1
PROPERTIES PingsAnswered
