CONSTANTS
  Displays <- MCDisplays
  RuntimeDirs <- MCRuntimeDirs
  Sockets <- MCSockets
  Globals <- MCGlobals
  MaxGlobals = 3
  MaxRemovals = 1
SPECIFICATION FairSpec
INVARIANTS ConnectsAsDocumented ListsAllGlobals
PROPERTIES ListingEnds
