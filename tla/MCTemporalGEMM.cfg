CONSTANTS
  NumTiles = 3
  HalfRange = 4
  Mac <- MCMac
SPECIFICATION MCSpec
INVARIANTS
  CountersRest
  OnlyCutPacketsAreStale
PROPERTIES
  DrainedBeforeOverwritten
  EveryTileLeaves
