CONSTANTS
  Processes <- TopProcesses
  Streams <- TopStreams
  Ins <- TopIns
  Outs <- TopOuts
  RowWise <- TopRowWise
  Depth <- TopDepth
  NumBeats = 8
  MaxBeats = 8
SPECIFICATION FairSpec
INVARIANT RestsOnlyWhenDone
PROPERTIES
  RowsLeave
CHECK_DEADLOCK FALSE
