CONSTANTS
  NumBanks = 2
  AddrSize = 2
  LenSize = 4
  Word <- MCWord
SPECIFICATION MCFairSpec
INVARIANTS
  ReadKeepsPlace
PROPERTIES
  OnlyConflictsLose
  BurstsLeavePrefixes
  ReadBurstEnds
