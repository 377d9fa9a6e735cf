CONSTANTS
  Depth = 3
  PtrWidth = 2
  Data = {d0, d1}
  Zero = d0
SPECIFICATION FairSpec
INVARIANTS
  PointersAgree
PROPERTIES
  HeldUntilTaken
  ImplementsFIFO
  OldestLeaves
