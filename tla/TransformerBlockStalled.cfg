CONSTANTS
  IPs <- BlockIPs
  Edges <- BlockEdges
  Kind <- BlockKind
  Depth <- BlockDepth
  NumBeats = 2
  MaxBeats = 10
SPECIFICATION Spec
INVARIANT EdgesInStep
