CONSTANTS
  IPs <- BlockIPs
  Edges <- BlockEdges
  Kind <- BlockKind
  Depth <- BlockDepth
  NumBeats = 2
  MaxBeats = 16
SPECIFICATION Spec
INVARIANT SummedPacketsOffered
