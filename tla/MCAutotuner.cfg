CONSTANTS
  Specs <- AllSpecs
  Results <- Measured
  TopNs = {1, 3, 125}
  Unit = 128
  Infinity = 2147483647
SPECIFICATION TunerSpec
INVARIANTS
  BestFound
  NearBestReturned
