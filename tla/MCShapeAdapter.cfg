CONSTANTS
  Shapes <- EvenShapes
  Blank = Blank
  Words = 16
  Bases = {0, 13}
SPECIFICATION RoutedSpec
INVARIANTS
  BytesInOrder
  FetchedInOrder
PROPERTIES
  TensorLeaves
  OneTensor
