SPECIFICATION Spec
CONSTANTS
  Width = 2
  Polynomial = 7
  Nodes = {n1, n2}
  Contents <- MCContents
  PieceSize = 3
  SegmentSize = 9
  DefaultPieceSize = 3
  DefaultSegmentSize = 9
  InitialParity = 40
  RandomBytes = {0, 3}
  Projections <- MCProjections
  MaxMoves = 1
SYMMETRY NodeSymmetry
INVARIANTS
  PiecesConsistent
  ReadReturnsContent
  RepairIndependent
  RepairsDoNotCollide
CHECK_DEADLOCK FALSE
