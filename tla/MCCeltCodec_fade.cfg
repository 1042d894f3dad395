SPECIFICATION Spec
CONSTANTS
  Edges <- MCEdges
  AllocVectors <- MCVectors
  Caps = 60
  DeepFrom = 3
  MaxPseudo = 5
  Unit = 16
  Pred = 12
  Beta = 8
  BetaIntra = 2
  Inputs <- CheapInputs
  Levels <- LevelsOf
  MaxFrames = 3
  MaxLm = 2
  HybridBits = 37
  PitchLimit = 3
  MinPeriod = 15
  None = None
INVARIANT FadesAlwaysMatch
CHECK_DEADLOCK FALSE
