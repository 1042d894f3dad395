SPECIFICATION Spec
CONSTANTS
  Edges <- MCEdges
  AllocVectors <- MCVectors
  Caps = 60
  DeepFrom = 3
  MaxPseudo = 5
  Unit = 16
  Pred = 12
  Beta = 8
  BetaIntra = 2
  Inputs <- MCInputs
  Levels <- LevelsOf
  MaxFrames = 3
  MaxLm = 2
  HybridBits = 37
  PitchLimit = 3
  MinPeriod = 15
  None = None
INVARIANTS PacketsAreUnderstood InStep FadesMatch FoldsWrittenBins RateIsKept OutputContinues
PROPERTIES ConcealmentFades PitchIsFresh
CHECK_DEADLOCK FALSE
