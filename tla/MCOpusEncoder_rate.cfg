CONSTANTS
  SamplingRate = 16
  Channels = 1
  Application = "Voip"
  Complexity = 9
  AllSettings <- NarrowFec
  FrameSizes = {8}
  Buffers = {1276}
  MayBust = FALSE
SPECIFICATION Spec
INVARIANTS SilkRateAgrees
