CONSTANTS
  SamplingRate = 48
  Channels = 1
  Application = "Voip"
  Complexity = 9
  AllSettings <- Voice
  FrameSizes = {4, 8}
  Buffers = {1276}
  MayBust = FALSE
SPECIFICATION Spec
INVARIANTS SilkGeometryAgrees
