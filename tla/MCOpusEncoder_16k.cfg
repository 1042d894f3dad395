CONSTANTS
  SamplingRate = 16
  Channels = 2
  Application = "Voip"
  Complexity = 9
  AllSettings <- Poor
  FrameSizes = {24}
  Buffers = {2, 20, 1276}
  MayBust = FALSE
SPECIFICATION Spec
INVARIANTS SilkRateAgrees SilkRestartsAfterCelt FillersConceal
