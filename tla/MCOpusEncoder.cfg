CONSTANTS
  SamplingRate = 48
  Channels = 1
  Application = "Voip"
  Complexity = 9
  AllSettings <- Voice
  FrameSizes = {4, 8, 16}
  Buffers = {20, 1276}
  MayBust = TRUE
SPECIFICATION Spec
INVARIANTS TypeOK PacketLasts ModeAgrees CeltBandsAgree SingleConfig
PROPERTIES ModeSettles
