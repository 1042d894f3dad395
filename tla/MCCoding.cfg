\* Blocks of 4 samples for 16, sizes of two bytes from 4 for 252, a prime
\* with points on the unit circle.
SPECIFICATION Spec
CONSTANTS
  WideFrom = 5
  NeonUpTo = 4
  SmallK = 2
  BatchSize = 2
  BatchFrom = 3
  MaxN = 8
  MaxK = 8
  Prime = 13
  Cos = 2
  Sin = 6
  LongSize = 4
  MaxFrames = 48
  Error = Error
  Silent = Silent
  ShellLog = 2
  MaxPulses <- MCMaxPulses
  Escapes = 10
  Survivors = 2
  MaxAmp = 2
  MaxAmpExt = 4
  Unit = 8
  LevelAdj = 1
  Step = 1
  StepOne = 2
  PredOne = 4
  Full = 16
  MaxLoops = 2
  Modulus = 15361
  Generator = 7
  MaxFft = 480
  ShortSize = 4
  MaxLm = 2
  Window <- MCWindow
  Taps <- MCTaps
  Coef = 1234
  CombMin = 3
  CombMax = 8
  Jobs <- MCJobs
  Idle = Idle
PROPERTIES VectorsReturn PacketsReturn ParametersReturn TransformsReturn
CHECK_DEADLOCK FALSE
