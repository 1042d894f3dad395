\* A stereo decoder at the rate of wideband SILK, whose bridges are resampled
\* from 8 and 12 kHz and not from 16.
CONSTANTS
    SamplingRate = 16
    Channels = 2
    MaxFrames = 3
    MaxLost = 13
    Impairments <- ImpairmentKinds
SPECIFICATION FairSpec
INVARIANTS TypeOK SilkContinuesOutput RightContinuesLeft BridgeConceals
INVARIANTS CeltContinuesOutput SentRedundancyContinues
PROPERTIES LossKeepsSilkRate CallReturns
