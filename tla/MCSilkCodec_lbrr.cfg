\* Mono, packets of 40 ms, one loss: the second frame has LBRR, the first has
\* not.
CONSTANTS
    Channels = 1
    FramesPerPacket = 2
    MaxMissing = 1
    Impairments <- ImpairmentKinds
SPECIFICATION Spec
INVARIANTS LbrrGainsAgree
