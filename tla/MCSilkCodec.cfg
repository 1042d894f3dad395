\* Mid and side, packets of two frames, two losses in a row: one concealed and
\* one repaired.
CONSTANTS
    Channels = 2
    FramesPerPacket = 2
    MaxMissing = 2
    Impairments <- ImpairmentKinds
SPECIFICATION Spec
INVARIANTS TypeOK InStep MainGainsAgree SideContinues FecRepairs MemoriesAgree
