CONSTANT MaxNode = 6
CONSTANT FirstTry = 3
CONSTANT Margin = 2
CONSTANT PacketFrames = 2
CONSTANT Room = 2
CONSTANT MaxAcl = 3
SPECIFICATION FairSpec
INVARIANT TypeOK
INVARIANT PoolConserved
INVARIANT NoStaleAudio
INVARIANT DacOpenIffUsed
PROPERTY StartsWithCushion
PROPERTY FlowReopens
