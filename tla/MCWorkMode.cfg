CONSTANT MaxEnv = 2
SPECIFICATION FairSpec
INVARIANT TypeOK
INVARIANT OneSource
INVARIANT NoStaleRequest
PROPERTY EntryEnds
PROPERTY MissingMediumIsLeft
PROPERTY PowerDownEnds
