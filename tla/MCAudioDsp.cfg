CONSTANT MaxLate = 2
SPECIFICATION FairSpec
INVARIANT TypeOK
INVARIANT NoLostWakeup
INVARIANT InStep
INVARIANT RequestReachesDsp
PROPERTY GateStaysOpen
PROPERTY OperationEnds
