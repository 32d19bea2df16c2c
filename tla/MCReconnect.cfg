CONSTANTS
  MaxRetry = 3
  MaxAhead = 1
SPECIFICATION FairSpec
INVARIANT TypeOK
INVARIANT OpenToPhoneWhenIdle
PROPERTY AttemptEnds
