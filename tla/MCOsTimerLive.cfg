\* Ticks arrive between list operations only.
CONSTANTS
  t1 = t1
  t2 = t2
  t3 = t3
  Null = Null
  Other = Other
  Timer <- TwoTimers
  Delay = {1, 2}
  Step = {1, 2}
  Retry = 1
  Cap = 2
  Others = 1
  Preempt = FALSE
SPECIFICATION FairSpec
PROPERTY DueRuns
PROPERTY TickEnds
