CONSTANTS
  env0 = env0
  env1 = env1
  tick = tick
  NoMsg = NoMsg
  Msg <- MCMsg
  EnvWrite <- MCEnvWrite
  Count = 4
  Laps = 2
  Nest = 1
SPECIFICATION Spec
INVARIANT TypeOK
INVARIANT StatusAgrees
PROPERTY EnvWriteNotDoubled
PROPERTY IsFifo
