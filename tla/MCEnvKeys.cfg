CONSTANTS
  d1 = d1
  d2 = d2
  d3 = d3
  k1 = k1
  NoAddr = NoAddr
  NoKey = NoKey
  TornKey = TornKey
  Addr <- Devices
  Key <- Keys
  Slots = 2
SPECIFICATION Spec
SYMMETRY Symmetry
INVARIANT TypeOK
INVARIANT TableWellFormed
INVARIANT ControllerAgrees
INVARIANT LastConnectedIsActive
PROPERTY EvictsOldest
