CONSTANTS
  v1 = v1
  v2 = v2
  Blank = Blank
  Value = {v1, v2}
  Pages = 2
  Blocks = 3
SPECIFICATION Spec
INVARIANT TaggedBlockIsWhole
