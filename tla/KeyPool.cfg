\* Two concurrent walks over three keys.
SPECIFICATION Spec
CONSTANTS
  Request = {r1, r2}
  KeyCount = 3
  Cooldown = 1
  NoKey = NoKey
INVARIANT PoolInv
PROPERTY QueuesRotate
SYMMETRY RequestSymmetry
