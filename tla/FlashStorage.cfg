CONSTANTS
  NCat = 3
  NPar = 4
  FORWARD = 3
  MAX_RETRY_TIMES = 3
  Values = {v1, v2}
  NoBlock = NoBlock
  MaxId = 5
  MaxFaults = 1
SPECIFICATION Spec
INVARIANTS
  TypeOK
  RestartFindsNewest
  KeepsLastStored
SYMMETRY ValueSymmetry
