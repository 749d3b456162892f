SPECIFICATION FairSpec
CONSTANTS
  c1 = c1
  c2 = c2
  Cb1 = c1
  START_T = 2
  FLOAT_T = 1
  Modules <- MCOne
  ModeCmds <- MCAll
INVARIANTS
  TypeOK
  DelayAccount
PROPERTIES
  ArrivalWaits
  StopsUnlessManual
