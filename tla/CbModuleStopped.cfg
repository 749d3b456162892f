SPECIFICATION FairSpec
CONSTANTS
  c1 = c1
  c2 = c2
  Cb1 = c1
  START_T = 1
  FLOAT_T = 1
  Modules <- MCOne
  ModeCmds <- MCManual
PROPERTY StoppedStopsCharging
