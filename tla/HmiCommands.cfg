CONSTANTS
  NCmd = 1
  NCb = 1
  Values = {0, 1}
  Zero = 0
  BootValue = 1
  MaxFrames = 3
SPECIFICATION FairSpec
INVARIANTS
  TypeOK
  Followed
  StaleOnlyFirst
PROPERTIES
  FlagsServed
