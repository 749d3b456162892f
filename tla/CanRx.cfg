CONSTANTS
  QSize = 4
  Frames = {f1, f2}
  NoFrame = NoFrame
  QUEUE_NULL = QUEUE_NULL
  MaxSem = 7
SPECIFICATION FairSpec
INVARIANTS
  TypeOK
  RingConsistent
  NoLostWakeup
  FullIsServed
  InServiceIntact
  BacklogIntact
PROPERTIES
  ImplementsChannel
  FullClears
