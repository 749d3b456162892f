CONSTANTS
  QSize = 4
  Frames = {f1, f2}
  NoFrame = NoFrame
  QUEUE_NULL = QUEUE_NULL
  MaxResend = 1
  MaxSem = 4
CHECK_DEADLOCK FALSE
SPECIFICATION Spec
INVARIANT NotLockedOut
