CONSTANTS
  Len = 2
  Port = 1
  sendTick = 2
  CAN_RX_TIME = 2
  NVersions = 2
  MaxDataLen = 1
  MaxQueued = 1
  MaxCanCnt = 3
SPECIFICATION Spec
INVARIANTS
  TypeOK
  AppIsAccepted
  SilentReported
  NoEarlyLoss
PROPERTIES
  AcceptedWhole
