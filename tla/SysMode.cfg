SPECIFICATION FairCabinetSpec
CONSTANTS
  b1 = b1
  uFail = uFail
  D1 = 3
  D2 = 2
  Boards <- MCBoards
  OutCons <- MCOutCons
  DevTestCmds <- MCDevTestCmds
  BusVoltOKInputs <- MCAnyBus
  Faults <- MCFaults
  Severe <- MCFaults
  Sensor <- MCFaults
  OverCurrent <- MCNoFaults
  SensorBoard <- MCSensorBoard
  ConTime <- MCConTime
  DisTime <- MCDisTime
INVARIANTS
  TypeOK
  NoOutputInChargeMode
  MainsInOrder
  ModesAgree
PROPERTIES
  MainsWaitForPrecharge
  KeptUnderLoad
  TripsOpen
  Debounced
  RecoversFromTrip
