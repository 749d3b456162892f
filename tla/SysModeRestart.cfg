SPECIFICATION CabinetSpec
CONSTANTS
  b1 = b1
  uFail = uFail
  D1 = 3
  D2 = 2
  Boards <- MCBoards
  OutCons <- MCOutCons
  DevTestCmds <- MCDevTestCmds
  BusVoltOKInputs <- MCAnyBus
  Faults <- MCFaults
  Severe <- MCFaults
  Sensor <- MCFaults
  OverCurrent <- MCNoFaults
  SensorBoard <- MCSensorBoard
  ConTime <- MCConTime
  DisTime <- MCDisTime
PROPERTY EveryStartPrecharges
