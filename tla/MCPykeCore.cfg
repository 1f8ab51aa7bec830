CONSTANTS
  LaneNames <- MCFourLanes
  AtomsPerInsn = 4
  PcIncr = 16
  PcMod = 1048576
  ImemSize = 4
  DmemSize = 3
  ResetPC = 32768
  Programs <- MCPrograms
  PowerOnPCs <- MCPowerOn
  RegisterFiles <- MCRegisters
  DataMemories <- MCMemories
  GarbageAtoms <- MCNoGarbage
  GarbageWords = {48879}
  Sources <- MCSources
  MaxTicks = 3
SPECIFICATION MCSpec
INVARIANTS
  TypeOK
PROPERTIES
  IdleCoreHolds
  RunsIsa
  LanesSerialise
