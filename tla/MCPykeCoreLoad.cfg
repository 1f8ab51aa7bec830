CONSTANTS
  LaneNames <- MCLanes
  AtomsPerInsn = 2
  PcIncr = 8
  PcMod = 1048576
  ImemSize = 4
  DmemSize = 3
  ResetPC = 32768
  Programs <- MCPrograms
  PowerOnPCs <- MCPowerOn
  RegisterFiles <- MCRegisters
  DataMemories <- MCLoadMemories
  GarbageAtoms <- MCNoGarbage
  GarbageWords = {48879}
  Sources <- MCLoadSources
  MaxTicks = 3
SPECIFICATION MCSpec
INVARIANTS
  LoadsMemory
