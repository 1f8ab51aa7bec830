CONSTANTS
  InsnLenBytes = 16
  InsnLenArg = 16
  Byte <- MCBytes
  ImemSize = 1000
  Images <- MCImages
  PowerOnByte = 0
  PowerOnAddr = 0
  FirstEvalTicks = FALSE
  LaneNames <- MCFourLanes
  PcMod = 1048576
  DmemSize = 1000
  PowerOnPCs = {0}
  RegisterFiles <- MCZeroRegs
  DataMemories <- MCZeroMem
  GarbageAtoms <- MCGarbage
  GarbageWords = {0}
  MaxCycles = 40
  WithImage = {"file"}
  AtomsPerInsn = 4
  Texts <- MCSimple
SPECIFICATION Spec
PROPERTIES
  Passes
CHECK_DEADLOCK FALSE
