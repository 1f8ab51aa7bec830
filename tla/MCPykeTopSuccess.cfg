CONSTANTS
  InsnLenBytes = 8
  InsnLenArg = 8
  Byte <- MCBytes
  ImemSize = 4
  Images <- MCImages
  PowerOnByte = 0
  PowerOnAddr = 0
  FirstEvalTicks = FALSE
  LaneNames <- MCTwoLanes
  PcMod = 1048576
  DmemSize = 3
  PowerOnPCs = {0}
  RegisterFiles <- MCZeroRegs
  DataMemories <- MCZeroMem
  GarbageAtoms <- MCGarbage
  GarbageWords = {0}
  MaxCycles = 6
  WithImage = {"file"}
  AtomsPerInsn = 2
  Texts <- MCSuccessThenFail
SPECIFICATION Spec
PROPERTIES
  SuccessStands
CHECK_DEADLOCK FALSE
