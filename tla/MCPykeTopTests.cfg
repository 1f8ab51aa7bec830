CONSTANTS
  InsnLenBytes = 8
  InsnLenArg = 8
  Byte <- MCBytes
  ImemSize = 1000
  Images <- MCImages
  PowerOnByte = 0
  PowerOnAddr = 0
  FirstEvalTicks = FALSE
  LaneNames <- MCTwoLanes
  PcMod = 1048576
  DmemSize = 1000
  PowerOnPCs = {0}
  RegisterFiles <- MCZeroRegs
  DataMemories <- MCZeroMem
  GarbageAtoms <- MCGarbage
  GarbageWords = {0}
  MaxCycles = 10000
  WithImage = {"file"}
  AtomsPerInsn = 2
  Texts <- MCTests
SPECIFICATION Spec
PROPERTIES
  Passes
  RunsSource
  CleanStart
CHECK_DEADLOCK FALSE
