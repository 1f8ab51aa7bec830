CONSTANTS
  InsnLenBytes = 8
  InsnLenArg = 8
  Byte = {0, 1}
  ImemSize = 3
  Images <- MCImages
  PowerOnByte = 1
  PowerOnAddr = 8191
  FirstEvalTicks = FALSE
SPECIFICATION Spec
INVARIANTS
  TypeOK
  LoadedImage
PROPERTIES
  AddressLatched
  LoadsInOrder
CHECK_DEADLOCK FALSE
