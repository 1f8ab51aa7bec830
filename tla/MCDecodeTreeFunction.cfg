CONSTANTS
  Width <- MCWidth
  Files <- MCConfused
SPECIFICATION DecodeSpec
PROPERTIES
  ValuesKept
CHECK_DEADLOCK FALSE
