CONSTANTS
  Width <- MCWidth
  Files <- MCFiles
SPECIFICATION DecodeSpec
INVARIANTS
  TypeOK
  GroupsAgree
  LeavesExact
  Unambiguous
  CallsInOrder
  CallsExtracted
PROPERTIES
  ValuesKeptButPlain
  Terminates
  Returns
CHECK_DEADLOCK FALSE
