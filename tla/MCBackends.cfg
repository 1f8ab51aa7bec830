CONSTANTS
  Width <- MCWidth
  Files <- MCFiles
  Sources <- MCSources
  NameOrder <- MCNames
  imm_fields <- MCImm
  reg_src_fields <- MCSrc
  reg_dst_fields <- MCDst
  label_fields <- MCLabel
  atomPerInsn = 2
SPECIFICATION ToolsSpec
INVARIANTS
  TableExact
  ReadsBack
  Pyke32Invertible
  TableIsGenerated
  AssemblesAs
CHECK_DEADLOCK FALSE
