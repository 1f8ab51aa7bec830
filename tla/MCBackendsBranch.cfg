CONSTANTS
  Width <- MCWidth
  Files <- MCPyke32
  Sources <- MCSources
  NameOrder <- MCNames
  imm_fields <- MCImm
  reg_src_fields <- MCSrc
  reg_dst_fields <- MCDst
  label_fields <- MCLabel
  atomPerInsn = 2
SPECIFICATION ToolsSpec
INVARIANTS
  BranchKept
CHECK_DEADLOCK FALSE
