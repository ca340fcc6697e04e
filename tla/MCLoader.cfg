SPECIFICATION Spec
CONSTANTS
  Base = 8
  LZ_MAX_OFFSET = 100
  Images <- MCImages
  MemTop = 112
  LDR_LOAD_ADDR = 0
  Starts = {0, 20, 48}
  Text = 12
  CfgAt = 4
  CfgSize = 3
  IPL_LOAD_ADDR = 12
  IPL_RELOC_TOP = 68
INVARIANTS TypeOK NotOvertaken Unpacked PackedFits
