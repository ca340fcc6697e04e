SPECIFICATION Spec
CONSTANTS
  Packages <- MCPackages
  Code = 1
  NX_BOOTLOADER = NX_BOOTLOADER
  SECURE_MONITOR_1 = SECURE_MONITOR_1
  SECURE_MONITOR_2 = SECURE_MONITOR_2
  MaxCalls = 2
INVARIANTS TypeOK ExtractedIsWarmboot RefusedForAReason CleanedUp
