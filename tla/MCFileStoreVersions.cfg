CONSTANTS
  DataBlocks = 2
  FragmentsPerBlock = 1
  VersionMod = 8
  MaxCalls = 6
  MaxFaults = 0
  Free = Free
SPECIFICATION Spec
INVARIANTS RewriteSucceeds
