CONSTANTS
  BlockCount = 2
  FragmentsPerBlock = 2
  SeqMod = 12
  OverwriteOnFull = TRUE
  Free = Free
  Foreign = Foreign
  MAX_PEEKS = 2
  MaxFaults = 2
  NoSeq = NoSeq
SPECIFICATION Spec
 
PROPERTY OldestOverwrittenFirst
