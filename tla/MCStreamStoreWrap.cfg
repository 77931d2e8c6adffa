CONSTANTS
  BlockCount = 2
  FragmentsPerBlock = 2
  SeqMod = 13
  OverwriteOnFull = TRUE
  Free = Free
  Foreign = Foreign
  MAX_PEEKS = 1
  MaxFaults = 0
  NoSeq = NoSeq
SPECIFICATION Spec
INVARIANT StoredIsFound
