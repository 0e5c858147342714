CONSTANTS
  i1 = i1
  i2 = i2
  p1 = p1
  p2 = p2
  Inodes <- MCInodes
  Procs <- MCProcs
  InodeOf <- MCInodeOf
  NEp = 3
  MaxLogs = 3
  MaxEpochSeq = 3
  MaxAllocFail = 0
  MaxCpInfoFail = 0
SPECIFICATION Spec
INVARIANT NoLogLostToFreedBatch
