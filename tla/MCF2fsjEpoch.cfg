CONSTANTS
  i1 = i1
  i2 = i2
  p1 = p1
  p2 = p2
  Inodes <- MCInodes
  Procs <- MCProcs
  InodeOf <- MCInodeOf
  NEp = 3
  MaxLogs = 2
  MaxEpochSeq = 3
  MaxAllocFail = 1
  MaxCpInfoFail = 1
SPECIFICATION FairSpec
INVARIANT TypeOK
INVARIANT LogConservation
INVARIANT AggregationOrderPreserved
 
INVARIANT SlotMapExclusive
PROPERTY EpochRingRefinement
PROPERTY SealedEpochDrained
