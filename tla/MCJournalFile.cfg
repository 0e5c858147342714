CONSTANTS
  w1 = w1
  w2 = w2
  Writers <- MCWriters
  EntriesPerBlock = 2
  BlocksPerFile = 5
  FileStart = 1
  BioPages = 2
  MaxAllocs = 11
  MaxCommits = 3
  AddrWrap = 1073741824
  FreeThreshold = 1
SPECIFICATION Spec
INVARIANT TypeOK
