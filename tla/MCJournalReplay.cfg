CONSTANTS
  EntriesPerBlock = 2
  BlocksPerFile = 2
  PagesPerBio = 1
  Types <- MCTypes
  Sizes <- MCSizes
SPECIFICATION Spec
INVARIANT ReplayIsValidPrefix
INVARIANT ReadCoversFile
INVARIANT AcceptedRecordsFitEntry
\* Replay runs once at mount and returns; the model ends there.
CHECK_DEADLOCK FALSE
