CONSTANTS
  Types <- MCTypes
  Inos <- MCInos
  Nids <- MCNids
  Segnos <- MCSegnos
  Uids <- MCUids
SPECIFICATION Spec
INVARIANT ClassifyMatchesSpec
\* One record is written and classified; the model ends there.
CHECK_DEADLOCK FALSE
