SPECIFICATION FairSpec
CONSTANTS
  Size = 2
  Sections = 2
  MaxNotes = 2
CHECK_DEADLOCK FALSE
INVARIANTS
  NoStopOnPair
  NoOrphan
  MarkedInPlay
PROPERTIES
  NoPlayAfterStop
  CommandsServed
  EndsHeard
