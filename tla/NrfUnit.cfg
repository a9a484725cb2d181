SPECIFICATION FairSpec
CONSTANTS
  Addresses = {a1, a2}
  NoAddress = NoAddress
  Faults <- DropsAndDelays
  MaxFaults = 3
  MaxNotes = 3
  QueueSize = 2
  MaxErrors = 1
INVARIANTS
  TypeOK
  OpenIsCurrent
  SourceIsMine
  Hears
PROPERTIES
  LineGoesHigh
  ComesUp
