SPECIFICATION FairSpec
CONSTANTS
  Size = 4
  Frames <- RingFrames
  Mtu = 1280
  None = None
INVARIANTS
  TypeOK
  SlotsApart
PROPERTIES
  SentIntact
  IsQueue
  HeadLeaves
