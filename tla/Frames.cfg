SPECIFICATION FairSpec
CONSTANTS
  Packets <- Mixed
  MaxFrame = 8
  MaxPackets = 3
  MaxLost = 2
  None = None
INVARIANTS
  TypeOK
  Lossless
  OnlyLossesForge
  Resync
  InBuffer
PROPERTY Arrives
CHECK_DEADLOCK FALSE
