SPECIFICATION Spec
CONSTANTS
  Size = 3
  Frames <- EdgeFrames
  Mtu = 1280
  None = None
INVARIANT MtuFits
