SPECIFICATION FairSpec
CONSTANTS
  Hosts = {h1, h2}
  NoHost = NoHost
  Writers = {driver}
  Readers = {r1, r2}
  MAX_ARP_CACHE_ROWS = 1
INVARIANTS
  RightFrame
  LockHeld
PROPERTY GivenBack
