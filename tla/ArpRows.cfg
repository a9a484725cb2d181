SPECIFICATION ArpSpec
CONSTANTS
  Hosts = {h1, h2}
  NoHost = NoHost
  Writers = {driver, uplink}
  Readers = {r1}
  MAX_ARP_CACHE_ROWS = 2
SYMMETRY Interchangeable
INVARIANTS
  ArpTypeOK
  NoMixUp
  ReadsRight
