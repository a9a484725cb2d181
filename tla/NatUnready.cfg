SPECIFICATION Spec
CONSTANTS
  c1 = c1
  c2 = c2
  s1 = s1
  s2 = s2
  Clients = {c1}
  EthPorts = {1}
  Servers = {s1}
  Traffic <- TrafficOfOne
  MaxRows = 2
  PortsPerRow = 1
  PortBase = 8
  PmapTimeout = 1
  ClockMod = 2
  ReadySets = {{}, {1}, {2}, {3}, {1, 2}, {1, 3}, {2, 3}, {1, 2, 3}}
  MaxDue = 0
PROPERTY SentToReady
