SPECIFICATION Spec
CONSTANTS
  c1 = c1
  c2 = c2
  s1 = s1
  s2 = s2
  Clients = {c1, c2}
  EthPorts = {1}
  Servers = {s1, s2}
  Traffic <- TrafficOfTwo
  MaxRows = 2
  PortsPerRow = 1
  PortBase = 8
  PmapTimeout = 2
  ClockMod = 3
  ReadySets = {{1}}
  MaxDue = 1
INVARIANTS
  TypeOK
  PortsUnique
  OneRowPerFlow
  NoCrossTalk
  Answerable
  GeneratorEnds
PROPERTY IsPortMapping
