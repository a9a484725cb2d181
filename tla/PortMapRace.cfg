SPECIFICATION Spec
CONSTANTS
  s1 = s1
  Clients = {c1, c2}
  EthPorts = {1}
  Servers = {s1}
  Traffic <- TrafficOfTwo
  Ports = {p1, p2, p3}
  Sender = sender
  Receivers = {r1}
  MAX_PMAP_ROWS = 2
INVARIANTS
  TypeOK
  ReadsRight
  SentRight
  RowsApart
SYMMETRY Interchangeable
