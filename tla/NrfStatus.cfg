SPECIFICATION FairSpec
CONSTANTS
  Addresses = {a1, a2}
  NoAddress = NoAddress
  Faults <- Drops
  MaxFaults = 1
  MaxNotes = 3
  QueueSize = 1
  MaxErrors = 0
PROPERTY StatusFollows
