CONSTANTS
  Processes = {p1, p2}
  NoRecord = NoRecord
  Intents = {i1}
  MaxSignings = 1
  MaxFaults = 1
SPECIFICATION FairSpec
PROPERTY FinalizedIsReported
