CONSTANTS
  Processes = {p1, p2}
  NoRecord = NoRecord
  Intents = {i1, i2}
  MaxSignings = 2
  MaxFaults = 2
  LastOperation = 3
  Checkpointed = {3}
  MaxSigned = 2
  MaxFailures = 1
SYMMETRY JournalSymmetry
SPECIFICATION JournalsSpec
INVARIANTS
  AtMostOneSend
  SentIsJournaled
  ReportsAreFinal
  SetupSendsOnce
PROPERTY PhaseOnlyAdvances
