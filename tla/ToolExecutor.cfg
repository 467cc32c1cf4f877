\* Every batch of up to five calls, two pool threads.
SPECIFICATION FairSpec
CONSTANTS
  MaxCalls = 5
  MaxWorkers = 2
INVARIANTS
  EndsCleanly
PROPERTIES
  KeepsBatch
  Terminates
