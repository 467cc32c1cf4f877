\* Every batch of up to four calls, two workers.
SPECIFICATION FairSpec
CONSTANTS
  MaxCalls = 4
  MaxWorkers = 2
INVARIANTS
  Leftovers
PROPERTIES
  AsyncKeepsBatch
  AsyncTerminates
