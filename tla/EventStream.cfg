SPECIFICATION Spec
CONSTANTS
  Flow = 0
  Workers = {1, 2}
  NoThread <- NobodyHolds
  Listeners <- AllOrNothing
  RetainPayloads = TRUE
  Reported <- CachedAtLeast
  MaxRuns = 2
  MaxVisits = 1
  MaxWork = 3
  MaxActs = 1
INVARIANTS TypeOK OrderedBySeq HostHearsAll TraceOfRun UsageOfRun VerdictUnlessRaised
           NobodyWaitsForLong
