\* Two calls of the host, with a cancel event or without: the second may run
\* next to an orphan of the first. A thread visits up to two nodes.
SPECIFICATION Spec
CONSTANTS
  Agents = {a}
  NoAgent = NoAgent
  Traced = {}
  Task = Task
  Threads = {t1}
  NoThread = NoThread
  HostCaps = {3}
  Gives = {TRUE, FALSE}
  InnerCap = 2
  Retries = 1
  MaxCalls = 1
  MaxRuns = 2
INVARIANTS
  BudgetOfOwnCall
  CancelReachesThreads
