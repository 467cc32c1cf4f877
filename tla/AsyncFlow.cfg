\* One call of the host, up to three visits, retries, two agents.
SPECIFICATION FairSpec
CONSTANTS
  Agents = {a, b}
  NoAgent = NoAgent
  Traced = {b}
  Task = Task
  Threads = {t1}
  NoThread = NoThread
  HostCaps = {3}
  Gives = {TRUE, FALSE}
  InnerCap = 2
  Retries = 2
  MaxCalls = 1
  MaxRuns = 1
INVARIANTS
  TypeOK
  OneVerdictEach
  ContextFollowsCalls
PROPERTIES
  CancelledTaskUnwinds
  AsyncRunsEnd
