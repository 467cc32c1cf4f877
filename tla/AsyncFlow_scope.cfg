\* One call of the host of two visits.
SPECIFICATION Spec
CONSTANTS
  Agents = {a, b}
  NoAgent = NoAgent
  Traced = {b}
  Task = Task
  Threads = {t1}
  NoThread = NoThread
  HostCaps = {2}
  Gives = {TRUE, FALSE}
  InnerCap = 2
  Retries = 2
  MaxCalls = 1
  MaxRuns = 1
INVARIANT
  ContextGivenBack
