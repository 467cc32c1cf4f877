\* Nested, retried, traced and cancelled runs: two calls by the host.
SPECIFICATION FairSpec
CONSTANTS
  NoNode = NoNode
  Inherit = Inherit
  HostEvent = HostEvent
  NoEvent = NoEvent
  NonString = NonString
  Actions = {"default", "stop"}
  Start = "lead"
  Nodes <- MCNodes
  Succ <- MCSucc
  Retries <- MCRetries
  Inner <- MCInner
  Cap <- MCCap
  Calls <- MCCalls
  Expose <- MCExpose
  Scopes = {"sub", "tools"}
  Catchers = {"tools"}
  Tracers = {"tools"}
  OwnCancel = {"tools"}
  RootCaps = {1, 3, 6, 9}
  MaxRuns = 2
INVARIANTS
  TypeOK
  BudgetExact
  DynamicScope
  WellBracketed
  OneVerdict
PROPERTIES
  CancelUnwinds
  KeepsPromise
  Terminates
