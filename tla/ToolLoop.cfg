\* Two calls, two results, the default window of three rounds.
CONSTANTS
  read = read
  write = write
  same = same
  new = new
  Mixed = Mixed
  Signatures = {read, write}
  Outcomes = {same, new}
  MaxCalls = 3
  Window = 3
SYMMETRY Symmetry
SPECIFICATION Spec
INVARIANTS TypeOK HistoryPaired NoToolsAfterHalt StuckModelStops
PROPERTY HaltAfterWarning
