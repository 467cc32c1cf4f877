\* Arguments whose tokens differ, in fragments that may repeat what was sent.
CONSTANTS
  Styles = {"indexed", "indexless", "whole"}
  MaxCalls = 3
  MaxChunk = 2
  Texts <- Plain
  GivenIds <- CollidingIds
  Resends = TRUE
SPECIFICATION Spec
INVARIANTS Reassembled AnswersNameCalls
