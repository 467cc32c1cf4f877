\* A standard stream: an index in every fragment, nothing sent twice.
CONSTANTS
  Styles = {"indexed"}
  MaxCalls = 1
  MaxChunk = 1
  Texts <- Nested
  GivenIds <- OneId
  Resends = FALSE
SPECIFICATION Spec
INVARIANT DeltasAdded
