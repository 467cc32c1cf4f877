\* Two agents that start one after the other on a context the host seeds.
CONSTANTS
  writer = writer
  critic = critic
  None = None
  Agents = {writer, critic}
  Instructed = {critic}
  MaxMessages = 5
  MaxDepth = 3
SPECIFICATION Spec
INVARIANT FullConversation
