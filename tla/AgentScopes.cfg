\* Two agents, one with instructions, on one context.
CONSTANTS
  writer = writer
  critic = critic
  None = None
  Agents = {writer, critic}
  Instructed = {critic}
  MaxMessages = 5
  MaxDepth = 3
SPECIFICATION Spec
INVARIANTS TypeOK PromptIsolated MessagesKept HistoryInOrder
PROPERTY PromptsGrow
