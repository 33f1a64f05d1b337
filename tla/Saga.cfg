CONSTANTS
  a = a
  b = b
  c = c
  question = question
  Calls <- TwoCalls
  PromptOf <- SamePrompt
  ToolCalls = {}
  Prices <- DearThenCheap
  MaxUnits = 2
  Limit = 6
  BlockAtLimit = TRUE
  Capture = TRUE
  Scenarios <- ChatsAndStreams
SPECIFICATION Spec
INVARIANTS
  CountersExplained
  AnsweredIsAccounted
  UsageMatchesLedger
PROPERTIES
  SagaKeepsPromise
