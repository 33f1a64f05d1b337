CONSTANTS
  a = a
  b = b
  c = c
  question = question
  Calls <- ThreeCalls
  PromptOf <- SamePrompt
  ToolCalls = {}
  Prices <- OneDeployment
  MaxUnits = 4
  Limit = 8
  BlockAtLimit = TRUE
  Capture = FALSE
  Scenarios <- StreamAmongEmbeddings
SPECIFICATION Spec
INVARIANTS
  ServedWithinLimit
