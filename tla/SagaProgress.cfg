CONSTANTS
  a = a
  b = b
  c = c
  question = question
  Calls <- TwoCalls
  PromptOf <- SamePrompt
  ToolCalls = {}
  Prices <- OneDeployment
  MaxUnits = 2
  Limit = 4
  BlockAtLimit = TRUE
  Capture = FALSE
  Scenarios <- Progress
SPECIFICATION FairSpec
PROPERTIES
  EveryCallEnds
  HoldsResolve
