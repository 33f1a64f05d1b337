CONSTANTS
  sam = sam
  ann = ann
  bea = bea
  uma = uma
  vic = vic
  look = look
  send = send
  this = this
  that = that
  Callers <- AllCallers
  Actors <- AllActors
  Tools <- AllTools
  Args <- AllArgs
  Risky <- RiskyTools
  Builtin <- FreeTools
  DefaultRate = 9
  MaxSteps = 3
  MaxTurns = 3
  Scenarios <- AllScenarios
  Inputs <- AllInputs
  Settings <- AllSettings
  Scores = {0, 2}
  Latencies = {1, 3}
  Exchanges <- AllExchanges
  MaxDepth = 4
  WalkDepth = 32
  Movers <- BothParts
SPECIFICATION EitherSpec
INVARIANTS
  ApprovalsHonoured
  EffectsAudited
  TurnsKept
  RestsDecided
  DocumentsFound
  RedactedAsFound
  VerdictsMeasured
  CallsAsAsked
  EvaluatesAsWritten
  ShownAsRecorded
