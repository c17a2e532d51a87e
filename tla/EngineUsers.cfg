CONSTANTS
  Step <- AloneStep
  T <- MixedT
  NAID <- AloneNext
  First <- MixedFirst
  NLoop <- MixedNLoop
  ErrorAction <- MixedErrorAction
  DefaultNext <- MixedDefaultNext
  SubFirst <- MixedSubFirst
  OnDecision <- MixedOnDecision
  Fragile = {"exit", "left"}
  Consumer <- Consumers
  Exec <- Execs
  Msg <- Msgs
  Budget <- Budgets
  MaxReceive = 2
  NoStep = NoStep
  None = None
  Consumers = {c1}
  Throws = 0
  Crashes = 0
  Losses = 0
  Users = 2
  Messages = 14
  Executions = 1
SPECIFICATION Spec
INVARIANT NeverStranded
