CONSTANTS
  Step <- MixedStep
  T <- MixedT
  NAID <- MixedNext
  First <- MixedFirst
  NLoop <- MixedNLoop
  ErrorAction <- MixedErrorAction
  DefaultNext <- MixedDefaultNext
  SubFirst <- MixedSubFirst
  OnDecision <- MixedOnDecision
  Fragile = {"choose", "exit", "sub", "inner", "approve", "ask", "wait"}
  Consumer <- Consumers
  Exec <- Execs
  Msg <- Msgs
  Budget <- Budgets
  MaxReceive = 4
  NoStep = NoStep
  None = None
  Consumers = {c1}
  Throws = 1
  Crashes = 0
  Losses = 1
  Users = 0
  Messages = 20
  Executions = 3
SPECIFICATION Spec
INVARIANT TypeOK
 
INVARIANT LoopCompletes
INVARIANT ParentWaits
