CONSTANTS
  Step <- FlatStep
  T <- FlatT
  NAID <- FlatNext
  First <- FlatFirst
  NLoop <- NoFunction
  ErrorAction <- NoFunction
  DefaultNext <- NoFunction
  SubFirst <- NoFunction
  OnDecision <- NoFunction
  Fragile = {}
  Consumer <- Consumers
  Exec <- Execs
  Msg <- Msgs
  Budget <- Budgets
  MaxReceive = 4
  NoStep = NoStep
  None = None
  Consumers = {c1, c2}
  Throws = 0
  Crashes = 0
  Losses = 0
  Users = 0
  Messages = 9
  Executions = 1
SPECIFICATION Spec
INVARIANT JoinClosesBranches
INVARIANT JoinOnce
