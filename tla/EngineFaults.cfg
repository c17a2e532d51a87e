CONSTANTS
  Step <- PairStep
  T <- PairT
  NAID <- PairNext
  First <- PairFirst
  NLoop <- NoFunction
  ErrorAction <- NoFunction
  DefaultNext <- NoFunction
  SubFirst <- NoFunction
  OnDecision <- NoFunction
  Fragile = {}
  Consumer <- Consumers
  Exec <- Execs
  Msg <- Msgs
  Budget <- Budgets
  MaxReceive = 4
  NoStep = NoStep
  None = None
  Consumers = {c1}
  Throws = 0
  Crashes = 1
  Losses = 0
  Users = 0
  Messages = 14
  Executions = 1
SPECIFICATION FairSpec
INVARIANT JoinOnce
INVARIANT EarlierResults
PROPERTY Drains
