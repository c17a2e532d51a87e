CONSTANTS
  Step <- NestedStep
  T <- NestedT
  NAID <- NestedNext
  First <- NestedFirst
  NLoop <- NoFunction
  ErrorAction <- NoFunction
  DefaultNext <- NoFunction
  SubFirst <- NoFunction
  OnDecision <- NoFunction
  Fragile = {}
  Consumer <- Consumers
  Exec <- Execs
  Msg <- Msgs
  Budget <- Budgets
  MaxReceive = 4
  NoStep = NoStep
  None = None
  Consumers = {c1}
  Throws = 0
  Crashes = 0
  Losses = 0
  Users = 0
  Messages = 12
  Executions = 1
SPECIFICATION FairSpec
INVARIANT ResultsVisible
INVARIANT FinishedIsLast
INVARIANT JoinClosesBranches
PROPERTY EventuallyFinished
