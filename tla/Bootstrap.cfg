SPECIFICATION FairSpec
CONSTANTS
  t1 = t1
  t2 = t2
  u = u
  Task <- Tasks
  User <- Users
  Deployments <- Instances
  AppCalls <- NewApps
  ClientCalls <- NewClients
  Trim <- Trims
  Prefix <- Prefixes
  MaxCalls = 1
  MaxFaults = 1
INVARIANTS TypeOK NumbersDense NamesOnce ClientOfItsApp StartedComplete AloneNoTwins
PROPERTY ConsumerStarts
CHECK_DEADLOCK FALSE
