SPECIFICATION Spec
CONSTANTS
  h1 = h1
  h2 = h2
  k = k
  a = a
  e1 = e1
  e2 = e2
  w1 = w1
  w2 = w2
  w3 = w3
  ra = ra
  rb = rb
  rc = rc
  Http <- Https
  Consumer <- Consumers
  Admin <- Admins
  Editor <- Editors
  FirstPage <- Page
  OtherPage <- Others
  Versions <- Deployed
  Instances <- InstanceSet
  MaxSub = 2
INVARIANTS TypeOK UsageAccounted PaidIsOpen OneFreeRunEach StatusMatchesRule
CHECK_DEADLOCK FALSE
