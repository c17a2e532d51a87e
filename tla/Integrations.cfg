SPECIFICATION IntegrationsSpec
CONSTANTS
  t1 = t1
  t2 = t2
  f1 = f1
  f2 = f2
  f3 = f3
  xero = xero
  shopify = shopify
  square = square
  custom = custom
  none = none
  w1 = w1
  w2 = w2
  Task <- Tasks
  Flow <- Flows
  Client <- Clients
  Grant <- Grants
  Echo <- Echoing
  Rotating <- Rotates
  Seeded <- Seeds
  None = none
  MaxRestarts = 1
  Worker <- Workers
  Database <- Drivers
  Limit = 2
  Key <- Two
  Content <- Two
  Lists <- SmallLists
  Mentions <- Lengths
  Gap = 14
  Plans <- AllPlans
SYMMETRY Symmetry
INVARIANTS LostOnlyIfDisturbed IssuedToItsClient StoredRefreshWorks
           ConnectionsAccounted MatchingAgrees
CHECK_DEADLOCK FALSE
