SPECIFICATION Spec
CONSTANTS
  s1 = s1
  s2 = s2
  e1 = e1
  e2 = e2
  o1 = o1
  o2 = o2
  None = None
  Caller <- Callers
  Email <- Emails
  OrgId <- OrgIds
  Settings <- OnlySignUps
SYMMETRY Symmetry
INVARIANT InvitationsAccepted
CHECK_DEADLOCK FALSE
