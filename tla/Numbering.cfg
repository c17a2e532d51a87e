CONSTANTS
  Caller = {c1, c2, c3}
  Number <- Numbers
  MaxNumber = 3
  MaxFailures = 1
SPECIFICATION FairSpec
INVARIANT Dense
PROPERTY OneRecordPerNumber
PROPERTY Recovers
