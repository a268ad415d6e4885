CONSTANTS
  Jobs = {j1, j2, j3, j4}
  Malformed = {j4}
  Failing = {j2, j3}
  Workers = {w1, w2}
  NoJob = NoJob
  MaxInterruptions = 2
  DefaultAttempts = 1
SPECIFICATION FairSpec
INVARIANTS TypeOK NoJobIsLost OneEmailPerInterruption
PROPERTIES ImplementsDurableQueue GoodJobsGetDone
