\* Two workers, two requests at a time; one run aborts, no lease is outlived.
\* Workers, requests and time are fair.
SPECIFICATION FairSpec
CONSTANTS
  Workers = {w1, w2}
  Clients = {c1, c2}
  Keys = {k1}
  None = None
  MaxJobs = 2
  AttemptLimits = {2}
  MaxAborts = 1
  MaxOverruns = 0
INVARIANTS OneActiveJobPerKey SingleExecution
PROPERTIES EveryJobEnds
CHECK_DEADLOCK FALSE
