\* Two workers, one request at a time, keyed and keyless jobs; one lease is outlived.
SPECIFICATION Spec
CONSTANTS
  Workers = {w1, w2}
  Clients = {c1}
  Keys = {k1, None}
  None = None
  MaxJobs = 2
  AttemptLimits = {2}
  MaxAborts = 0
  MaxOverruns = 1
SYMMETRY Symmetry
INVARIANTS TypeOK AttemptsAreBounded
PROPERTIES LoadedCancelNeverSucceeds QuietTerminalIsFinal
CHECK_DEADLOCK FALSE
