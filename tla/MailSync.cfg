\* Three mails that arrive at any time, an operator's run or a job at a time, failures anywhere.
SPECIFICATION Spec
CONSTANTS
  Mails = {first, again, other}
  Mids = {first, reply, again, other}
  first = first
  reply = reply
  again = again
  other = other
  Mid <- MCMid
  References <- MCReferences
  Group <- MCGroup
  Cli = cli
  Job = job
  Runners = {cli, job}
  Days = {0, 1}
  PerDay = 1
  Caps = {1, 2}
  Page = 1
  None = None
  Overlap = FALSE
INVARIANTS TypeOK TokenIsComplete ThreadsFollowHeaders WindowIsInclusive
