\* Two mailboxes of two owners who may consent with the same Google account, one API
\* process, a job worker, two faults.
SPECIFICATION Spec
CONSTANTS
  Mailboxes = {m1, m2}
  Providers = {gmail, google_calendar}
  Gmail = gmail
  Googles = {g1, g2, g3}
  Subjects = {g1, g3}
  m1 = m1
  m2 = m2
  g1 = g1
  g2 = g2
  o1 = o1
  o2 = o2
  Owner <- MCOwner
  Matches <- MCMatches
  States = {s1, s2, s3}
  Refs = {r1, r2, r3}
  Requests = {c1}
  Workers = {w1}
  None = None
  Overlap = FALSE
  MaxFaults = 2
SYMMETRY MCSymmetry
INVARIANTS TypeOK OneOwnerPerGoogle TokensHold
CHECK_DEADLOCK FALSE
