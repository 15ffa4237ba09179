\* Two API processes, two tenants, a package of two versions whose grants may expire, one
\* failure, one job waiting.
SPECIFICATION Spec
CONSTANTS
  Processes = {p1, p2}
  Environments <- MCEnvironments
  People = {ada, carl, tom}
  Dev = dev
  TenantOf <- MCTenantOf
  Roles <- MCRoles
  Mailboxes = {m1}
  Connectable = {m1}
  OwnerOf <- MCOwnerOf
  Packages = {k1, k2}
  MailboxOf <- MCMailboxOf
  Flagged = {k1, k2}
  None = None
  Fates = {"expired"}
  MaxJobs = 1
  MaxFaults = 1
  ada = ada
  carl = carl
  tom = tom
  m1 = m1
  k1 = k1
  k2 = k2
  t1 = t1
  t2 = t2
  td = td
SYMMETRY MCSymmetry
INVARIANTS TypeOK AdminViewsHold AuditIsComplete
CHECK_DEADLOCK FALSE
