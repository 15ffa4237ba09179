\* One worker, two mailboxes without a common contact, rolled-back failures.
SPECIFICATION Spec
CONSTANTS
  m1 = m1  m2 = m2  x1 = x1  x2 = x2  x3 = x3
  alice = alice  bob = bob  carol = carol  t1 = t1  t2 = t2
  Workers = {w1}
  Mailboxes = {m1, m2}
  Msgs = {x1, x2, x3}
  Persons = {alice, bob, carol}
  Threads = {t1, t2}
  None = None
  Windows <- MCWindowsApart
  Contacts <- MCContactsApart
  ThreadOf <- MCThreadOf
  Sensitive = {x2}
  Faults = {"rollback"}
INVARIANTS TypeOK SurfacesReflectStored
PROPERTIES ScopedToMailbox KeepsPromise NeverPaidTwice
CHECK_DEADLOCK FALSE
