\* One worker, one mailbox; a replace fails on the client side.
SPECIFICATION Spec
CONSTANTS
  m1 = m1  m2 = m2  x1 = x1  x2 = x2  x3 = x3
  alice = alice  bob = bob  carol = carol  t1 = t1  t2 = t2
  Workers = {w1}
  Mailboxes = {m1}
  Msgs = {x1, x2, x3}
  Persons = {alice, bob, carol}
  Threads = {t1, t2}
  None = None
  Windows <- MCWindowsOne
  Contacts <- MCContactsApart
  ThreadOf <- MCThreadOf
  Sensitive = {x2}
  Faults = {"rollback", "client"}
PROPERTY FailedReplaceKeepsSnapshot
CHECK_DEADLOCK FALSE
