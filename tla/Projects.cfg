\* Three threads, two addresses of the owner, a tagged mail; two writing jobs beside one run at a time.
SPECIFICATION ProjectsSpec
CONSTANTS
  a = a
  b = b
  c = c
  d = d
  x = x
  y = y
  z = z
  k1 = k1
  k2 = k2
  ph = ph
  l1 = l1
  Universe <- MCUniverse
  Windows <- MCWindows
  Emails <- MCEmails
  OwnerEmail = a
  Alike <- MCAlike
  Words <- MCWords
  Ln <- MCLn
  Dim = 2
  Phrases = {ph}
  Limits = {0, 1}
  DropPercent = 50
  MaxBlock = 300
  AnnK = 2
  KnnCap = 1
  MinThreadsLeiden = 3
  MaxIngests = 2
  NoOne = NoOne

INVARIANTS ProjectsTypeOK StoredIsAClustering
PROPERTY ExcludedLeave
CHECK_DEADLOCK FALSE
