\* Two mailboxes, two packages; one commit of a job at any point of a handler; two generations.
SPECIFICATION Spec
CONSTANTS
  home = home
  away = away
  ana = ana
  ben = ben
  h1 = h1
  h2 = h2
  h3 = h3
  h4 = h4
  t1 = t1
  t3 = t3
  p1 = p1
  p2 = p2
  acme = acme
  out = out
  k1 = k1
  k2 = k2
  Universe <- MCUniverse
  Starts <- MCStarts
  Extractable <- MCExtractable
  Boxes = {home, away}
  Senders = {home}
  Packages = {k1, k2}
  Emails = {ana, ben}
  Domain <- MCDomain
  Personal = {out}
  Projects = {p1, p2}
  ProjectBox <- MCProjectBox
  Label <- MCLabel
  Scopes <- MCScopes
  Windows <- MCWindows
  Queries <- MCQueries
  MaxClaims = 1
  MaxEvidence = 1
  MaxGen = 2
  MaxWrites = 1
  None = None
SYMMETRY Permuted
INVARIANTS TypeOK PackageHolds ShownHolds
PROPERTY PublishedWasReviewed
