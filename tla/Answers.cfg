\* Three messages of two mailboxes, any tags; one commit of a job at any point of a request.
SPECIFICATION Spec
CONSTANTS
  mine = mine
  theirs = theirs
  h1 = h1
  h2 = h2
  t1 = t1
  t2 = t2
  ana = ana
  ben = ben
  p1 = p1
  Mine = mine
  Universe <- MCUniverse
  Projects = {p1}
  Persons = {ana, ben}
  Members <- MCMembers
  Takes <- MCTakes
  Specific <- MCSpecific
  TopK = 1
  TopN = 1
  Claims <- MCClaims
  MaxWrites = 1
  None = None
INVARIANTS TypeOK CitesOwnMail
PROPERTIES DetailsAreSafe
