\* Three messages in two threads, two contacts, two projects; one commit of a job at any point of a request.
SPECIFICATION MapsSpec
CONSTANTS
  owner = owner
  ana = ana
  ben = ben
  h1 = h1
  h2 = h2
  h3 = h3
  t1 = t1
  t2 = t2
  acme = acme
  p1 = p1
  p2 = p2
  Owner = owner
  Contacts = {ana, ben}
  Universe <- MCUniverse
  Domain <- MCDomain
  Internal = {}
  Legal = {}
  Trusted = {"internal", "manager", "vendor", "ae", "lead"}
  Projects = {p1, p2}
  Old = {h1}
  Involvement = 1
  BridgeMin = 2
  MinEvidence = 1
  MaxNodes = 4
  MaxEdges = 5
  MaxShared = 1
  MapRoots = {ana, acme}
  Filters <- MCFilters
  MaxWrites = 1
  NoNode = NoNode
INVARIANT MapsTypeOK
PROPERTIES ViewsAgree DirectIsBacked
