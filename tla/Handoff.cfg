\* Three packages, two creator requests and two holders of the share link at a time, one
\* API process.
SPECIFICATION Spec
CONSTANTS
  Packages = {p1, p2, p3}
  Msgs = {x1}
  Requests = {c1, c2}
  Visitors = {v1, v2}
  None = None
  Overlap = FALSE
CONSTRAINT MCBound
SYMMETRY MCSymmetry
INVARIANTS TypeOK OneLiveVersion OneReaderPerCode EndedIsClosed
PROPERTY KeepsSharing
