\* Two required types, each uploaded up to twice; two handlers at a time
\* while every type has at most one document; one rebuild at a time.
SPECIFICATION Spec
CONSTANTS
  DocumentType = {id, nrso}
  MaxCopies = 2
  Request = {r1, r2}
  MaxOverlap = 1
  Server = {w1}
INVARIANTS
  ListedIsApproved
  NobodyWaitsInVain
  ListedIsFound
PROPERTIES
  SuspensionHolds
SYMMETRY Symmetry
