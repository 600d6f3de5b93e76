CONSTANTS
  Users = {u1, u2}
  Files = {f1}
  Passwords = {p1, p2}
  Values = {v1}
  NRecords = 2
  NChunks = 2
  Root = root
  None = none
  BadUser = badUser
  BadFile = badFile
  BadPassword = badPassword
  Faults = {"crash"}
  MaxLost = 0
SPECIFICATION Spec
INVARIANTS TypeOK RegisteredIsComplete ChangesAreDone ResultsAreTrue StatusIsDue
PROPERTY ImplementsStore
SYMMETRY Symmetry
