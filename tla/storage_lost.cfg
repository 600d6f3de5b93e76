CONSTANTS
  Users = {u1, u2}
  Files = {f1}
  Passwords = {p1, p2}
  Values = {v1}
  NRecords = 1
  NChunks = 2
  Root = root
  None = none
  BadUser = badUser
  BadFile = badFile
  BadPassword = badPassword
  Faults = {}
  MaxLost = 2
SPECIFICATION Spec
INVARIANT ReadNeedsPassword
PROPERTIES OnlyOwnerChanges CreatesInOwnDf
SYMMETRY Symmetry
