CONSTANTS
  Users = {u1}
  Files = {f1}
  Passwords = {p1}
  Values = {v1}
  NRecords = 2
  NChunks = 1
  Root = root
  None = none
  BadUser = badUser
  BadFile = badFile
  BadPassword = badPassword
  Faults = {}
  MaxLost = 0
SPECIFICATION Spec
INVARIANT MissingFileIsTold
