CONSTANTS
  Users = {u1}
  Files = {f1}
  Passwords = {p1}
  Values = {v1}
  NRecords = 4
  NChunks = 1
  Root = root
  None = none
  BadUser = badUser
  BadFile = badFile
  BadPassword = badPassword
  Faults = {}
  MaxLost = 1
SPECIFICATION Spec
PROPERTY DeleteOfMissingChangesNothing
