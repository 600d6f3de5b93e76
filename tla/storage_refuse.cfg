CONSTANTS
  Users = {u1}
  Files = {f1}
  Passwords = {p1, p2}
  Values = {v1}
  NRecords = 2
  NChunks = 2
  Root = root
  None = none
  BadUser = badUser
  BadFile = badFile
  BadPassword = badPassword
  Faults = {"crash", "refuse"}
  MaxLost = 0
SPECIFICATION FairSpec
INVARIANT UsedFileIsWhole
PROPERTIES DeleteHitsTarget CallReturns
