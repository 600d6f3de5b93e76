CONSTANTS
  Users = {u1, u2, u3}
  Files = {f1, f2}
  Passwords = {p1, p2}
  Values = {v1}
  NRecords = 2
  NChunks = 2
  Root = root
  None = none
  BadUser = badUser
  BadFile = badFile
  BadPassword = badPassword
  Faults = {}
  MaxLost = 0
  Password = p1
  Value = v1
SPECIFICATION TestSpec
INVARIANTS FirstFailureIsKnown TestsLeaveNoTrace DiesOnlyWhenEmpty
PROPERTIES TestsSpareOthers TestsEnd
CHECK_DEADLOCK FALSE
