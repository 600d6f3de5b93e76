CONSTANTS
  Users = {u1, u2}
  Files = {f1}
  Passwords = {p1, p2}
  Values = {v1}
  NRecords = 1
  NChunks = 1
  Root = root
  None = none
  BadUser = badUser
  BadFile = badFile
  BadPassword = badPassword
  Faults = {}
  MaxLost = 0
  Passwd = p1
  FirstUser = u1
  FirstFile = f1
SPECIFICATION ConsoleSpec
INVARIANT PrintsThisFile
PROPERTIES SparesOtherPasswords DeletionsAreSpelledOut
