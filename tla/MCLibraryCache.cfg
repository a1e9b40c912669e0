SPECIFICATION FairSpec
CONSTANTS
  u1 = u1  u2 = u2  a1 = a1  r1 = r1  e1 = e1
  Nothing = Nothing
  User = {u1, u2}
  Account = {a1}
  Reader = {r1}
  Editor = {e1}
  MaxSyncs = 2
  MaxEdits = 2
  MaxFaults = 1
INVARIANTS StaleIsSwept
CHECK_DEADLOCK FALSE
PROPERTY StaleLeaves
