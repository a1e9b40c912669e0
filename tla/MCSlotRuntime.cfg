SPECIFICATION Spec
CONSTANTS
  s1 = s1
  s2 = s2
  s3 = s3
  a1 = a1
  a2 = a2
  a3 = a3
  a4 = a4
  Server = {s1, s2, s3}
  Account = {a1, a2, a3, a4}
  Home <- MCHome
  Declared = {s1}
  Lazy = {s3}
  Call = {c1, c2}
  MaxFaults = 1
INVARIANTS  SlotsAgree OneWorkerPerJob
SYMMETRY Symmetry
CHECK_DEADLOCK FALSE
