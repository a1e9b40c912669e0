SPECIFICATION Spec
CONSTANTS
  a1 = a1
  o = o
  g = g
  c1 = c1
  c2 = c2
  d1 = d1
  Unset = Unset
  Nothing = Nothing
  Account = {a1}
  Owner = o
  Guest = {g}
  Call = {c1, c2}
  Start = {d1}
  Caps = {0, 1}
  Links <- MCLinks
  Edits <- MCEdits
  CapChangeDefault = "new-sessions-only"
  FaultSites = {"save", "add", "attach", "unrecord", "read", "write"}
  MaxFaults = 1
  MaxRestarts = 1
SYMMETRY Symmetry
INVARIANTS
  RecordAndReachAgree
  AllOrNothing
  SessionsFollowReach
PROPERTIES
  FailedEditChangesNothing
  NarrowingSparesTheAuthorized
CHECK_DEADLOCK FALSE
