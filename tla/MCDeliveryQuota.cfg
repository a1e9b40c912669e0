SPECIFICATION Spec
CONSTANTS
  s1 = s1
  s2 = s2

  u1 = u1
  u2 = u2
  NoContext = NoContext
  NoCut = NoCut
  Session = {s1, s2}
  Member = {u1, u2}
  Provider = {"p"}
  AccountId = {"a", "b"}
  Track = {"t"}
  Goals = {"download"}
  MemberLimit = 1
  PolicyLimit = 1
  AccountPolicy <- MCAccountPolicy
  CapValues = {1, 3}
  TTL = 2
  Window = 1
  GrantTTL = 1
  MaxTime = 0
  Cutter = {}
  TornStores = FALSE
SYMMETRY Symmetry
INVARIANTS
  MemberQuota
  AccountQuota
  PolicyCeiling
PROPERTIES
  GateSpec
CHECK_DEADLOCK FALSE
