SPECIFICATION Spec
CONSTANTS
  s1 = s1
  s2 = s2
  u1 = u1
  k1 = k1
  NoContext = NoContext
  NoCut = NoCut
  Session = {s1, s2}
  Member = {u1}
  Provider = {"p"}
  AccountId = {"a"}
  Track = {"t"}
  Goals = {"play"}
  MemberLimit = 2
  PolicyLimit = 2
  AccountPolicy <- MCAccountPolicy
  CapValues = {1}
  TTL = 1
  Window = 1
  GrantTTL = 1
  MaxTime = 2
  Cutter = {k1}
  TornStores = FALSE
SYMMETRY Symmetry
INVARIANTS
  CutIsOldestFirst
  IndexSound
CHECK_DEADLOCK FALSE
