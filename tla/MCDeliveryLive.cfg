SPECIFICATION FairSpec
CONSTANTS
  s1 = s1
  u1 = u1
  NoContext = NoContext
  NoCut = NoCut
  Session = {s1}
  Member = {u1}
  Provider = {"p"}
  AccountId = {"a"}
  Track = {"t", "w"}
  Goals = {"play", "download"}
  MemberLimit = 1
  PolicyLimit = 2
  AccountPolicy <- MCAccountPolicy
  CapValues = {0}
  TTL = 2
  Window = 1
  GrantTTL = 2
  MaxTime = 9
  Cutter = {}
  TornStores = TRUE
PROPERTIES
  PhantomsEnd  RevokedIsDiscarded
CHECK_DEADLOCK FALSE
