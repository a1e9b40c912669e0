SPECIFICATION Spec
CONSTANTS
  c1 = c1
  c2 = c2
  None = None
  Conn = {c1, c2}
  Name = {"n", "m"}
  Password = {"p"}
  Capacity = 1
  Configs <- MCConfigs
  MaxSignUps = 2
  MaxTokens = 2
  MaxFaults = 1
SYMMETRY Symmetry
INVARIANTS NoOrphanKey SessionHasKey KeysAgree StreamsAgree
CHECK_DEADLOCK FALSE
