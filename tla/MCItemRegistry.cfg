SPECIFICATION Spec
CONSTANTS
  i1 = i1  i2 = i2  e1 = e1  e2 = e2  e3 = e3
  None = None
  Blank = ""
  Entry = {e1, e2, e3}
  Item = {i1, i2}
  ProviderOf <- MCProviderOf
  Id <- MCId
  Material <- MCMaterial
  MaxGeneration = 3
  MaxFaults = 1
SYMMETRY Symmetry
INVARIANTS ProofIsBacked ClaimsAreFound MovesAreOnRecord
PROPERTIES HistorySpec
CHECK_DEADLOCK FALSE
