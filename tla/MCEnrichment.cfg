SPECIFICATION FairSpec
CONSTANTS
  e1 = e1  e2 = e2  k1 = k1  k2 = k2
  Nobody = Nobody
  Blank = ""
  Entry = {e1, e2}
  Title <- MCTitle
  Id <- MCId
  Asserted <- MCAsserted
  Catalogue = {k1, k2}
  Field = {"title"}
  Candidate <- MCCandidate
  MaxFailures = 1
INVARIANTS TiesAbstain
PROPERTIES NobodyStarves MarkedGetsRecord
CHECK_DEADLOCK FALSE
