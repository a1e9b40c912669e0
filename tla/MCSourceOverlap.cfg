SPECIFICATION FairSpec
CONSTANTS
  Item <- MCItem
  Items = 2
  PageSize = 1
  Run = {r1, r2}
  Classes = {"library"}
  Marker = Marker
  MaxChanges = 1
  MaxFaults = 0
PROPERTIES NoFalseDeparture Heals
CHECK_DEADLOCK FALSE
