SPECIFICATION FairSpec
CONSTANTS
  Item <- MCItem
  Items = 2
  PageSize = 1
  Run = {r1}
  Classes = {"library", "lazy"}
  Marker = Marker
  MaxChanges = 2
  MaxFaults = 1
INVARIANTS ToldWhatIsCached DropLeavesNothing
PROPERTIES LandsWhole
CHECK_DEADLOCK FALSE
