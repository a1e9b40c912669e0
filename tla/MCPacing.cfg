SPECIFICATION FairSpec
CONSTANTS
  Caller = {c1, c2}
  Account = {a1, a2}
  Budgets <- MCBudgets
  Spacing = 1
  Base = 1
  Max = 2
  Width = 3
  MaxHangUps = 1
  None = None
INVARIANTS BooksBalance SlotsAreApart OnlySleepersExceed
PROPERTIES ErrorsNeverShortenBackoff CallsReturn
CHECK_DEADLOCK FALSE
